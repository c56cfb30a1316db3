------------------------------- MODULE DetachKey -------------------------------
(***************************************************************************)
(* The detach key of an attach that a person started (DetachKey::feed):    *)
(* Ctrl-\ then d detaches, Ctrl-\ twice sends one on, and Ctrl-\ before    *)
(* anything else is sent with it. Input comes in reads of any size, so a   *)
(* Ctrl-\ may be the last byte of one and decide what the next one means.  *)
(* What the keys of an attach mean is defined a second time, from all that *)
(* was typed, for AttachClient to compare with.                            *)
(***************************************************************************)
EXTENDS Integers, Sequences, FiniteSetsExt

\* Ctrl-\, d, and any other byte.
Bytes == {"prefix", "d", "other"}

\* A mutant: the second of two prefix keys leaves the key armed.
StepStaysArmed(key, byte) ==
    CASE key.detached -> key
      [] ~key.detached /\ key.armed /\ byte = "d" ->
           [key EXCEPT !.armed = FALSE, !.detached = TRUE]
      [] ~key.detached /\ key.armed /\ byte = "prefix" ->
           [key EXCEPT !.forward = @ \o <<"prefix">>]
      [] ~key.detached /\ key.armed /\ byte = "other" ->
           [key EXCEPT !.armed = FALSE, !.forward = @ \o <<"prefix", byte>>]
      [] ~key.detached /\ ~key.armed /\ byte = "prefix" ->
           [key EXCEPT !.armed = TRUE]
      [] ~key.detached /\ ~key.armed /\ byte # "prefix" ->
           [key EXCEPT !.forward = @ \o <<byte>>]

\* One byte. What follows the detach key is dropped with it.
Step(key, byte) ==
    CASE key.detached -> key
      [] ~key.detached /\ key.armed /\ byte = "d" ->
           [key EXCEPT !.armed = FALSE, !.detached = TRUE]
      [] ~key.detached /\ key.armed /\ byte = "prefix" ->
           [key EXCEPT !.armed = FALSE, !.forward = @ \o <<"prefix">>]
      [] ~key.detached /\ key.armed /\ byte = "other" ->
           [key EXCEPT !.armed = FALSE, !.forward = @ \o <<"prefix", byte>>]
      [] ~key.detached /\ ~key.armed /\ byte = "prefix" ->
           [key EXCEPT !.armed = TRUE]
      [] ~key.detached /\ ~key.armed /\ byte # "prefix" ->
           [key EXCEPT !.forward = @ \o <<byte>>]

\* DetachKey::feed: one read, byte by byte.
Feed(key, input) ==
    LET fed[n \in 0..Len(input)] ==
          IF n = 0 THEN key ELSE Step(fed[n - 1], input[n])
    IN  fed[Len(input)]

-----------------------------------------------------------------------------
\* The prefix keys that arm: those with an even number of prefix keys right
\* before them.
RunBefore(s, i) ==
    Cardinality({j \in 1..(i - 1) : \A x \in j..(i - 1) : s[x] = "prefix"})

Arms(s, i) == s[i] = "prefix" /\ RunBefore(s, i) % 2 = 0

\* Where the detach key ends: at the first d after a prefix key that arms.
DetachesAt(s) == {i \in 2..Len(s) : s[i] = "d" /\ Arms(s, i - 1)}

\* What is sent: everything but the prefix keys that arm, unless another byte
\* than d or a second prefix key comes after one.
Sent(s) ==
    {i \in 1..Len(s) :
       Arms(s, i) => i < Len(s) /\ s[i + 1] = "other"}

\* Where the first detach key begins, or the end of what was typed.
Kept(s) == IF DetachesAt(s) = {} THEN Len(s) ELSE Min(DetachesAt(s)) - 2

\* What is sent of all that was typed.
SentOf(s) ==
    LET sent[n \in 0..Kept(s)] ==
          IF n = 0 THEN <<>>
          ELSE IF n \in Sent(s) THEN Append(sent[n - 1], s[n]) ELSE sent[n - 1]
    IN  sent[Kept(s)]
=============================================================================
