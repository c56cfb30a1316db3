---------------------------- MODULE TerminalStream ----------------------------
(***************************************************************************)
(* What a session promises the terminals of its clients, whatever happens  *)
(* to connections and masters in between: a terminal shows the session as  *)
(* it was at one position of one master's output, and only moves forward,  *)
(* either by being repainted at a later position or by exactly the bytes   *)
(* that come next. Nothing is skipped, repeated or taken from the output   *)
(* of another master. Session.tla implements this.                         *)
(***************************************************************************)
EXTENDS Integers, Sequences

CONSTANTS
    Terminals,   \* the terminals clients attach from
    MaxEpoch,    \* bound: masters that follow one another
    None         \* nothing is shown yet

VARIABLES
    epoch,    \* the running master
    total,    \* bytes of output each master has produced
    screen    \* what each terminal shows: a picture of the session at `base`
              \* and the bytes that were written over it

vars == <<epoch, total, screen>>

Epochs == 1..MaxEpoch
Byte == Epochs \X Nat
Screen == [epoch : Epochs, base : Nat, bytes : Seq(Byte)]

\* The position a terminal has reached.
EndOf(s) == s.base + Len(s.bytes)

\* A position is not before the one a terminal shows.
NotBefore(e, p, s) ==
    s # None => e > s.epoch \/ (e = s.epoch /\ p >= EndOf(s))

Init ==
    /\ epoch = 1
    /\ total = [e \in Epochs |-> 0]
    /\ screen = [t \in Terminals |-> None]

Produce ==
    /\ total'[epoch] \in Nat
    /\ total'[epoch] >= total[epoch]
    /\ total' = [total EXCEPT ![epoch] = total'[epoch]]
    /\ UNCHANGED <<epoch, screen>>

NewMaster ==
    /\ epoch < MaxEpoch
    /\ epoch' = epoch + 1
    /\ total'[epoch + 1] \in Nat
    /\ total' = [total EXCEPT ![epoch + 1] = total'[epoch + 1]]
    /\ UNCHANGED screen

Repaint(t, e, p) ==
    /\ p <= total[e]
    /\ NotBefore(e, p, screen[t])
    /\ screen' = [screen EXCEPT ![t] =
                    [epoch |-> e, base |-> p, bytes |-> <<>>]]
    /\ UNCHANGED <<epoch, total>>

Extend(t, n) ==
    LET s == screen[t]
    IN  /\ s # None
        /\ EndOf(s) + n <= total[s.epoch]
        /\ screen' = [screen EXCEPT ![t].bytes =
                        @ \o [i \in 1..n |-> <<s.epoch, EndOf(s) + i>>]]
        /\ UNCHANGED <<epoch, total>>

Next ==
    \/ Produce
    \/ NewMaster
    \/ \E t \in Terminals : \/ \E e \in 1..epoch : \E p \in 0..total[e] :
                                 Repaint(t, e, p)
                            \/ /\ screen[t] # None
                               /\ \E n \in 0..total[screen[t].epoch] :
                                    Extend(t, n)

Spec == Init /\ [][Next]_vars
=============================================================================
