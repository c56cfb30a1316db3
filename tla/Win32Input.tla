------------------------------ MODULE Win32Input ------------------------------
(***************************************************************************)
(* The decoder of Win32-Input-Mode on Windows (Win32InputDecoder): every   *)
(* key comes as CSI body _, where the body is six numbers; what is no such *)
(* sequence is passed on as it is. Input comes in reads of any size, and a *)
(* sequence that a read cuts short is kept for the next one.               *)
(*                                                                         *)
(* A body that parses is one or more "0" here, for the digits and          *)
(* semicolons up to the event, and the event: a key that was pressed or    *)
(* released, or that is the high or the low half of a surrogate pair. Its  *)
(* numbers may have leading zeros, so that it can be of any length above   *)
(* the least, the greatest that is looked at (MAX_BODY_LEN) and more       *)
(* included. Other bodies do not parse.                                    *)
(***************************************************************************)
EXTENDS Integers, Sequences

CONSTANTS
    MaxBody,   \* MAX_BODY_LEN
    MaxRead,   \* bound: characters to one read
    MaxChars   \* bound: characters in all

ASSUME Win32InputAssumption ==
    MaxBody \in Nat

Events == {"press", "release", "high", "low"}
BodyChars == {"0"} \cup Events
Chars == {"esc", "[", "_"} \cup BodyChars

VARIABLES
    pending,  \* Win32InputDecoder::pending
    high,     \* Win32InputDecoder::high_surrogate is there
    output,   \* what the shell is sent
    first,    \* history: high, at first
    received, \* history: all that was read
    parted    \* history: a read ended where it matters (Parts)

decoderVars == <<pending, high, output, first, received, parted>>

DecoderInit ==
    /\ pending = <<>>
    /\ high \in BOOLEAN
    /\ output = <<>>
    /\ first = high
    /\ received = <<>>
    /\ parted = FALSE

\* The bodies that decode_body parses.
SixNumbers(body) ==
    LET n == Len(body)
    IN  n > 1 /\ body[n] \in Events /\ \A i \in 1..(n - 1) : body[i] = "0"

\* decode_body: the text of an event, and the high surrogate that is kept.
\* "raw" is a sequence that is passed on as it is: a body that does not parse,
\* or a low surrogate with no high one before it.
Decode(body, kept) ==
    LET event == IF SixNumbers(body) THEN body[Len(body)] ELSE "none"
    IN  CASE event = "press"          -> [text |-> <<"char">>, high |-> FALSE]
          [] event = "release"        -> [text |-> <<>>, high |-> kept]
          [] event = "high"           -> [text |-> <<>>, high |-> TRUE]
          [] event = "low" /\ kept    -> [text |-> <<"pair">>, high |-> FALSE]
          [] OTHER                    -> [text |-> <<"raw">>, high |-> kept]

\* A mutant: only a `_` ends a body.
BodyEndAtUnderscore(s, i) ==
    CHOOSE e \in i..(Len(s) + 1) :
      /\ e - i <= MaxBody
      /\ \A j \in i..(e - 1) : s[j] # "_"
      /\ e > Len(s) \/ e - i = MaxBody \/ s[e] = "_"

\* Where the body that starts at i ends: before the first character that is not
\* a body's, and MaxBody characters on at most.
BodyEnd(s, i) ==
    CHOOSE e \in i..(Len(s) + 1) :
      /\ e - i <= MaxBody
      /\ \A j \in i..(e - 1) : s[j] \in BodyChars
      /\ e > Len(s) \/ e - i = MaxBody \/ s[e] \notin BodyChars

\* One turn of the loop of `feed`, at the i-th character: what it sends, where
\* it goes on and the surrogate it keeps. It goes on where it is when it waits
\* for the rest of a sequence.
Turn(s, i, h) ==
    LET n == Len(s)
        e == BodyEnd(s, i + 2)
        d == Decode(SubSeq(s, i + 2, e - 1), h)
        literally == [text |-> <<s[i]>>, next |-> i + 1, high |-> h]
    IN  IF s[i] # "esc" \/ i = n \/ s[i + 1] # "[" THEN literally
        ELSE IF e <= n /\ s[e] = "_" /\ d.text # <<"raw">>
        THEN [text |-> d.text, next |-> e + 1, high |-> d.high]
        ELSE IF e = n + 1 /\ e - (i + 2) < MaxBody
        THEN [text |-> <<>>, next |-> i, high |-> h]
        ELSE literally

\* The loop, from the i-th character on with a surrogate or without: what is
\* sent, the surrogate kept and what is left for the next read.
Feed(s, kept) ==
    LET loop[i \in 1..(Len(s) + 1)] ==
          [h \in BOOLEAN |->
             IF i > Len(s) THEN [out |-> <<>>, high |-> h, rest |-> <<>>]
             ELSE LET turn == Turn(s, i, h)
                  IN  IF turn.next = i
                      THEN [out  |-> <<>>, high |-> h,
                            rest |-> SubSeq(s, i, Len(s))]
                      ELSE LET later == loop[turn.next][turn.high]
                           IN  [out  |-> turn.text \o later.out,
                                high |-> later.high, rest |-> later.rest]]
    IN  loop[1][kept]

\* The text ends with a sequence whose body parses and is of the greatest length.
Full(s) ==
    LET n == Len(s) - MaxBody
    IN  n > 1 /\ s[n - 1] = "esc" /\ s[n] = "[" /\ SixNumbers(SubSeq(s, n + 1, Len(s)))

\* The two cuts that matter: what was read ended with an ESC and a [ comes now,
\* or with a body of the greatest length and its _ comes now.
Parts(s, data) ==
    \/ s # <<>> /\ s[Len(s)] = "esc" /\ data[1] = "["
    \/ Full(s) /\ data[1] = "_"

\* A mutant: what was kept is dropped.
ReadDrops(data) ==
    LET fed == Feed(data, high)
    IN  /\ Len(received) + Len(data) <= MaxChars
        /\ pending' = fed.rest
        /\ high' = fed.high
        /\ output' = output \o fed.out
        /\ received' = received \o data
        /\ parted' = (parted \/ Parts(received, data))
        /\ UNCHANGED first

\* One read, after what the last one left.
Read(data) ==
    LET fed == Feed(pending \o data, high)
    IN  /\ Len(received) + Len(data) <= MaxChars
        /\ pending' = fed.rest
        /\ high' = fed.high
        /\ output' = output \o fed.out
        /\ received' = received \o data
        /\ parted' = (parted \/ Parts(received, data))
        /\ UNCHANGED first

DecoderNext == \E n \in 1..MaxRead : \E data \in [1..n -> Chars] : Read(data)

DecoderSpec == DecoderInit /\ [][DecoderNext]_decoderVars

-----------------------------------------------------------------------------
\* However what the console sends is cut into reads, except between an ESC and
\* its [ and between a body of the greatest length and its _, the shell is sent
\* the same as if it had come in one, and the same is kept for later
\* (Win32InputDecoder::feed; "a_sequence_split_across_two_reads_still_decodes",
\* win32_codec.rs:185).
CutsDoNotMatter ==
    LET whole == Feed(received, first)
    IN  ~parted => /\ output = whole.out
                   /\ high = whole.high
                   /\ pending = whole.rest

\* A character is decoded or passed on; none is kept back once it is clear that
\* it starts no sequence. What is kept starts with an ESC and a [, and goes on
\* with a body (Win32InputDecoder::feed).
OnlySequencesWait ==
    pending # <<>> =>
      /\ Len(pending) >= 2 /\ pending[1] = "esc" /\ pending[2] = "["
      /\ \A i \in 3..Len(pending) : pending[i] \in BodyChars
      /\ Len(pending) - 2 < MaxBody
=============================================================================
