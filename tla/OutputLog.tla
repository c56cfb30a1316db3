------------------------------ MODULE OutputLog ------------------------------
(***************************************************************************)
(* The raw output a master keeps so that a client can resume: the last     *)
(* `capacity` bytes, numbered from the start of the session, and the epoch *)
(* that tells one master's numbering from another's (main.rs, OutputLog    *)
(* and OutputPosition).                                                    *)
(*                                                                         *)
(* A byte is identified by the master that produced it and its number, so  *)
(* a wrong byte in an answer is always a different value.                  *)
(***************************************************************************)
EXTENDS Integers, Sequences

CONSTANTS
    Capacities,   \* the capacities a log is created with
    PushSizes,    \* how many bytes one read of the PTY may return
    MaxTotal,     \* bound: bytes one master produces
    MaxEpoch,     \* bound: masters that follow one another
    None          \* `since` returned None, or no position is held yet

ASSUME OutputLogAssumption ==
    /\ Capacities \subseteq Nat
    /\ PushSizes \subseteq Nat
    /\ MaxTotal \in Nat
    /\ MaxEpoch \in Nat

Byte == Nat \X Nat
Position == [epoch : Nat, offset : Nat]

\* `Option` is None or a position, and never both.
ASSUME NoneAssumption == None \notin Position

VARIABLES
    log,       \* the OutputLog of the running master
    stream,    \* everything the running master has produced
    held       \* a position a client was given and may ask to resume from

logVars == <<log, stream, held>>

Log == [epoch : Nat, bytes : Seq(Byte), total : Nat, capacity : Nat]

\* usize::saturating_sub
SatSub(a, b) == IF a >= b THEN a - b ELSE 0

-----------------------------------------------------------------------------
NewLog(epoch, capacity) ==
    [epoch |-> epoch, bytes |-> <<>>, total |-> 0, capacity |-> capacity]

\* A mutant: data longer than the capacity is not cut down first.
PushKeepsAll(l, data) ==
    LET overflow == SatSub(Len(l.bytes) + Len(data), l.capacity)
    IN  [l EXCEPT !.bytes = SubSeq(@, overflow + 1, Len(@)) \o data,
                  !.total = @ + Len(data)]

Push(l, data) ==
    LET kept == SubSeq(data, SatSub(Len(data), l.capacity) + 1, Len(data))
        overflow == SatSub(Len(l.bytes) + Len(kept), l.capacity)
    IN  [l EXCEPT !.bytes = SubSeq(@, overflow + 1, Len(@)) \o kept,
                  !.total = @ + Len(data)]

\* A mutant: the position handed out is where a full log would begin.
PositionOfOldest(l) == [epoch |-> l.epoch, offset |-> l.total - l.capacity]

\* Where the next byte will be written.
PositionOf(l) == [epoch |-> l.epoch, offset |-> l.total]

\* The number of the oldest byte still kept.
Oldest(l) == l.total - Len(l.bytes)

\* A mutant: a position in another master's output is read against this one.
SinceIgnoresEpoch(l, p) ==
    IF p.offset < Oldest(l) \/ p.offset > l.total
    THEN None
    ELSE SubSeq(l.bytes, p.offset - Oldest(l) + 1, Len(l.bytes))

Since(l, p) ==
    IF \/ p.epoch # l.epoch
       \/ p.offset < Oldest(l)
       \/ p.offset > l.total
    THEN None
    ELSE SubSeq(l.bytes, p.offset - Oldest(l) + 1, Len(l.bytes))

-----------------------------------------------------------------------------
LogInit ==
    /\ \E c \in Capacities : log = NewLog(0, c)
    /\ stream = <<>>
    /\ held = None

\* One read of the PTY: the next n bytes of this master's output.
Output(n) ==
    LET data == [i \in 1..n |-> <<log.epoch, Len(stream) + i>>]
    IN  /\ Len(stream) + n <= MaxTotal
        /\ log' = Push(log, data)
        /\ stream' = stream \o data
        /\ UNCHANGED held

\* A client is given the position live output continues from.
Hand ==
    /\ held' = PositionOf(log)
    /\ UNCHANGED <<log, stream>>

\* The master is replaced by another one of the same name.
NewMaster(c) ==
    /\ log.epoch < MaxEpoch
    /\ log' = NewLog(log.epoch + 1, c)
    /\ stream' = <<>>
    /\ UNCHANGED held

LogNext ==
    \/ \E n \in PushSizes : Output(n)
    \/ Hand
    \/ \E c \in Capacities : NewMaster(c)

LogSpec == LogInit /\ [][LogNext]_logVars

-----------------------------------------------------------------------------
\* Types of the log, of the history and of the position a client holds.
LogTypeOK ==
    /\ log \in Log
    /\ stream \in Seq(Byte)
    /\ held \in Position \cup {None}

\* After any sequence of pushes, also one longer than the capacity, the log
\* holds exactly the newest bytes, as many as fit (OutputLog::push).
HoldsNewest ==
    /\ log.total = Len(stream)
    /\ Len(log.bytes) \in {Len(stream), log.capacity}
    /\ Len(log.bytes) <= Len(stream)
    /\ Len(log.bytes) <= log.capacity
    /\ \A i \in 1..Len(log.bytes) : log.bytes[i] = stream[Oldest(log) + i]

\* A client that resumes is sent precisely the bytes produced since its
\* position was handed out, and is refused when they are gone or when the
\* position is another master's (OutputLog::since).
ResumeExact ==
    held # None =>
      LET missed == Since(log, held)
      IN  IF /\ held.epoch = log.epoch
             /\ Len(stream) - held.offset <= log.capacity
          THEN missed = SubSeq(stream, held.offset + 1, Len(stream))
          ELSE missed = None
=============================================================================
