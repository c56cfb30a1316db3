---------------------------- MODULE TeardownProofs ----------------------------
(***************************************************************************)
(* What holds of the end of a session (Teardown.tla) for any number of     *)
(* clients, any amount of output and any backlog: its types, and that      *)
(* those who stay get the last output and then FRAME_EXIT.                 *)
(***************************************************************************)
EXTENDS Teardown, CommonLemmas, SequenceTheorems, TLAPS

\* The channel of a client takes frames.
Open(c) == conn[c] = "attached" /\ ~queue[c].closed

\* Where clients are: nothing is queued or due before a client attaches, and an
\* open channel is in the broadcast.
Places ==
    \A c \in Clients :
      /\ conn[c] = "none" => /\ queue[c].frames = <<>> /\ queue[c].bytes = 0
                             /\ c \notin clients \cup untold \cup undrained
      /\ Open(c) => c \in clients
      /\ queue[c].closed => queue[c].frames = <<>>

-----------------------------------------------------------------------------
\* What follows is for a session of which the accept loop was not the first to
\* call `finish`.
ByReader == ender # "loop" /\ ended # "terminated"

\* The reader has called `finish`.
Winding == at["reader"] \in {"tells", "waits", "exits"}

\* Behind the shell, where a caller of `finish` ends the process.
AtExit(p) == at[p] \in {"waits", "exits"}

\* The reader comes to `finish` after the last output, and leaves it when all
\* were told and drained. The accept loop is there second, or not yet: it finds
\* the flag set and goes on to wait for the shell.
InTurn ==
    /\ at["reader"] # "works" => holders = {} /\ read = total
    /\ exiting <=> ender # "none"
    /\ ender = "reader" <=> Winding
    /\ at["loop"] \in {"works", "finishes"} \/ (AtExit("loop") /\ Winding)
    /\ untold \cup undrained # {} => at["reader"] = "tells"
    /\ ended = "finished" => AtExit("reader") \/ AtExit("loop")

\* A client that was sent FRAME_EXIT.
Told(c) == Winding /\ c \notin untold

\* The channel of a client holds output up to what was read, and behind it, once
\* told, FRAME_EXIT; what it does not hold any more was written.
Queued(c) ==
    LET q == queue[c]
    IN  /\ q.bytes <= Len(q.frames)
        /\ \A i \in 1..q.bytes : q.frames[i].kind = "output" /\ q.frames[i].size = 1
        /\ q.bytes = 0 => sent[c].upTo = read
        /\ q.bytes > 0 => q.frames[q.bytes].upTo = read
        /\ ~Told(c) => Len(q.frames) = q.bytes
        /\ Told(c) => \/ /\ Len(q.frames) = q.bytes + 1
                         /\ q.frames[q.bytes + 1] = ExitFrame
                      \/ q.bytes = 0 /\ q.frames = <<>> /\ sent[c].exit

\* `drain` has waited for the output.
Flushed(c) ==
    Winding /\ c \notin untold \cup undrained \cup gaveUp => queue[c].bytes = 0

Words(c) == Open(c) /\ c \notin late => Queued(c) /\ Flushed(c)

WordsInv == ByReader => InTurn /\ \A c \in Clients : Words(c)

EndingInv == TypeOK /\ Places /\ WordsInv

-----------------------------------------------------------------------------
\* Types.

LEMMA Fields ==
    ASSUME TypeOK
    PROVE  /\ queue \in [Clients -> QueuesOf(Frame)]
           /\ \A c \in Clients : queue[c] \in QueuesOf(Frame)
           /\ \A c \in Clients : /\ queue[c].frames \in Seq(Frame)
                                /\ queue[c].bytes \in Nat
                                /\ queue[c].closed \in BOOLEAN
           /\ total \in Nat /\ read \in Nat /\ read <= total /\ total <= MaxOutput
BY TeardownAssumption DEF TypeOK, QueuesOf

LEMMA Frames ==
    /\ \A n \in 0..MaxOutput :
         /\ OutputFrame(n) \in Frame /\ OutputFrame(n) # ExitFrame
         /\ OutputFrame(n).kind = "output"
         /\ OutputFrame(n).size = 1 /\ OutputFrame(n).upTo = n
    /\ ExitFrame \in Frame /\ ExitFrame.size = 0 /\ ExitFrame.kind = "exit"
    /\ \A f \in Frame : f.size \in Nat /\ f.upTo \in 0..MaxOutput
<1>1. \A n \in 0..MaxOutput : /\ OutputFrame(n) \in Frame
                              /\ OutputFrame(n).kind = "output"
                              /\ OutputFrame(n).size = 1 /\ OutputFrame(n).upTo = n
  BY TeardownAssumption DEF OutputFrame, Frame
<1>2. ExitFrame \in Frame /\ ExitFrame.size = 0 /\ ExitFrame.kind = "exit"
  BY TeardownAssumption DEF ExitFrame, Frame
<1>3. \A f \in Frame : f.size \in Nat /\ f.upTo \in 0..MaxOutput
  BY DEF Frame
<1>. QED
  BY <1>1, <1>2, <1>3

\* A channel that is sent a frame closes, or queues it behind the others; one
\* that is closed stays as it is.
LEMMA SentIs ==
    ASSUME NEW q \in QueuesOf(Frame), NEW f \in Frame
    PROVE  /\ Sent(q, f) \in QueuesOf(Frame)
           /\ q.closed => Sent(q, f) = q
           /\ Sent(q, f).closed => q.closed \/ Sent(q, f).frames = <<>>
           /\ ~Sent(q, f).closed =>
                /\ ~q.closed
                /\ Sent(q, f).frames = Append(q.frames, f)
                /\ Sent(q, f).bytes = q.bytes + f.size
<1>1. f.size \in Nat
  BY Frames
<1>2. q.closed \in BOOLEAN
  BY DEF QueuesOf
<1>3. CASE q.closed
  BY <1>3 DEF Sent
<1>4. CASE ~q.closed /\ Fits(q, f)
  BY <1>1, <1>2, <1>4, PushedIs DEF Sent
<1>5. CASE ~q.closed /\ ~Fits(q, f)
  BY <1>1, <1>5, ClosedIs DEF Sent
<1>. QED
  BY <1>3, <1>4, <1>5

LEMMA TypesInit == Init => TypeOK
<1> SUFFICES ASSUME Init
             PROVE  TypeOK
  OBVIOUS
<1>1. queue \in [Clients -> [frames : Seq(Frame), bytes : Nat, closed : BOOLEAN]]
  BY EmptyQueueIs DEF Init, QueuesOf
<1>2. sent \in [Clients -> [upTo : -1..MaxOutput, exit : BOOLEAN]]
  <2>1. NothingSent \in [upTo : -1..MaxOutput, exit : BOOLEAN]
    BY TeardownAssumption DEF NothingSent
  <2>. QED
    BY <2>1 DEF Init
<1>3. holders \subseteq {"shell", "job"} /\ total \in 0..MaxOutput /\ read \in 0..total
  BY TeardownAssumption DEF Init
<1>. QED
  BY <1>1, <1>2, <1>3 DEF Init, TypeOK

\* Steps that leave the queues and what was written alone.
LEMMA TypesNext == TypeOK /\ [Next]_vars => TypeOK'
<1> SUFFICES ASSUME TypeOK, [Next]_vars
             PROVE  TypeOK'
  OBVIOUS
<1> USE TeardownAssumption DEF TypeOK
<1>1. CASE Writes
  BY <1>1 DEF Writes, ptyVars, clientVars, finishVars, askVars
<1>2. CASE ShellExits
  BY <1>2 DEF ShellExits, ptyVars, clientVars, finishVars, askVars
<1>3. ASSUME NEW h \in holders, LetsGo(h)
      PROVE  TypeOK'
  BY <1>3 DEF LetsGo, ptyVars, clientVars, finishVars, askVars
<1>4. CASE Broadcast
  <2>1. OutputFrame(read + 1) \in Frame
    BY <1>4, Fields, Frames DEF Broadcast
  <2>2. queue' \in [Clients -> [frames : Seq(Frame), bytes : Nat, closed : BOOLEAN]]
    BY <1>4, <2>1, Fields, SentIs DEF Broadcast, QueuesOf
  <2>. QED
    BY <1>4, <2>2 DEF Broadcast, ptyVars, finishVars, askVars
<1>5. CASE ReaderStops
  BY <1>5 DEF ReaderStops, ptyVars, clientVars, finishVars, askVars
<1>6. ASSUME NEW c \in Clients, Attaches(c)
      PROVE  TypeOK'
  <2>1. OutputFrame(read) \in Frame
    BY Fields, Frames
  <2>2. queue' \in [Clients -> [frames : Seq(Frame), bytes : Nat, closed : BOOLEAN]]
    BY <1>6, <2>1, Fields, SentIs DEF Attaches, QueuesOf
  <2>. QED
    BY <1>6, <2>2 DEF Attaches, ptyVars, finishVars, askVars
<1>7. ASSUME NEW c \in Clients, LoopEnds(c)
      PROVE  TypeOK'
  <2>1. queue' \in [Clients -> [frames : Seq(Frame), bytes : Nat, closed : BOOLEAN]]
    BY <1>7, ClosedIs DEF LoopEnds, Forget, QueuesOf
  <2>2. sent' \in [Clients -> [upTo : -1..MaxOutput, exit : BOOLEAN]]
    BY <1>7 DEF LoopEnds, Forget, NothingSent
  <2>. QED
    BY <1>7, <2>1, <2>2 DEF LoopEnds, Forget, ptyVars, askVars
<1>8. ASSUME NEW c \in Clients, WriterWrites(c)
      PROVE  TypeOK'
  <2> DEFINE f == Head(queue[c].frames)
  <2>1. Popped(queue[c]) \in QueuesOf(Frame) /\ f \in Frame
    BY <1>8, Fields, PoppedIs DEF WriterWrites
  <2>2. Counted(Popped(queue[c]), f) \in QueuesOf(Frame)
    BY <2>1, Frames, CountedIs
  <2>3. queue' \in [Clients -> [frames : Seq(Frame), bytes : Nat, closed : BOOLEAN]]
    BY <1>8, <2>2 DEF WriterWrites, QueuesOf
  <2>4. sent' \in [Clients -> [upTo : -1..MaxOutput, exit : BOOLEAN]]
    <3> DEFINE v == IF f = ExitFrame THEN [sent[c] EXCEPT !.exit = TRUE]
                                     ELSE [upTo |-> f.upTo, exit |-> FALSE]
    <3>1. v \in [upTo : -1..MaxOutput, exit : BOOLEAN]
      <4>1. sent[c] \in [upTo : -1..MaxOutput, exit : BOOLEAN]
        OBVIOUS
      <4>2. f.upTo \in -1..MaxOutput
        BY <2>1, Frames
      <4>. QED
        BY <4>1, <4>2
    <3>2. sent' = [sent EXCEPT ![c] = v]
      BY <1>8 DEF WriterWrites
    <3> HIDE DEF v
    <3>. QED
      BY <3>1, <3>2
  <2>. QED
    BY <1>8, <2>3, <2>4 DEF WriterWrites, ptyVars, finishVars, askVars
<1>9. ASSUME NEW c \in Clients, WriterFails(c)
      PROVE  TypeOK'
  <2>1. queue' \in [Clients -> [frames : Seq(Frame), bytes : Nat, closed : BOOLEAN]]
    BY <1>9, ClosedIs DEF WriterFails, QueuesOf
  <2>. QED
    BY <1>9, <2>1 DEF WriterFails, ptyVars, finishVars, askVars
<1>10. CASE Kills
  BY <1>10 DEF Kills, KillShell, ptyVars, clientVars, finishVars, askVars
<1>11. CASE SendsSigkill
  BY <1>11 DEF SendsSigkill, ptyVars, clientVars, finishVars, askVars
<1>12. CASE AcceptFails
  BY <1>12 DEF AcceptFails, KillShell, ptyVars, clientVars, finishVars, askVars
<1>13. ASSUME NEW p \in Threads, Finish(p)
      PROVE  TypeOK'
  BY <1>13 DEF Finish, FirstCaller, Threads, ptyVars, clientVars, finishVars, askVars
<1>14. ASSUME NEW p \in Threads, Drained(p)
      PROVE  TypeOK'
  BY <1>14 DEF Drained, ptyVars, clientVars, finishVars, askVars
<1>15. ASSUME NEW p \in Threads, Exits(p)
      PROVE  TypeOK'
  BY <1>15 DEF Exits, ptyVars, clientVars, finishVars, askVars
<1>16. ASSUME NEW p \in Threads, NEW c \in Clients, Tell(p, c)
      PROVE  TypeOK'
  <2>1. queue' \in [Clients -> [frames : Seq(Frame), bytes : Nat, closed : BOOLEAN]]
    BY <1>16, Fields, Frames, SentIs DEF Tell, QueuesOf
  <2>. QED
    BY <1>16, <2>1 DEF Tell, ptyVars, askVars
<1>17. ASSUME NEW p \in Threads, NEW c \in Clients, Drain(p, c)
      PROVE  TypeOK'
  BY <1>17 DEF Drain, ptyVars, clientVars, finishVars, askVars
<1>18. ASSUME NEW p \in Threads, NEW c \in Clients, DrainGivesUp(p, c)
      PROVE  TypeOK'
  BY <1>18 DEF DrainGivesUp, ptyVars, clientVars, finishVars, askVars
<1>19. ASSUME NEW p \in Threads, Sigterm(p)
      PROVE  TypeOK'
  BY <1>19 DEF Sigterm, ptyVars, clientVars, finishVars, askVars
<1>20. CASE SeesTerm
  <2>1. queue' \in [Clients -> [frames : Seq(Frame), bytes : Nat, closed : BOOLEAN]]
    BY <1>20, EmptyQueueIs DEF SeesTerm, QueuesOf
  <2>2. sent' \in [Clients -> [upTo : -1..MaxOutput, exit : BOOLEAN]]
    BY <1>20 DEF SeesTerm, NothingSent
  <2>. QED
    BY <1>20, <2>1, <2>2 DEF SeesTerm, ptyVars, finishVars, askVars
<1>21. CASE SeesExiting
  BY <1>21 DEF SeesExiting, ptyVars, clientVars, finishVars, askVars
<1>22. CASE UNCHANGED vars
  BY <1>22 DEF vars, ptyVars, clientVars, finishVars, askVars
<1>. QED
  BY <1>1, <1>2, <1>3, <1>4, <1>5, <1>6, <1>7, <1>8, <1>9, <1>10, <1>11, 
     <1>12, <1>13, <1>14, <1>15, <1>16, <1>17, <1>18, <1>19, <1>20, <1>21, <1>22
     DEF Next, ReaderNext, WriterNext, FinishNext, PersistNext
-----------------------------------------------------------------------------
\* The words of one client.

\* A client to whom nothing happens, but that its drain may begin or end.
LEMMA WordsKept ==
    ASSUME NEW c \in Clients, Words(c),
           read' = read, queue'[c] = queue[c], sent'[c] = sent[c],
           conn'[c] = conn[c], c \in late => c \in late',
           Told(c)' <=> Told(c),
           Flushed(c) => Flushed(c)'
    PROVE  Words(c)'
<1>1. Open(c)' <=> Open(c)
  BY DEF Open
<1>2. Queued(c) => Queued(c)'
  BY DEF Queued
<1>. QED
  BY <1>1, <1>2 DEF Words

LEMMA NoWords ==
    ASSUME NEW c \in Clients, ~Open(c)' \/ c \in late'
    PROVE  Words(c)'
BY DEF Words

\* A chunk of output is queued, before FRAME_EXIT is.
LEMMA OutputIsQueued ==
    ASSUME TypeOK, NEW c \in Clients, Open(c)', read' \in 0..MaxOutput,
           queue'[c] = Sent(queue[c], OutputFrame(read')),
           Len(queue[c].frames) = queue[c].bytes,
           \A i \in 1..queue[c].bytes : /\ queue[c].frames[i].kind = "output"
                                       /\ queue[c].frames[i].size = 1,
           ~Told(c)'
    PROVE  Queued(c)'
<1> DEFINE f == OutputFrame(read')
           q == queue[c]
           r == queue'[c]
<1>1. /\ q \in QueuesOf(Frame) /\ q.frames \in Seq(Frame) /\ q.bytes \in Nat
      /\ f \in Frame /\ f.size = 1 /\ f.kind = "output" /\ f.upTo = read'
  BY Fields, Frames
<1>2. ~r.closed
  BY DEF Open
<1>3. /\ r.frames = Append(q.frames, f)
      /\ r.bytes = q.bytes + 1
  BY <1>1, <1>2, SentIs
<1>4. /\ Len(r.frames) = q.bytes + 1
      /\ \A i \in 1..q.bytes : r.frames[i] = q.frames[i]
      /\ r.frames[q.bytes + 1] = f
  BY <1>1, <1>3, AppendProperties
<1>5. \A i \in 1..r.bytes : r.frames[i].kind = "output" /\ r.frames[i].size = 1
  <2> SUFFICES ASSUME NEW i \in 1..r.bytes
               PROVE  r.frames[i].kind = "output" /\ r.frames[i].size = 1
    OBVIOUS
  <2>1. CASE i \in 1..q.bytes
    BY <1>4, <2>1
  <2>2. CASE i = q.bytes + 1
    BY <1>1, <1>4, <2>2
  <2>. QED
    BY <1>1, <1>3, <2>1, <2>2
<1>. QED
  BY <1>1, <1>3, <1>4, <1>5 DEF Queued

\* FRAME_EXIT is queued, behind all output.
LEMMA ExitIsQueued ==
    ASSUME TypeOK, NEW c \in Clients, Open(c)', Queued(c), ~Told(c), Told(c)',
           queue'[c] = Sent(queue[c], ExitFrame),
           read' = read, sent'[c] = sent[c]
    PROVE  Queued(c)'
<1> DEFINE q == queue[c]
           r == queue'[c]
<1>1. /\ q \in QueuesOf(Frame) /\ q.frames \in Seq(Frame) /\ q.bytes \in Nat
      /\ ExitFrame \in Frame /\ ExitFrame.size = 0
  BY Fields, Frames
<1>2. ~r.closed
  BY DEF Open
<1>3. r.frames = Append(q.frames, ExitFrame) /\ r.bytes = q.bytes
  <2>1. /\ r.frames = Append(q.frames, ExitFrame)
        /\ r.bytes = q.bytes + ExitFrame.size
    BY <1>1, <1>2, SentIs
  <2> HIDE DEF q, r
  <2>. QED
    BY <1>1, <2>1
<1>4. Len(q.frames) = q.bytes
  BY DEF Queued
<1>5. /\ Len(r.frames) = q.bytes + 1
      /\ \A i \in 1..q.bytes : r.frames[i] = q.frames[i]
      /\ r.frames[q.bytes + 1] = ExitFrame
  BY <1>1, <1>3, <1>4, AppendProperties
<1>. QED
  BY <1>1, <1>3, <1>5 DEF Queued

\* The frame at the front is written: output counts, FRAME_EXIT does not.
LEMMA FrameIsWritten ==
    ASSUME TypeOK, NEW c \in Clients, WriterWrites(c), Queued(c),
           Told(c)' <=> Told(c)
    PROVE  Queued(c)' /\ queue'[c].bytes <= queue[c].bytes
<1> DEFINE q == queue[c]
           r == queue'[c]
           f == Head(q.frames)
<1>1. /\ q \in QueuesOf(Frame) /\ q.frames \in Seq(Frame) /\ q.bytes \in Nat
      /\ q.frames # <<>>
  BY Fields DEF WriterWrites
<1>2. /\ Popped(q) \in QueuesOf(Frame)
      /\ Popped(q).frames = Tail(q.frames) /\ Popped(q).bytes = q.bytes
      /\ f \in Frame /\ f = q.frames[1]
      /\ Len(q.frames) > 0 /\ Len(Tail(q.frames)) = Len(q.frames) - 1
      /\ \A i \in 1..(Len(q.frames) - 1) : Tail(q.frames)[i] = q.frames[i + 1]
  BY <1>1, PoppedIs
<1>3. r = Counted(Popped(q), f) /\ read' = read
  BY Fields DEF WriterWrites, TypeOK
<1>4. /\ r.frames = Tail(q.frames)
      /\ r.bytes = IF q.bytes >= f.size THEN q.bytes - f.size ELSE 0
  BY <1>2, <1>3, Frames, CountedIs
<1>5. sent'[c] = IF f = ExitFrame THEN [sent[c] EXCEPT !.exit = TRUE]
                                  ELSE [upTo |-> f.upTo, exit |-> FALSE]
  BY DEF WriterWrites, TypeOK
<1>6. Len(q.frames) \in Nat /\ Len(r.frames) = Len(q.frames) - 1
  BY <1>1, <1>2, <1>4
<1>7. CASE q.bytes > 0
  <2>1. f.kind = "output" /\ f.size = 1
    BY <1>1, <1>2, <1>7 DEF Queued
  <2>2. f # ExitFrame /\ sent'[c].upTo = f.upTo
    BY <1>5, <2>1, Frames
  <2>3. r.bytes = q.bytes - 1 /\ r.bytes \in Nat
    BY <1>1, <1>4, <1>7, <2>1
  <2>4. \A i \in 1..Len(r.frames) : r.frames[i] = q.frames[i + 1]
    BY <1>2, <1>4, <1>6
  <2>5. q.bytes <= Len(q.frames) /\ q.frames[q.bytes].upTo = read
    BY <1>7 DEF Queued
  <2>6. r.bytes = 0 => sent'[c].upTo = read
    BY <1>1, <1>2, <2>2, <2>3, <2>5
  <2>7. r.bytes > 0 => r.frames[r.bytes].upTo = read
    <3> SUFFICES ASSUME r.bytes > 0
                 PROVE  r.frames[r.bytes].upTo = read
      OBVIOUS
    <3>1. r.bytes \in 1..Len(r.frames) /\ r.bytes + 1 = q.bytes
      BY <1>1, <1>6, <2>3, <2>5
    <3>. QED
      BY <2>4, <2>5, <3>1
  <2>8. \A i \in 1..r.bytes : r.frames[i].kind = "output" /\ r.frames[i].size = 1
    <3> SUFFICES ASSUME NEW i \in 1..r.bytes
                 PROVE  r.frames[i].kind = "output" /\ r.frames[i].size = 1
      OBVIOUS
    <3>1. i \in 1..Len(r.frames) /\ i + 1 \in 1..q.bytes
      BY <1>1, <1>6, <2>3, <2>5
    <3>. QED
      BY <2>4, <3>1 DEF Queued
  <2>9. ~Told(c)' => Len(r.frames) = r.bytes
    BY <1>1, <1>6, <2>3 DEF Queued
  <2>10. Told(c)' => /\ Len(r.frames) = r.bytes + 1
                     /\ r.frames[r.bytes + 1] = ExitFrame
    <3> SUFFICES ASSUME Told(c)
                 PROVE  /\ Len(r.frames) = r.bytes + 1
                        /\ r.frames[r.bytes + 1] = ExitFrame
      OBVIOUS
    <3>1. Len(q.frames) = q.bytes + 1 /\ q.frames[q.bytes + 1] = ExitFrame
      BY <1>7 DEF Queued
    <3>2. r.bytes + 1 \in 1..Len(r.frames) /\ r.bytes + 1 + 1 = q.bytes + 1
      <4> HIDE DEF q, r
      <4>. QED
        BY <1>1, <1>6, <2>3, <3>1
    <3>. QED
      BY <1>6, <2>3, <2>4, <3>1, <3>2, SMTT(30)
  <2>11. r.bytes <= Len(r.frames) /\ r.bytes <= q.bytes
    BY <1>1, <1>6, <2>3, <2>5
  <2>. QED
    BY <1>3, <2>6, <2>7, <2>8, <2>9, <2>10, <2>11 DEF Queued
<1>8. CASE q.bytes = 0
  <2>1. /\ Told(c)
        /\ Len(q.frames) = 1 /\ q.frames[1] = ExitFrame
    BY <1>1, <1>2, <1>8 DEF Queued
  <2>2. f = ExitFrame /\ f.size = 0
    BY <1>2, <2>1, Frames
  <2>3. r.bytes = 0 /\ r.frames = <<>>
    <3>1. r.frames \in Seq(Frame)
      BY <1>2, <1>4 DEF QueuesOf
    <3>2. Len(r.frames) = 0 /\ r.bytes = 0
      <4> HIDE DEF q, r
      <4>. QED
        BY <1>4, <1>6, <1>8, <2>1, <2>2
    <3>. QED
      BY <3>1, <3>2, EmptySeq
  <2>4. sent'[c].upTo = sent[c].upTo /\ sent'[c].exit
    <3>1. sent[c] \in [upTo : -1..MaxOutput, exit : BOOLEAN]
      BY DEF TypeOK
    <3>. QED
      BY <1>5, <2>2, <3>1
  <2>5. sent[c].upTo = read
    BY <1>8 DEF Queued
  <2>6. Told(c)' /\ read' = read
    BY <1>3, <2>1
  <2>7. Len(r.frames) = 0
    BY <2>3
  <2>. QED
    BY <1>8, <2>3, <2>4, <2>5, <2>6, <2>7 DEF Queued
<1>. QED
  BY <1>1, <1>7, <1>8
-----------------------------------------------------------------------------
\* The steps.

LEMMA EndingInit == Init => EndingInv
<1> SUFFICES ASSUME Init
             PROVE  EndingInv
  OBVIOUS
<1>1. Places
  BY EmptyQueueIs DEF Init, Places, Open
<1>2. InTurn
  <2>1. at["reader"] = "works" /\ at["loop"] = "works"
    BY DEF Init, Threads
  <2>2. ender = "none" /\ ended = "no" /\ exiting = FALSE
    BY DEF Init
  <2>3. untold = {} /\ undrained = {} /\ read = total
    BY DEF Init
  <2>. QED
    BY <2>1, <2>2, <2>3 DEF InTurn, Winding, AtExit
<1>3. \A c \in Clients : Words(c)
  BY DEF Init, Words, Open
<1>. QED
  BY <1>1, <1>2, <1>3, TypesInit DEF EndingInv, WordsInv

\* A step that leaves the clients and their channels alone, and whose `finish`
\* only goes on as far as the drain of each client has.
LEMMA QuietStep ==
    ASSUME EndingInv, TypeOK', UNCHANGED <<clientVars, read, untold>>,
           undrained' \subseteq undrained,
           ByReader' => /\ ByReader /\ InTurn'
                        /\ Winding' = Winding,
           \A c \in Clients : c \in undrained \cup gaveUp =>
             \/ c \in undrained' \cup gaveUp'
             \/ queue[c].closed \/ queue[c].bytes = 0
    PROVE  EndingInv'
<1>1. Places'
  BY DEF EndingInv, Places, Open, clientVars
<1>2. ASSUME ByReader', NEW c \in Clients
      PROVE  Words(c)'
  <2>1. Words(c) /\ Winding' = Winding
    BY <1>2 DEF EndingInv, WordsInv
  <2>2. Told(c)' <=> Told(c)
    BY <2>1 DEF Told
  <2>3. CASE Open(c) /\ c \notin late
    <3>1. Flushed(c)'
      BY <2>1, <2>3 DEF Words, Flushed, Open, clientVars
    <3>. QED
      BY <2>1, <2>2, <3>1, WordsKept DEF clientVars
  <2>4. CASE ~Open(c) \/ c \in late
    BY <2>4, NoWords DEF Open, clientVars
  <2>. QED
    BY <2>3, <2>4
<1>. QED
  BY <1>1, <1>2 DEF EndingInv, WordsInv

\* A client who is not open any more, or not in the session's end; nothing else
\* changes but its own state.
LEMMA Apart ==
    ASSUME EndingInv, TypeOK', Places', NEW k \in Clients,
           Words(k)' \/ ~ByReader',
           UNCHANGED <<ptyVars, read, at, exiting, ender, ended>>,
           untold' \subseteq untold, untold \subseteq untold' \cup {k},
           undrained \subseteq undrained', undrained' \subseteq undrained \cup untold,
           gaveUp \subseteq gaveUp' \cup {k},
           late \subseteq late' \cup {k},
           \A c \in Clients \ {k} : /\ queue'[c] = queue[c]
                                    /\ sent'[c] = sent[c]
                                    /\ conn'[c] = conn[c]
    PROVE  EndingInv'
<1>1. ASSUME ByReader'
      PROVE  InTurn'
  BY <1>1 DEF EndingInv, WordsInv, ByReader, InTurn, Winding, AtExit, ptyVars
<1>2. ASSUME ByReader', NEW c \in Clients \ {k}
      PROVE  Words(c)'
  <2>1. Words(c) /\ Winding' = Winding
    BY <1>2 DEF EndingInv, WordsInv, ByReader, Winding
  <2>2. Told(c)' <=> Told(c)
    BY <2>1 DEF Told
  <2>3. Flushed(c) => Flushed(c)'
    BY <2>1 DEF Flushed
  <2>. QED
    BY <2>1, <2>2, <2>3, WordsKept
<1>. QED
  BY <1>1, <1>2 DEF EndingInv, WordsInv

LEMMA BroadcastKeeps ==
    ASSUME EndingInv, TypeOK', Broadcast, ended = "no"
    PROVE  EndingInv'
<1>1. /\ at["reader"] = "works" /\ read < total /\ read' = read + 1
      /\ \A c \in Clients : queue'[c] = IF c \in clients
                                       THEN Sent(queue[c], OutputFrame(read'))
                                       ELSE queue[c]
      /\ clients' = {c \in clients : ~queue'[c].closed}
      /\ UNCHANGED <<ptyVars, at, conn, sent, late, finishVars, askVars, ended>>
  BY DEF Broadcast
<1>2. read' \in 0..MaxOutput /\ OutputFrame(read') \in Frame
  <2>1. read' \in 0..MaxOutput
    BY <1>1, Fields, TeardownAssumption DEF EndingInv
  <2>. QED
    BY <2>1, Frames
<1>3. \A c \in Clients : ~queue'[c].closed => ~queue[c].closed
  BY <1>1, <1>2, Fields, SentIs DEF EndingInv
<1>4. Places'
  <2> SUFFICES ASSUME NEW c \in Clients
               PROVE  /\ conn[c] = "none" =>
                           /\ queue'[c].frames = <<>> /\ queue'[c].bytes = 0
                           /\ c \notin clients' \cup untold \cup undrained
                      /\ Open(c)' => c \in clients'
                      /\ queue'[c].closed => queue'[c].frames = <<>>
    BY <1>1 DEF Places, finishVars
  <2>1. /\ conn[c] = "none" => /\ queue[c].frames = <<>> /\ queue[c].bytes = 0
                               /\ c \notin clients \cup untold \cup undrained
        /\ Open(c) => c \in clients
        /\ queue[c].closed => queue[c].frames = <<>>
    BY DEF EndingInv, Places
  <2>2. Open(c)' => Open(c)
    BY <1>1, <1>3 DEF Open
  <2>3. queue'[c].closed => queue'[c].frames = <<>>
    BY <1>1, <1>2, <2>1, Fields, SentIs DEF EndingInv
  <2>. QED
    BY <1>1, <2>1, <2>2, <2>3 DEF Open
<1>5. ASSUME ByReader'
      PROVE  InTurn' /\ ~Winding'
  BY <1>1, <1>5 DEF EndingInv, WordsInv, ByReader, InTurn, Winding, AtExit, ptyVars, finishVars
<1>6. ASSUME ByReader', NEW c \in Clients, Open(c)', c \notin late'
      PROVE  Queued(c)' /\ Flushed(c)'
  <2>1. /\ Open(c) /\ c \in clients /\ c \notin late /\ ~Told(c) /\ ByReader
    BY <1>1, <1>3, <1>6 DEF Open, EndingInv, Places, Told, Winding, ByReader,
                            finishVars
  <2>2. Queued(c)
    BY <2>1 DEF EndingInv, WordsInv, Words
  <2>3. ~Told(c)'
    BY <1>5, <1>6 DEF Told
  <2>4. /\ Len(queue[c].frames) = queue[c].bytes
        /\ \A i \in 1..queue[c].bytes : /\ queue[c].frames[i].kind = "output"
                                       /\ queue[c].frames[i].size = 1
    BY <2>1, <2>2 DEF Queued
  <2>5. Queued(c)'
    BY <1>1, <1>2, <1>6, <2>1, <2>3, <2>4, OutputIsQueued DEF EndingInv
  <2>. QED
    BY <1>5, <1>6, <2>5 DEF Flushed
<1>. QED
  BY <1>4, <1>5, <1>6 DEF EndingInv, WordsInv, Words

LEMMA AttachKeeps ==
    ASSUME EndingInv, TypeOK', NEW k \in Clients, Attaches(k), ended = "no"
    PROVE  EndingInv'
<1>1. /\ conn[k] = "none"
      /\ conn'[k] = "attached"
      /\ queue'[k] = Sent(queue[k], OutputFrame(read))
      /\ \A c \in Clients \ {k} : queue'[c] = queue[c] /\ conn'[c] = conn[c]
      /\ clients' = clients \cup {k}
      /\ late' = IF \E p \in Threads : at[p] \notin {"works", "finishes"}
                 THEN late \cup {k} ELSE late
      /\ UNCHANGED <<ptyVars, read, at, sent, finishVars, askVars, ended>>
  BY DEF Attaches, EndingInv, TypeOK
<1>2. /\ queue[k].frames = <<>> /\ queue[k].bytes = 0
      /\ k \notin untold \cup undrained
  BY <1>1 DEF EndingInv, Places
<1>3. read' = read /\ read' \in 0..MaxOutput /\ OutputFrame(read) \in Frame
  <2>1. read' = read /\ read' \in 0..MaxOutput
    BY <1>1, Fields, TeardownAssumption DEF EndingInv
  <2>. QED
    BY <2>1, Frames
<1>4. queue'[k].closed => queue'[k].frames = <<>>
  BY <1>1, <1>2, <1>3, Fields, SentIs DEF EndingInv, Places
<1>5. Places'
  <2> SUFFICES ASSUME NEW c \in Clients
               PROVE  /\ conn'[c] = "none" =>
                           /\ queue'[c].frames = <<>> /\ queue'[c].bytes = 0
                           /\ c \notin clients' \cup untold \cup undrained
                      /\ Open(c)' => c \in clients'
                      /\ queue'[c].closed => queue'[c].frames = <<>>
    BY <1>1 DEF Places, finishVars
  <2>1. CASE c = k
    BY <1>1, <1>4, <2>1
  <2>2. CASE c # k
    BY <1>1, <2>2 DEF EndingInv, Places, Open
  <2>. QED
    BY <2>1, <2>2
<1>6. ASSUME ByReader'
      PROVE  Words(k)'
  <2>1. CASE ~Open(k)' \/ k \in late'
    BY <2>1, NoWords
  <2>2. CASE Open(k)' /\ k \notin late'
    <3>1. ~Winding'
      BY <1>1, <2>2 DEF Winding, Threads
    <3>2. ~Told(k)'
      BY <3>1 DEF Told
    <3>3. /\ Len(queue[k].frames) = queue[k].bytes
          /\ \A i \in 1..queue[k].bytes : /\ queue[k].frames[i].kind = "output"
                                         /\ queue[k].frames[i].size = 1
      BY <1>2, EmptySeq
    <3>4. Queued(k)'
      BY <1>1, <1>3, <2>2, <3>2, <3>3, OutputIsQueued DEF EndingInv
    <3>. QED
      BY <3>1, <3>4 DEF Words, Flushed
  <2>. QED
    BY <2>1, <2>2
<1>. QED
  BY <1>1, <1>5, <1>6, Apart DEF finishVars

LEMMA LoopEndKeeps ==
    ASSUME EndingInv, TypeOK', NEW k \in Clients, LoopEnds(k), ended = "no"
    PROVE  EndingInv'
<1>1. /\ conn[k] = "attached" /\ conn'[k] = "gone"
      /\ queue'[k] = Closed(queue[k])
      /\ \A c \in Clients \ {k} : /\ queue'[c] = queue[c] /\ conn'[c] = conn[c]
                                  /\ sent'[c] = sent[c]
      /\ clients' = clients \ {k}
      /\ late' = late \ {k} /\ gaveUp' = gaveUp \ {k}
      /\ UNCHANGED <<ptyVars, read, at, exiting, ender, untold, undrained, ended>>
  BY DEF LoopEnds, Forget, EndingInv, TypeOK
<1>2. queue'[k].frames = <<>>
  BY <1>1, ClosedIs
<1>3. Places'
  BY <1>1, <1>2 DEF EndingInv, Places, Open
<1>4. Words(k)'
  BY <1>1, NoWords DEF Open
<1>. QED
  BY <1>1, <1>3, <1>4, Apart

LEMMA WriteKeeps ==
    ASSUME EndingInv, TypeOK', NEW k \in Clients, WriterWrites(k), ended = "no"
    PROVE  EndingInv'
<1>1. /\ queue[k].frames # <<>>
      /\ queue'[k] = Counted(Popped(queue[k]), Head(queue[k].frames))
      /\ \A c \in Clients \ {k} : queue'[c] = queue[c] /\ sent'[c] = sent[c]
      /\ UNCHANGED <<ptyVars, read, at, conn, clients, late, finishVars, ended>>
  BY DEF WriterWrites, EndingInv, TypeOK
<1>2. ~queue[k].closed /\ conn[k] # "none"
  BY <1>1 DEF EndingInv, Places
<1>3. queue'[k].closed = queue[k].closed
  <2>1. /\ Popped(queue[k]) \in QueuesOf(Frame)
        /\ Popped(queue[k]).closed = queue[k].closed
        /\ Head(queue[k].frames) \in Frame
    BY <1>1, Fields, PoppedIs DEF EndingInv
  <2>. QED
    BY <1>1, <2>1, Frames, CountedIs
<1>4. Places'
  BY <1>1, <1>2, <1>3 DEF EndingInv, Places, Open, finishVars
<1>5. ASSUME ByReader'
      PROVE  Words(k)'
  <2>1. CASE ~Open(k) \/ k \in late
    BY <1>1, <1>3, <2>1, NoWords DEF Open
  <2>2. CASE Open(k) /\ k \notin late
    <3>1. Queued(k) /\ Flushed(k)
      BY <1>1, <1>5, <2>2 DEF EndingInv, WordsInv, Words, ByReader, finishVars
    <3>2. Told(k)' <=> Told(k)
      BY <1>1 DEF Told, Winding, finishVars
    <3>3. Queued(k)' /\ queue'[k].bytes <= queue[k].bytes
      BY <3>1, <3>2, FrameIsWritten DEF EndingInv
    <3>4. queue'[k].bytes \in Nat /\ queue[k].bytes \in Nat
      BY DEF EndingInv, TypeOK
    <3>5. Flushed(k)'
      BY <1>1, <3>1, <3>3, <3>4 DEF Flushed, Winding, finishVars
    <3>. QED
      BY <3>3, <3>5 DEF Words
  <2>. QED
    BY <2>1, <2>2
<1>. QED
  BY <1>1, <1>4, <1>5, Apart DEF finishVars

LEMMA FailKeeps ==
    ASSUME EndingInv, TypeOK', NEW k \in Clients, WriterFails(k), ended = "no"
    PROVE  EndingInv'
<1>1. /\ queue[k].frames # <<>>
      /\ queue'[k] = Closed(queue[k])
      /\ \A c \in Clients \ {k} : queue'[c] = queue[c]
      /\ UNCHANGED <<ptyVars, read, at, conn, clients, sent, late, finishVars, ended>>
  BY DEF WriterFails, EndingInv, TypeOK
<1>2. queue'[k].frames = <<>> /\ queue'[k].bytes = 0 /\ queue'[k].closed
  BY <1>1, ClosedIs
<1>3. Places'
  BY <1>1, <1>2 DEF EndingInv, Places, Open, finishVars
<1>4. Words(k)'
  BY <1>2, NoWords DEF Open
<1>. QED
  BY <1>1, <1>3, <1>4, Apart DEF finishVars

LEMMA TellKeeps ==
    ASSUME EndingInv, TypeOK', NEW p \in Threads, NEW k \in Clients, Tell(p, k),
           ended = "no"
    PROVE  EndingInv'
<1>1. /\ at[p] = "tells" /\ k \in untold
      /\ queue'[k] = Sent(queue[k], ExitFrame)
      /\ \A c \in Clients \ {k} : queue'[c] = queue[c]
      /\ untold' = untold \ {k} /\ undrained' = undrained \cup {k}
      /\ UNCHANGED <<ptyVars, read, at, conn, clients, sent, late, exiting, ender,
                     gaveUp, ended>>
  BY DEF Tell, EndingInv, TypeOK
<1>2. /\ queue'[k].closed => queue'[k].frames = <<>>
      /\ ~queue'[k].closed => ~queue[k].closed
  BY <1>1, Fields, Frames, SentIs DEF EndingInv, Places
<1>3. conn[k] # "none"
  BY <1>1 DEF EndingInv, Places
<1>4. Places'
  BY <1>1, <1>2, <1>3 DEF EndingInv, Places, Open
<1>5. ASSUME ByReader'
      PROVE  Words(k)'
  <2>1. CASE ~Open(k)' \/ k \in late
    BY <1>1, <2>1, NoWords
  <2>2. CASE Open(k)' /\ k \notin late
    <3>1. ByReader /\ Open(k)
      BY <1>1, <1>2, <1>5, <2>2 DEF ByReader, Open
    <3>2. Queued(k)
      BY <2>2, <3>1 DEF EndingInv, WordsInv, Words
    <3>3. p = "reader"
      BY <1>1, <3>1 DEF EndingInv, WordsInv, InTurn, AtExit, Threads
    <3>4. ~Told(k) /\ Told(k)'
      BY <1>1, <3>3 DEF Told, Winding
    <3>5. Queued(k)'
      BY <1>1, <2>2, <3>2, <3>4, ExitIsQueued DEF EndingInv
    <3>6. Flushed(k)'
      BY <1>1 DEF Flushed
    <3>. QED
      BY <3>5, <3>6 DEF Words
  <2>. QED
    BY <2>1, <2>2
<1>. QED
  BY <1>1, <1>4, <1>5, Apart

\* The accept loop calls `finish` second: it only goes on to wait.
LEMMA SecondFinishKeeps ==
    ASSUME EndingInv, TypeOK', Finish("loop"), exiting, ended = "no"
    PROVE  EndingInv'
<1>1. /\ at["loop"] = "finishes" /\ exiting' /\ untold' = untold
      /\ at' = [at EXCEPT !["loop"] = "waits"]
      /\ ender' = FirstCaller("loop")
      /\ UNCHANGED <<ptyVars, read, clientVars, undrained, gaveUp, ended>>
  BY DEF Finish
<1>2. /\ at'["reader"] = at["reader"] /\ at'["loop"] = "waits"
      /\ Winding' = Winding
  BY <1>1 DEF Winding, Threads, EndingInv, TypeOK
<1>3. ASSUME ByReader'
      PROVE  ByReader /\ InTurn'
  <2>1. ender # "none" /\ ender' = ender /\ ByReader
    <3>1. ender # "loop" => ender # "none"
      BY DEF EndingInv, WordsInv, ByReader, InTurn
    <3>2. ender # "loop"
      BY <1>1, <1>3 DEF ByReader, FirstCaller
    <3>. QED
      BY <1>1, <1>3, <3>1, <3>2 DEF ByReader, FirstCaller
  <2>2. InTurn /\ Winding
    BY <2>1 DEF EndingInv, WordsInv, InTurn, ByReader, TypeOK, Threads
  <2>. QED
    BY <1>1, <1>2, <2>1, <2>2 DEF InTurn, AtExit, ptyVars
<1>. QED
  BY <1>1, <1>2, <1>3, QuietStep

\* The reader calls `finish`: first, unless the accept loop was there.
LEMMA FinishKeeps ==
    ASSUME EndingInv, TypeOK', NEW p \in Threads, Finish(p), ended = "no"
    PROVE  EndingInv'
<1>1. /\ at[p] = "finishes" /\ exiting' /\ ender' = FirstCaller(p)
      /\ at' = [at EXCEPT ![p] = IF exiting THEN "waits" ELSE "tells"]
      /\ untold' = IF exiting THEN untold ELSE clients
      /\ UNCHANGED <<ptyVars, read, conn, clients, queue, sent, late, undrained,
                     gaveUp, ended>>
  BY DEF Finish, clientVars
<1>2. Places'
  BY <1>1 DEF EndingInv, Places, Open
<1>3. CASE p = "loop" /\ exiting
  BY <1>3, SecondFinishKeeps
<1>4. CASE p = "reader" \/ ~exiting
  <2>1. ASSUME ByReader'
        PROVE  /\ ByReader /\ p = "reader" /\ ~exiting /\ ender' = "reader"
               /\ at'["reader"] = "tells" /\ untold' = clients
               /\ at'["loop"] = at["loop"]
    <3>1. ByReader
      BY <1>1, <2>1 DEF ByReader, FirstCaller
    <3>2. InTurn
      BY <3>1 DEF EndingInv, WordsInv
    <3>3. ~exiting
      BY <1>1, <1>4, <3>1, <3>2 DEF InTurn, Winding, ByReader, EndingInv, TypeOK,
                                    Threads
    <3>4. ender = "none"
      BY <3>2, <3>3 DEF InTurn, EndingInv, TypeOK
    <3>5. p = "reader" /\ ender' = "reader"
      BY <1>1, <2>1, <3>4 DEF FirstCaller, ByReader, Threads
    <3>. QED
      BY <1>1, <3>1, <3>3, <3>5 DEF EndingInv, TypeOK, Threads
  <2>2. ASSUME ByReader'
        PROVE  InTurn'
    <3>1. InTurn /\ at["reader"] = "finishes"
      BY <1>1, <2>1, <2>2 DEF EndingInv, WordsInv
    <3>. QED
      BY <1>1, <2>1, <2>2, <3>1 DEF InTurn, Winding, AtExit, ptyVars
  <2>3. ASSUME ByReader', NEW c \in Clients, Open(c)', c \notin late'
        PROVE  Queued(c)' /\ Flushed(c)'
    <3>1. Open(c) /\ c \notin late /\ c \in clients
      BY <1>1, <2>3 DEF Open, EndingInv, Places
    <3>2. Queued(c) /\ ~Told(c) /\ ~Told(c)' /\ c \in untold'
      BY <1>1, <2>1, <2>3, <3>1 DEF EndingInv, WordsInv, Words, Told, Winding
    <3>. QED
      BY <1>1, <3>2 DEF Queued, Flushed
  <2>. QED
    BY <1>2, <2>2, <2>3 DEF EndingInv, WordsInv, Words
<1>. QED
  BY <1>3, <1>4 DEF Threads

LEMMA TermKeeps ==
    ASSUME EndingInv, TypeOK', SeesTerm
    PROVE  EndingInv'
<1>1. Places'
  BY EmptyQueueIs DEF SeesTerm, Places, Open
<1>. QED
  BY <1>1 DEF SeesTerm, EndingInv, WordsInv, ByReader

LEMMA EndingNext == EndingInv /\ [Next]_vars => EndingInv'
<1> SUFFICES ASSUME EndingInv, [Next]_vars
             PROVE  EndingInv'
  OBVIOUS
<1> USE DEF ByReader, InTurn, Winding, AtExit
<1>0. TypeOK'
  BY TypesNext DEF EndingInv
<1>1. CASE Writes /\ ended = "no"
  <2>1. ByReader' => ByReader /\ InTurn' /\ Winding' = Winding
    BY <1>1 DEF Writes, EndingInv, TypeOK, WordsInv, ptyVars, finishVars
  <2>. QED
    BY <1>0, <1>1, <2>1, QuietStep DEF Writes, clientVars, finishVars
<1>2. CASE ShellExits /\ ended = "no"
  <2>1. ByReader' => ByReader /\ InTurn' /\ Winding' = Winding
    BY <1>2 DEF ShellExits, EndingInv, TypeOK, WordsInv, ptyVars, finishVars
  <2>. QED
    BY <1>0, <1>2, <2>1, QuietStep DEF ShellExits, clientVars, finishVars
<1>3. ASSUME NEW h \in holders, LetsGo(h), ended = "no"
      PROVE  EndingInv'
  <2>1. ByReader' => ByReader /\ InTurn' /\ Winding' = Winding
    BY <1>3 DEF LetsGo, EndingInv, TypeOK, WordsInv, ptyVars, finishVars
  <2>. QED
    BY <1>0, <1>3, <2>1, QuietStep DEF LetsGo, clientVars, finishVars
<1>4. CASE Broadcast /\ ended = "no"
  BY <1>0, <1>4, BroadcastKeeps
<1>5. CASE ReaderStops /\ ended = "no"
  <2>1. ByReader' => ByReader /\ InTurn' /\ Winding' = Winding
    BY <1>5 DEF ReaderStops, EndingInv, TypeOK, WordsInv, ptyVars, finishVars
  <2>. QED
    BY <1>0, <1>5, <2>1, QuietStep DEF ReaderStops, clientVars, finishVars
<1>6. ASSUME NEW c \in Clients, Attaches(c), ended = "no"
      PROVE  EndingInv'
  BY <1>0, <1>6, AttachKeeps
<1>7. ASSUME NEW c \in Clients, LoopEnds(c), ended = "no"
      PROVE  EndingInv'
  BY <1>0, <1>7, LoopEndKeeps
<1>8. ASSUME NEW c \in Clients, WriterWrites(c), ended = "no"
      PROVE  EndingInv'
  BY <1>0, <1>8, WriteKeeps
<1>9. ASSUME NEW c \in Clients, WriterFails(c), ended = "no"
      PROVE  EndingInv'
  BY <1>0, <1>9, FailKeeps
<1>10. CASE Kills /\ ended = "no"
  <2>1. ByReader' => ByReader /\ InTurn' /\ Winding' = Winding
    BY <1>10 DEF Kills, KillShell, EndingInv, TypeOK, WordsInv, ptyVars, finishVars
  <2>. QED
    BY <1>0, <1>10, <2>1, QuietStep DEF Kills, clientVars, finishVars
<1>11. CASE SendsSigkill /\ ended = "no"
  <2>1. ByReader' => ByReader /\ InTurn' /\ Winding' = Winding
    BY <1>11 DEF SendsSigkill, EndingInv, TypeOK, WordsInv, ptyVars, finishVars
  <2>. QED
    BY <1>0, <1>11, <2>1, QuietStep DEF SendsSigkill, clientVars, finishVars
<1>12. CASE AcceptFails /\ ended = "no"
  <2>1. ByReader' => ByReader /\ InTurn' /\ Winding' = Winding
    BY <1>12 DEF AcceptFails, KillShell, EndingInv, TypeOK, WordsInv, ptyVars, finishVars
  <2>. QED
    BY <1>0, <1>12, <2>1, QuietStep DEF AcceptFails, clientVars, finishVars
<1>13. ASSUME NEW p \in Threads, Finish(p), ended = "no"
      PROVE  EndingInv'
  BY <1>0, <1>13, FinishKeeps
<1>14. ASSUME NEW p \in Threads, Drained(p), ended = "no"
      PROVE  EndingInv'
  <2>1. ByReader' => ByReader /\ InTurn' /\ Winding' = Winding
    BY <1>14 DEF Drained, Threads, EndingInv, TypeOK, WordsInv, ptyVars, finishVars
  <2>. QED
    BY <1>0, <1>14, <2>1, QuietStep DEF Drained, clientVars, finishVars
<1>15. ASSUME NEW p \in Threads, Exits(p), ended = "no"
      PROVE  EndingInv'
  <2>1. ByReader' => ByReader /\ InTurn' /\ Winding' = Winding
    BY <1>15 DEF Exits, Threads, EndingInv, TypeOK, WordsInv, ptyVars, finishVars
  <2>. QED
    BY <1>0, <1>15, <2>1, QuietStep DEF Exits, clientVars, finishVars
<1>16. ASSUME NEW p \in Threads, NEW c \in Clients, Tell(p, c), ended = "no"
      PROVE  EndingInv'
  BY <1>0, <1>16, TellKeeps
<1>17. ASSUME NEW p \in Threads, NEW c \in Clients, Drain(p, c), ended = "no"
      PROVE  EndingInv'
  <2>1. ByReader' => ByReader /\ InTurn' /\ Winding' = Winding
    BY <1>17 DEF Drain, Threads, EndingInv, TypeOK, WordsInv, ptyVars, finishVars
  <2>. QED
    BY <1>0, <1>17, <2>1, QuietStep DEF Drain, clientVars, finishVars
<1>18. ASSUME NEW p \in Threads, NEW c \in Clients, DrainGivesUp(p, c), ended = "no"
      PROVE  EndingInv'
  <2>1. ByReader' => ByReader /\ InTurn' /\ Winding' = Winding
    BY <1>18 DEF DrainGivesUp, Threads, EndingInv, TypeOK, WordsInv, ptyVars, finishVars
  <2>. QED
    BY <1>0, <1>18, <2>1, QuietStep DEF DrainGivesUp, clientVars, finishVars
<1>19. ASSUME NEW p \in Threads, Sigterm(p), ended = "no"
      PROVE  EndingInv'
  <2>1. ByReader' => ByReader /\ InTurn' /\ Winding' = Winding
    BY <1>19 DEF Sigterm, Threads, EndingInv, TypeOK, WordsInv, ptyVars, finishVars
  <2>. QED
    BY <1>0, <1>19, <2>1, QuietStep DEF Sigterm, clientVars, finishVars
<1>20. CASE SeesTerm /\ ended = "no"
  BY <1>0, <1>20, TermKeeps
<1>21. CASE SeesExiting /\ ended = "no"
  <2>1. ByReader' => ByReader /\ InTurn' /\ Winding' = Winding
    BY <1>21 DEF SeesExiting, EndingInv, TypeOK, WordsInv, ptyVars, finishVars
  <2>. QED
    BY <1>0, <1>21, <2>1, QuietStep DEF SeesExiting, clientVars, finishVars
<1>22. CASE UNCHANGED vars
  <2>1. ByReader' => ByReader /\ InTurn' /\ Winding' = Winding
    BY <1>22 DEF vars, EndingInv, WordsInv, ptyVars, finishVars
  <2>. QED
    BY <1>0, <1>22, <2>1, QuietStep DEF vars, clientVars, finishVars
<1>. QED
  BY <1>1, <1>2, <1>3, <1>4, <1>5, <1>6, <1>7, <1>8, <1>9, <1>10, <1>11, 
     <1>12, <1>13, <1>14, <1>15, <1>16, <1>17, <1>18, <1>19, <1>20, <1>21, <1>22
     DEF Next, ReaderNext, WriterNext, FinishNext, PersistNext

\* For any number of clients, any output and any backlog, the processes, the
\* threads and the clients keep their types.
THEOREM TeardownTypes == Spec => []TypeOK
<1>. QED
  BY TypesInit, TypesNext, PTL DEF Spec

\* A session of which the reader calls `finish` first has written the last of the
\* output to everyone whom it has waited for and who stayed, before the process is
\* gone, and nothing but FRAME_EXIT is left to be written to them. It has waited
\* for all who were there, unless the accept loop called `finish` too and was the
\* one to end the process: `finish` is called behind the last broadcast, queues
\* FRAME_EXIT behind it, drains each channel of all that has a payload, and does
\* none of it for a second caller (run_master, finish).
THEOREM LastWordsArrive == Spec => []LastWords
<1>1. EndingInv => LastWords
  <2> SUFFICES ASSUME EndingInv, ended = "finished", ender = "reader"
               PROVE  LastWords
    BY DEF LastWords
  <2>1. InTurn /\ Winding /\ read = total
    BY DEF EndingInv, WordsInv, ByReader, InTurn, Winding
  <2>2. at["loop"] \in {"works", "finishes"} => untold \cup undrained = {}
    BY <2>1 DEF InTurn, AtExit
  <2>3. ASSUME NEW c \in Clients, Remains(c), c \notin untold \cup undrained
        PROVE  /\ sent[c].upTo = total
               /\ IF queue[c].frames = <<>> THEN sent[c].exit
                                            ELSE queue[c].frames = <<ExitFrame>>
    <3>1. Words(c)
      BY DEF EndingInv, WordsInv, ByReader
    <3>2. Open(c) /\ c \notin late \cup gaveUp
      BY <2>3 DEF Remains, Open
    <3>3. Queued(c) /\ queue[c].bytes = 0 /\ Told(c)
      BY <2>1, <2>3, <3>1, <3>2 DEF Words, Flushed, Told
    <3>4. sent[c].upTo = total
      BY <2>1, <3>3 DEF Queued
    <3>5. \/ Len(queue[c].frames) = 1 /\ queue[c].frames[1] = ExitFrame
          \/ queue[c].frames = <<>> /\ sent[c].exit
      BY <3>3 DEF Queued
    <3>6. queue[c].frames \in Seq(Frame)
      BY Fields DEF EndingInv
    <3>. QED
      BY <3>4, <3>5, <3>6
  <2>. QED
    BY <2>2, <2>3 DEF LastWords
<1>. QED
  BY <1>1, EndingInit, EndingNext, PTL DEF Spec
=============================================================================
