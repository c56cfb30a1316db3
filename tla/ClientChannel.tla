---------------------------- MODULE ClientChannel ----------------------------
(***************************************************************************)
(* The outbound half of one attached client on Unix (unix.rs,              *)
(* ClientChannel): threads that send to it, the writer thread behind it,   *)
(* a thread that closes it and the thread that drains it when the session  *)
(* ends. One action per critical section of the queue's mutex and per step *)
(* taken outside it; `waiting` is who is blocked on the condition variable.*)
(*                                                                         *)
(* The socket holds SocketSpace frames the peer has not read. A write that *)
(* finds no room fails after CLIENT_WRITE_TIMEOUT, and one on a socket     *)
(* that has been shut down, or whose peer is gone, fails at once.          *)
(***************************************************************************)
EXTENDS ClientQueue

CONSTANTS
    Senders,      \* threads that call `send`
    Sizes,        \* payload lengths of the frames they send
    SocketSpace,  \* frames the socket holds before a write blocks
    MaxSends      \* bound: frames accepted in a run

ASSUME ClientChannelAssumption ==
    /\ Sizes \subseteq Nat
    /\ SocketSpace \in Nat \ {0}
    /\ MaxSends \in Nat

VARIABLES
    queue,      \* the ClientQueue
    waiting,    \* threads blocked on `ready`
    sender,     \* per sender: "idle", or "overflow" between `drop` and `close`
    writer,     \* "check", "write", "wrote", "failed", "close" or "done"
    inFlight,   \* the frame the writer holds
    drainer,    \* "idle", "check", "late" once the deadline has passed, then
                \* why `drain` returned: "flushed", "closed" or "gaveUp"
    shut,       \* the socket can no longer be written to
    unread,     \* frames in the socket that the peer has not read
    accepted,   \* history: the frames `send` returned Ok for
    written,    \* history: the ids of those that have left
    mustDrain   \* history: how many were accepted when `drain` was called

vars == <<queue, waiting, sender, writer, inFlight, drainer, shut, unread,
          accepted, written, mustDrain>>

Frame == [id : 1..MaxSends, size : Sizes]
NoFrame == [id |-> 0, size |-> 0]

\* The payload of a sequence of frames.
Bytes(s) ==
    LET sum[n \in 0..Len(s)] == IF n = 0 THEN 0 ELSE sum[n - 1] + s[n].size
    IN  sum[Len(s)]

Init ==
    /\ queue = EmptyQueue
    /\ waiting = {}
    /\ sender = [s \in Senders |-> "idle"]
    /\ writer = "check"
    /\ inFlight = NoFrame
    /\ drainer = "idle"
    /\ shut = FALSE
    /\ unread = 0
    /\ accepted = <<>>
    /\ written = <<>>
    /\ mustDrain = 0

-----------------------------------------------------------------------------
\* Everyone blocked on the condition variable goes back to its check.
NotifyAll == waiting' = {}

\* A mutant: queueing a frame wakes nobody.
SendSilently(s, size) ==
    LET f == [id |-> Len(accepted) + 1, size |-> size]
    IN  /\ sender[s] = "idle"
        /\ Len(accepted) < MaxSends
        /\ ~queue.closed
        /\ Fits(queue, f)
        /\ queue' = Pushed(queue, f)
        /\ accepted' = Append(accepted, f)
        /\ UNCHANGED <<waiting, sender, writer, inFlight, drainer, shut, unread,
                       written, mustDrain>>

\* `send`: refused on a closed channel, queued when it fits.
Send(s, size) ==
    LET f == [id |-> Len(accepted) + 1, size |-> size]
    IN  /\ sender[s] = "idle"
        /\ Len(accepted) < MaxSends
        /\ ~queue.closed
        /\ Fits(queue, f)
        /\ queue' = Pushed(queue, f)
        /\ accepted' = Append(accepted, f)
        /\ NotifyAll
        /\ UNCHANGED <<sender, writer, inFlight, drainer, shut, unread, written,
                       mustDrain>>

\* `send` past the limit: the lock is dropped before the channel is closed.
SendOverflows(s, size) ==
    /\ sender[s] = "idle"
    /\ Len(accepted) < MaxSends
    /\ ~queue.closed
    /\ ~Fits(queue, [id |-> 0, size |-> size])
    /\ sender' = [sender EXCEPT ![s] = "overflow"]
    /\ UNCHANGED <<queue, waiting, writer, inFlight, drainer, shut, unread,
                   accepted, written, mustDrain>>

\* A mutant: closing wakes nobody.
CloseSilently ==
    /\ queue' = Closed(queue)
    /\ shut' = TRUE
    /\ UNCHANGED waiting

\* `close`: empties the queue, wakes everyone and shuts the socket down.
CloseChannel ==
    /\ queue' = Closed(queue)
    /\ NotifyAll
    /\ shut' = TRUE

SenderCloses(s) ==
    /\ sender[s] = "overflow"
    /\ CloseChannel
    /\ sender' = [sender EXCEPT ![s] = "idle"]
    /\ UNCHANGED <<writer, inFlight, drainer, unread, accepted, written,
                   mustDrain>>

\* The end of client_loop: the peer is gone or sent an invalid frame.
ReaderCloses ==
    /\ ~queue.closed
    /\ CloseChannel
    /\ UNCHANGED <<sender, writer, inFlight, drainer, unread, accepted, written,
                   mustDrain>>

-----------------------------------------------------------------------------
\* `run`: takes the next frame, stops once the channel is closed, or waits.
WriterPops ==
    /\ writer = "check"
    /\ "writer" \notin waiting
    /\ queue.frames # <<>>
    /\ inFlight' = Head(queue.frames)
    /\ queue' = Popped(queue)
    /\ writer' = "write"
    /\ UNCHANGED <<waiting, sender, drainer, shut, unread, accepted, written,
                   mustDrain>>

WriterStops ==
    /\ writer = "check"
    /\ "writer" \notin waiting
    /\ queue.frames = <<>>
    /\ queue.closed
    /\ writer' = "done"
    /\ UNCHANGED <<queue, waiting, sender, inFlight, drainer, shut, unread,
                   accepted, written, mustDrain>>

WriterWaits ==
    /\ writer = "check"
    /\ "writer" \notin waiting
    /\ queue.frames = <<>>
    /\ ~queue.closed
    /\ waiting' = waiting \cup {"writer"}
    /\ UNCHANGED <<queue, sender, writer, inFlight, drainer, shut, unread,
                   accepted, written, mustDrain>>

\* A wake-up without a notification, which the standard library allows.
WakesSpuriously(t) ==
    /\ t \in waiting
    /\ waiting' = waiting \ {t}
    /\ UNCHANGED <<queue, sender, writer, inFlight, drainer, shut, unread,
                   accepted, written, mustDrain>>

\* `send_frame` outside the lock.
WriterWrites ==
    /\ writer = "write"
    /\ ~shut
    /\ unread < SocketSpace
    /\ unread' = unread + 1
    /\ written' = Append(written, inFlight.id)
    /\ writer' = "wrote"
    /\ UNCHANGED <<queue, waiting, sender, inFlight, drainer, shut, accepted,
                   mustDrain>>

\* The write fails: the socket is shut down, the peer is gone, or there was no
\* room for CLIENT_WRITE_TIMEOUT.
WriterFails ==
    /\ writer = "write"
    /\ shut \/ unread = SocketSpace
    /\ writer' = "failed"
    /\ UNCHANGED <<queue, waiting, sender, inFlight, drainer, shut, unread,
                   accepted, written, mustDrain>>

\* The frame is counted out, written or not.
WriterCounts ==
    /\ writer \in {"wrote", "failed"}
    /\ queue' = Counted(queue, inFlight)
    /\ inFlight' = NoFrame
    /\ NotifyAll
    /\ writer' = IF writer = "wrote" THEN "check" ELSE "close"
    /\ UNCHANGED <<sender, drainer, shut, unread, accepted, written, mustDrain>>

WriterCloses ==
    /\ writer = "close"
    /\ CloseChannel
    /\ writer' = "done"
    /\ UNCHANGED <<sender, inFlight, drainer, unread, accepted, written,
                   mustDrain>>

\* The peer takes a frame off the socket.
PeerReads ==
    /\ unread > 0
    /\ unread' = unread - 1
    /\ UNCHANGED <<queue, waiting, sender, writer, inFlight, drainer, shut,
                   accepted, written, mustDrain>>

\* The peer goes away without reading what is left in the socket.
PeerLeaves ==
    /\ ~shut
    /\ shut' = TRUE
    /\ unread' = 0
    /\ UNCHANGED <<queue, waiting, sender, writer, inFlight, drainer, accepted,
                   written, mustDrain>>

-----------------------------------------------------------------------------
\* `drain` is called, by `finish` after its last frame or by client_loop.
DrainStarts ==
    /\ drainer = "idle"
    /\ drainer' = "check"
    /\ mustDrain' = Len(accepted)
    /\ UNCHANGED <<queue, waiting, sender, writer, inFlight, shut, unread,
                   accepted, written>>

\* A mutant: an empty frame list is taken for a drained queue.
StillQueuedInList == queue.frames # <<>>

\* The condition `drain` waits on.
StillQueued == queue.bytes > 0

DrainWaits ==
    /\ drainer = "check"
    /\ "drainer" \notin waiting
    /\ ~queue.closed
    /\ StillQueued
    /\ waiting' = waiting \cup {"drainer"}
    /\ UNCHANGED <<queue, sender, writer, inFlight, drainer, shut, unread,
                   accepted, written, mustDrain>>

DrainReturns ==
    /\ drainer \in {"check", "late"}
    /\ "drainer" \notin waiting
    /\ queue.closed \/ ~StillQueued
    /\ drainer' = IF queue.closed THEN "closed" ELSE "flushed"
    /\ UNCHANGED <<queue, waiting, sender, writer, inFlight, shut, unread,
                   accepted, written, mustDrain>>

\* Two seconds have passed: a wait times out, a check finds no time remaining.
DeadlinePasses ==
    /\ drainer = "check"
    /\ drainer' = "late"
    /\ waiting' = waiting \ {"drainer"}
    /\ UNCHANGED <<queue, sender, writer, inFlight, shut, unread, accepted,
                   written, mustDrain>>

DrainGivesUp ==
    /\ drainer = "late"
    /\ ~queue.closed
    /\ StillQueued
    /\ drainer' = "gaveUp"
    /\ UNCHANGED <<queue, waiting, sender, writer, inFlight, shut, unread,
                   accepted, written, mustDrain>>

-----------------------------------------------------------------------------
WriterNext ==
    \/ WriterPops \/ WriterStops \/ WriterWaits
    \/ WriterWrites \/ WriterFails \/ WriterCounts \/ WriterCloses

DrainNext == DrainWaits \/ DrainReturns \/ DrainGivesUp

Next ==
    \/ \E s \in Senders : \/ \E size \in Sizes : Send(s, size)
                          \/ \E size \in Sizes : SendOverflows(s, size)
                          \/ SenderCloses(s)
    \/ ReaderCloses
    \/ WriterNext
    \/ \E t \in {"writer", "drainer"} : WakesSpuriously(t)
    \/ PeerReads \/ PeerLeaves
    \/ DrainStarts
    \/ DrainNext \/ DeadlinePasses

\* Threads that can run do run, and a write does not block forever: it ends
\* with CLIENT_WRITE_TIMEOUT. Nothing makes the peer read, a thread send, or
\* the client leave.
Fairness ==
    /\ WF_vars(WriterNext)
    /\ WF_vars(DrainNext)
    /\ WF_vars(DeadlinePasses)
    /\ \A s \in Senders : WF_vars(SenderCloses(s))

Spec == Init /\ [][Next]_vars /\ Fairness

-----------------------------------------------------------------------------
\* Types of the queue, of the threads and of the socket.
TypeOK ==
    /\ queue \in [frames : Seq(Frame), bytes : Nat, closed : BOOLEAN]
    /\ waiting \subseteq {"writer", "drainer"}
    /\ sender \in [Senders -> {"idle", "overflow"}]
    /\ writer \in {"check", "write", "wrote", "failed", "close", "done"}
    /\ inFlight \in Frame \cup {NoFrame}
    /\ drainer \in {"idle", "check", "late", "flushed", "closed", "gaveUp"}
    /\ shut \in BOOLEAN
    /\ unread \in 0..SocketSpace
    /\ accepted \in Seq(Frame)
    /\ written \in Seq(1..MaxSends)
    /\ mustDrain \in 0..MaxSends

\* The count the backlog limit and `drain` go by is the payload queued and in
\* flight, whatever sends, pops and closes came in between; a closed channel
\* holds nothing and counts nothing (unix.rs:681-708 and 744-750).
BacklogExact ==
    IF queue.closed
    THEN queue.frames = <<>> /\ queue.bytes = 0
    ELSE /\ queue.bytes = Bytes(queue.frames) + inFlight.size
         /\ queue.bytes <= MaxBacklog

\* The frames that have left are the first ones accepted, each once and in the
\* order they were accepted, with several threads sending.
LeavesInOrder ==
    written = [i \in 1..Len(written) |-> accepted[i].id]

\* A drain that returns on an open channel, before its deadline, leaves no
\* output behind: every frame with a payload that was accepted before it is
\* out, the one in flight included (unix.rs:714-716), unless a write failed
\* and the writer is giving the client up.
DrainFlushesOutput ==
    drainer = "flushed" /\ writer \notin {"close", "done"} =>
      \A i \in 1..mustDrain : accepted[i].size > 0 => i <= Len(written)

\* Every frame accepted leaves, or the channel is closed: no wake-up of the
\* writer is lost.
EveryFrameSettles ==
    \A n \in 1..MaxSends :
        Len(accepted) >= n ~> Len(written) >= n \/ queue.closed

\* A closed channel does not leak its writer thread, wherever the writer was.
WriterEnds == queue.closed ~> writer = "done"
=============================================================================
