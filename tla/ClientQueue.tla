----------------------------- MODULE ClientQueue -----------------------------
(***************************************************************************)
(* The frames queued for one attached client (main.rs, ClientQueue), and   *)
(* what each critical section of ClientChannel does to them (unix.rs).     *)
(* A frame is a record with at least a `size`, the length of its payload.  *)
(* Pure operators: ClientChannel.tla runs them from the channel's threads, *)
(* Session.tla from the threads of a whole master.                         *)
(***************************************************************************)
EXTENDS Integers, Sequences

CONSTANT MaxBacklog   \* MAX_CLIENT_BACKLOG, in payload bytes

ASSUME ClientQueueAssumption == MaxBacklog \in Nat

EmptyQueue == [frames |-> <<>>, bytes |-> 0, closed |-> FALSE]

\* A mutant: the frames still queued are not counted against the limit.
FitsIgnoresBacklog(q, f) == f.size <= MaxBacklog

\* The frame does not take the client over its backlog.
Fits(q, f) == q.bytes + f.size <= MaxBacklog

\* A mutant: the newest frame goes to the front of the queue.
PushedFirst(q, f) ==
    [q EXCEPT !.frames = <<f>> \o @, !.bytes = @ + f.size]

\* The section of `send` that queues the frame.
Pushed(q, f) ==
    [q EXCEPT !.frames = Append(@, f), !.bytes = @ + f.size]

\* The section of `close`.
Closed(q) == [frames |-> <<>>, bytes |-> 0, closed |-> TRUE]

\* The writer takes the frame at the front; its bytes stay counted.
Popped(q) == [q EXCEPT !.frames = Tail(@)]

\* A mutant: plain subtraction, wrong when `close` has zeroed the count.
CountedUnsaturated(q, f) == [q EXCEPT !.bytes = @ - f.size]

\* The section of `run` after a frame has left: the count may have been zeroed
\* by `close` meanwhile, so it saturates.
Counted(q, f) ==
    [q EXCEPT !.bytes = IF @ >= f.size THEN @ - f.size ELSE 0]
=============================================================================
