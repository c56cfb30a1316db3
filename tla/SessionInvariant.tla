-------------------------- MODULE SessionInvariant --------------------------
(***************************************************************************)
(* The inductive invariant behind TerminalExact: what the frames on their  *)
(* way to a terminal look like, how they fit what it has received, and how *)
(* they end where the master will go on. Behind the refinement and         *)
(* ClientsAreComplete there is more: the frames are of output there has    *)
(* been and ahead of their terminal, and those of a client that nobody     *)
(* reads end where the master goes on as well. SessionProofs.tla proves    *)
(* both for every value of the constants.                                  *)
(***************************************************************************)
EXTENDS Session

\* The frames that may follow a frame of a kind.
After(kind) ==
    IF kind = "snapshot" THEN {"snapshot", "replayDone"}
    ELSE IF kind = "output" THEN {"output", "resumeDone"}
    ELSE {"output"}

Follows(f, g) ==
    /\ g.epoch = f.epoch
    /\ g.from = f.to
    /\ g.kind \in After(f.kind)

\* A frame spans a part of the output, or stands for a point of it.
Spans(f) == f.from <= f.to /\ (f.kind # "output" => f.from = f.to)

\* All that a terminal does with the next frame of its connection depends on.
View(t, k) == [live |-> live[t], base |-> pending[t].base,
               bytes |-> pending[t].bytes, mark |-> mark[t], mode |-> mode[k]]

\* The frames a terminal may receive next.
Ready(v) ==
    IF v.live THEN {"output", "resumeDone"}
    ELSE IF v.base # None THEN {"snapshot", "replayDone"}
    ELSE IF v.mode = "resume" THEN {"output", "resumeDone"}
    ELSE IF v.mode = "replay" THEN {"snapshot"}
    ELSE {"output"}

\* What the terminal has received reaches to x in the output of master e. It
\* reaches nowhere in particular before the first frame of a replay, nor in a
\* plain attach.
Reaches(v, e, x) ==
    /\ v.live => v.mark.epoch = e /\ v.mark.offset = x
    /\ ~v.live /\ v.mode = "resume" =>
         v.mark.epoch = e /\ v.mark.offset + Len(v.bytes) = x
    /\ v.base # None => v.base = x

\* What a terminal holds back until the marker, for each way to attach.
Received(v) ==
    /\ v.live => v.mark # None /\ v.base = None /\ v.bytes = <<>>
    /\ v.base # None \/ v.mode = "replay" => v.bytes = <<>>
    /\ v.mode = "resume" =>
         /\ v.mark # None
         /\ \A i \in 1..Len(v.bytes) :
              v.bytes[i] = <<v.mark.epoch, v.mark.offset + i>>

\* A sequence of frames without a gap, that fits what the terminal has.
Fitting(v, s) ==
    /\ \A i \in 1..Len(s) : Spans(s[i])
    /\ \A i, j \in 1..Len(s) : j = i + 1 => Follows(s[i], s[j])
    /\ s # <<>> => s[1].kind \in Ready(v) /\ Reaches(v, s[1].epoch, s[1].from)
    /\ v.mode = "plain" => \A i \in 1..Len(s) : s[i].kind = "output"

\* A frame of the kind may come next, at x in the output of master e.
Continues(v, s, e, kind, x) ==
    IF s = <<>>
    THEN kind \in Ready(v) /\ Reaches(v, e, x)
    ELSE /\ kind \in After(s[Len(s)].kind)
         /\ s[Len(s)].epoch = e
         /\ s[Len(s)].to = x

\* The frames the master may queue next for a connection, and where.
DueAnswer(k) ==
    IF mode[k] = "resume"
    THEN {"output", "resumeDone"} \X {Total - left[k]}
    ELSE IF mode[k] = "replay"
    THEN {IF left[k] > 0 THEN "snapshot" ELSE "replayDone"} \X {Total}
    ELSE {"output"} \X {Total}

Due(k) ==
    IF queue[k].closed THEN {}
    ELSE IF pc[k] = "filling" THEN DueAnswer(k)
    ELSE IF pc[k] = "inserting" THEN {"output"} \X {Total}
    ELSE IF k \in clients
    THEN {"output"} \X {IF reader.pc = "sending" /\ k \in reader.todo
                        THEN reader.from ELSE Total}
    ELSE {}

\* Of an attach that has not been answered: the terminal is where it says.
Unanswered(t, k) ==
    pc[k] = "handshake" =>
      /\ ~live[t]
      /\ pending[t] = NothingPending
      /\ request[k].resume # None => request[k].resume = mark[t]

\* A terminal and the connection it reads.
Serves(k, t) ==
    /\ Received(View(t, k))
    /\ Fitting(View(t, k), Stream(k))
    /\ \A d \in Due(k) : Continues(View(t, k), Stream(k), epoch, d[1], d[2])
    /\ Unanswered(t, k)
    /\ pc[k] # "unused"

TerminalInv ==
    \A t \in Terminals :
      /\ link[t] = None => ~live[t] /\ pending[t] = NothingPending
      /\ \A k \in Conns : link[t] = k => Serves(k, t)

\* The reader thread holds the history mutex while it sends.
ReaderInv ==
    reader.pc = "sending" => /\ lock = "reader"
                             /\ reader.todo \subseteq clients
                             /\ reader.from <= Total

\* Where a connection's thread can be, and what it has got by then.
ConnInv(k) ==
    /\ pc[k] \in {"filling", "inserting"} => lock = k
    /\ k \in clients => pc[k] \in {"attached", "leaving"}
    /\ pc[k] \in {"unused", "handshake"} =>
         /\ queue[k] = EmptyQueue /\ writing[k] = <<>> /\ wire[k] = <<>>
         /\ mode[k] = "plain" /\ left[k] = 0
    /\ queue[k].closed => queue[k].frames = <<>>
    /\ pc[k] = "filling" /\ mode[k] = "plain" => left[k] = 0
    /\ pc[k] = "filling" /\ mode[k] = "resume" => left[k] <= Total

OneEach == \A t, u \in Terminals : link[t] = link[u] /\ link[t] # None => t = u

ScreensInv == \A t \in Terminals : screen[t] = None <=> mark[t] = None

IInv ==
    /\ TypeOK
    /\ ReaderInv
    /\ \A k \in Conns : ConnInv(k)
    /\ OneEach
    /\ ScreensInv
    /\ TerminalInv
    /\ TerminalExact

-----------------------------------------------------------------------------
\* A terminal has reached a point of the output there has been.
MarksInv ==
    \A t \in Terminals : mark[t] # None =>
      mark[t].epoch <= epoch /\ mark[t].offset <= total[mark[t].epoch]

\* A frame starts at the position or later.
NotBehind(m, f) ==
    m.epoch < f.epoch \/ (m.epoch = f.epoch /\ m.offset <= f.from)

\* Frames of output there has been, one after the other.
InOrder(s, e, produced) ==
    /\ \A i \in 1..Len(s) :
         s[i].epoch <= e /\ s[i].to <= produced[s[i].epoch]
    /\ \A i, j \in 1..Len(s) :
         i < j => s[i].epoch = s[j].epoch /\ s[i].to <= s[j].from

\* Frames that are ahead of what a terminal shows.
NoneBehind(m, s) == m # None => \A i \in 1..Len(s) : NotBehind(m, s[i])

\* A plain attach is not answered, so that its terminal never shows what it
\* receives.
Ahead(t, k) ==
    /\ InOrder(Stream(k), epoch, total)
    /\ mode[k] # "plain" => NoneBehind(mark[t], Stream(k))

AheadInv ==
    \A t \in Terminals, k \in Conns : link[t] = k => Ahead(t, k)

\* What is on its way ends where the next frame will start, whether a terminal
\* reads the connection or not.
EndsAt(s, e, x) == s # <<>> => s[Len(s)].epoch = e /\ s[Len(s)].to = x

EndsInv ==
    \A k \in Conns : \A d \in Due(k) : EndsAt(Stream(k), epoch, d[2])

PromiseInv == IInv /\ MarksInv /\ AheadInv /\ EndsInv
=============================================================================
