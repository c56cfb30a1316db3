------------------------------- MODULE Teardown -------------------------------
(***************************************************************************)
(* The end of a session on Unix: the thread that reads the PTY and the     *)
(* loop that accepts connections (run_master), both of which may call      *)
(* `finish`, a kill and the thread it leaves behind (kill_shell), SIGTERM  *)
(* and the thread that looks for it (spawn_persistence_thread), and the    *)
(* clients that attach, are written to and leave meanwhile.                *)
(*                                                                         *)
(* The other end of the PTY is open in the shell and, maybe, in a job of   *)
(* another process group, which a kill does not reach. The reader sees the *)
(* end of the output when nobody holds that end any more. A client's queue *)
(* is ClientQueue.tla's; a frame says up to where its output goes, so that *)
(* a replay and an output frame are the same. ClientChannel.tla takes the  *)
(* writer and `drain` apart, Session.tla the broadcast and the replay.     *)
(***************************************************************************)
EXTENDS ClientQueue

CONSTANTS
    MaxAttaches,  \* bound: clients that attach
    MaxOutput     \* bound: chunks of output

ASSUME TeardownAssumption ==
    MaxAttaches \in Nat /\ MaxOutput \in Nat /\ MaxBacklog > 0

VARIABLES
    alive,    \* the shell runs
    holders,  \* who has the other end of the PTY open
    total,    \* chunks written to the PTY
    read,     \* chunks the reader has read and broadcast
    at,       \* where the two threads that may call `finish` are
    conn,     \* the thread of each connection
    clients,  \* MasterState::clients
    queue,    \* the ClientQueue of each connection
    sent,     \* what its writer has written to its socket: how far the output
              \* in it goes, and whether the last frame was FRAME_EXIT
    exiting,  \* MasterState::exiting
    ender,    \* history: who called `finish` first
    signal,   \* what kill_shell has sent; "none" is shell_killed unset
    untold,   \* finish: clients still to be sent FRAME_EXIT
    undrained,\* finish: clients still to be drained
    gaveUp,   \* history: clients whose drain took too long
    late,     \* history: clients that attached while `finish` was running
    term,     \* MASTER_TERM_REQUESTED
    persist,  \* the persistence thread
    ended     \* whether the process runs, or which way it ended

ptyVars == <<alive, holders, total>>
clientVars == <<conn, clients, queue, sent, late>>
finishVars == <<exiting, ender, untold, undrained, gaveUp>>
askVars == <<signal, term, persist>>
vars == <<ptyVars, read, at, clientVars, finishVars, askVars, ended>>

\* Clients, numbered in the order in which they attach.
Clients == 1..MaxAttaches

Threads == {"reader", "loop"}
Frame == [kind : {"output", "exit"}, upTo : 0..MaxOutput, size : {0, 1}]

\* A mutant: off by one.
FrameAhead(n) == [kind |-> "output", upTo |-> n + 1, size |-> 1]

OutputFrame(n) == [kind |-> "output", upTo |-> n, size |-> 1]
ExitFrame == [kind |-> "exit", upTo |-> 0, size |-> 0]
NothingSent == [upTo |-> -1, exit |-> FALSE]

Init ==
    /\ alive = TRUE
    /\ holders \in {{"shell"}, {"shell", "job"}}
    /\ total = 0
    /\ read = 0
    /\ at = [p \in Threads |-> "works"]
    /\ conn = [c \in Clients |-> "none"]
    /\ clients = {}
    /\ queue = [c \in Clients |-> EmptyQueue]
    /\ sent = [c \in Clients |-> NothingSent]
    /\ exiting = FALSE
    /\ ender = "none"
    /\ signal = "none"
    /\ untold = {}
    /\ undrained = {}
    /\ gaveUp = {}
    /\ late = {}
    /\ term = FALSE
    /\ persist = "runs"
    /\ ended = "no"

\* `send`: what becomes of a client's queue. A full one is closed, and a closed
\* one stays as it is.
Sent(q, f) ==
    IF q.closed THEN q ELSE IF Fits(q, f) THEN Pushed(q, f) ELSE Closed(q)

-----------------------------------------------------------------------------
\* The other end of the PTY.

Writes ==
    /\ holders # {}
    /\ total < MaxOutput
    /\ total' = total + 1
    /\ UNCHANGED <<alive, holders, read, at, clientVars, finishVars,
                   askVars, ended>>

\* By itself, at SIGHUP, or at SIGKILL.
ShellExits ==
    /\ alive
    /\ alive' = FALSE
    /\ holders' = holders \ {"shell"}
    /\ UNCHANGED <<total, read, at, clientVars, finishVars, askVars, ended>>

\* A job ends; a shell may close its terminal and go on.
LetsGo(h) ==
    /\ h \in holders
    /\ holders' = holders \ {h}
    /\ UNCHANGED <<alive, total, read, at, clientVars, finishVars,
                   askVars, ended>>

-----------------------------------------------------------------------------
\* The thread that reads the PTY.

\* broadcast_output; those it cannot send the chunk to are taken out. A client
\* may get FRAME_EXIT while others are still sent the chunk; to each, the one
\* comes before the other or after it.
Broadcast ==
    /\ at["reader"] = "works"
    /\ read < total
    /\ read' = read + 1
    /\ queue' = [c \in Clients |-> IF c \in clients
                                   THEN Sent(queue[c], OutputFrame(read + 1))
                                   ELSE queue[c]]
    /\ clients' = {c \in clients : ~queue'[c].closed}
    /\ UNCHANGED <<ptyVars, at, conn, sent, late, finishVars, askVars, ended>>

\* EIO: everything is read and nobody holds the other end.
ReaderStops ==
    /\ at["reader"] = "works"
    /\ holders = {} /\ read = total
    /\ at' = [at EXCEPT !["reader"] = "finishes"]
    /\ UNCHANGED <<ptyVars, read, clientVars, finishVars, askVars, ended>>

-----------------------------------------------------------------------------
\* Connections.

\* FRAME_ATTACH, with a replay: add_client.
Attaches(c) ==
    /\ conn[c] = "none"
    /\ \A d \in 1..(c - 1) : conn[d] # "none"
    /\ conn' = [conn EXCEPT ![c] = "attached"]
    /\ queue' = [queue EXCEPT ![c] = Sent(@, OutputFrame(read))]
    /\ clients' = clients \cup {c}
    /\ late' = IF \E p \in Threads : at[p] \notin {"works", "finishes"}
               THEN late \cup {c} ELSE late
    /\ UNCHANGED <<ptyVars, read, at, sent, finishVars, askVars, ended>>

\* kill_shell: the first call sends SIGHUP and leaves a thread behind.
KillShell == signal' = IF signal = "none" THEN "hangup" ELSE signal

\* FRAME_KILL, on the connection of a kill command, which is answered first.
\* Nothing here waits for the answer, nor for that connection's end.
Kills ==
    /\ signal = "none"
    /\ KillShell
    /\ UNCHANGED <<ptyVars, read, at, clientVars, finishVars, term,
                   persist, ended>>

\* A mutant: SIGKILL is sent only when the shell is gone.
SigkillTooLate ==
    /\ signal = "hangup"
    /\ ~alive
    /\ signal' = "kill"
    /\ UNCHANGED <<ptyVars, read, at, clientVars, finishVars, term, persist,
                   ended>>

\* Two seconds after SIGHUP. The shell is gone by then, or with the next step.
SendsSigkill ==
    /\ signal = "hangup"
    /\ signal' = "kill"
    /\ UNCHANGED <<ptyVars, read, at, clientVars, finishVars, term,
                   persist, ended>>

\* What was written on a connection does not matter once it is gone.
Forget(c) ==
    /\ conn' = [conn EXCEPT ![c] = "gone"]
    /\ queue' = [queue EXCEPT ![c] = Closed(@)]
    /\ sent' = [sent EXCEPT ![c] = NothingSent]
    /\ late' = late \ {c}
    /\ gaveUp' = gaveUp \ {c}

\* A mutant: an attached client that is gone is not taken out of the broadcast.
LeavesList(c) ==
    /\ conn[c] = "attached"
    /\ Forget(c)
    /\ UNCHANGED <<ptyVars, read, at, clients, exiting, ender, untold,
                   undrained, askVars, ended>>

\* client_loop ends, with remove_client and `close`: the peer is gone, or the
\* channel was closed.
LoopEnds(c) ==
    /\ conn[c] = "attached"
    /\ clients' = clients \ {c}
    /\ Forget(c)
    /\ UNCHANGED <<ptyVars, read, at, exiting, ender, untold, undrained,
                   askVars, ended>>

\* ClientChannel::run: a frame leaves and is counted, or cannot be written.
WriterWrites(c) ==
    LET f == Head(queue[c].frames)
    IN  /\ queue[c].frames # <<>>
        /\ sent' = [sent EXCEPT ![c] = IF f = ExitFrame
                                    THEN [@ EXCEPT !.exit = TRUE]
                                    ELSE [upTo |-> f.upTo, exit |-> FALSE]]
        /\ queue' = [queue EXCEPT ![c] = Counted(Popped(@), f)]
        /\ UNCHANGED <<ptyVars, read, at, conn, clients, late, finishVars,
                   askVars, ended>>

WriterFails(c) ==
    /\ queue[c].frames # <<>>
    /\ queue' = [queue EXCEPT ![c] = Closed(@)]
    /\ UNCHANGED <<ptyVars, read, at, conn, clients, sent, late,
                   finishVars, askVars, ended>>

-----------------------------------------------------------------------------
\* The accept loop, and `finish`.

\* `incoming` fails with something other than EINTR.
AcceptFails ==
    /\ at["loop"] = "works"
    /\ at' = [at EXCEPT !["loop"] = "finishes"]
    /\ KillShell
    /\ UNCHANGED <<ptyVars, read, clientVars, finishVars, term, persist,
                   ended>>

FirstCaller(p) == IF ender = "none" THEN p ELSE ender

\* A mutant: the flag is set and not looked at.
FinishEach(p) ==
    /\ at[p] = "finishes"
    /\ exiting' = TRUE
    /\ ender' = FirstCaller(p)
    /\ at' = [at EXCEPT ![p] = "tells"]
    /\ untold' = clients
    /\ UNCHANGED <<ptyVars, read, clientVars, undrained, gaveUp, askVars,
                   ended>>

\* Only the first caller tells the clients of the end and waits for their
\* writers; it takes those who are attached now. The second waits for the shell
\* at once, and may end the process while the first is not through.
Finish(p) ==
    /\ at[p] = "finishes"
    /\ exiting' = TRUE
    /\ ender' = FirstCaller(p)
    /\ at' = [at EXCEPT ![p] = IF exiting THEN "waits" ELSE "tells"]
    /\ untold' = IF exiting THEN untold ELSE clients
    /\ UNCHANGED <<ptyVars, read, clientVars, undrained, gaveUp, askVars,
                   ended>>

\* FRAME_EXIT is queued.
Tell(p, c) ==
    /\ at[p] = "tells"
    /\ c \in untold
    /\ queue' = [queue EXCEPT ![c] = Sent(@, ExitFrame)]
    /\ untold' = untold \ {c}
    /\ undrained' = undrained \cup {c}
    /\ UNCHANGED <<ptyVars, read, at, conn, clients, sent, late, exiting,
                   ender, gaveUp, askVars, ended>>

\* Every frame with a payload has left, or the channel was closed.
Drain(p, c) ==
    /\ at[p] = "tells"
    /\ untold = {}
    /\ c \in undrained
    /\ queue[c].closed \/ queue[c].bytes = 0
    /\ undrained' = undrained \ {c}
    /\ UNCHANGED <<ptyVars, read, at, clientVars, exiting, ender, untold,
                   gaveUp, askVars, ended>>

\* Two seconds have passed.
DrainGivesUp(p, c) ==
    /\ at[p] = "tells"
    /\ untold = {}
    /\ c \in undrained
    /\ ~queue[c].closed /\ queue[c].bytes > 0
    /\ undrained' = undrained \ {c}
    /\ gaveUp' = gaveUp \cup {c}
    /\ UNCHANGED <<ptyVars, read, at, clientVars, exiting, ender, untold,
                   askVars, ended>>

Drained(p) ==
    /\ at[p] = "tells"
    /\ untold = {} /\ undrained = {}
    /\ at' = [at EXCEPT ![p] = "waits"]
    /\ UNCHANGED <<ptyVars, read, clientVars, finishVars, askVars, ended>>

\* waitpid blocks while the shell lives, and returns at once to whoever comes
\* second. Then the directory is removed, and the process is gone.
Exits(p) ==
    /\ at[p] = "exits" \/ (at[p] = "waits" /\ ~alive)
    /\ ended' = "finished"
    /\ UNCHANGED <<ptyVars, read, at, clientVars, finishVars, askVars>>

-----------------------------------------------------------------------------
\* SIGTERM.

\* The flag is set, in whichever thread the signal comes to; a waitpid of that
\* thread is interrupted. Bound: one SIGTERM.
Sigterm(p) ==
    /\ ~term
    /\ term' = TRUE
    /\ at' = [at EXCEPT ![p] = IF @ = "waits" THEN "exits" ELSE @]
    /\ UNCHANGED <<ptyVars, read, clientVars, finishVars, signal, persist,
                   ended>>

\* The persistence thread looks at one flag and then at the other: the state is
\* saved and nothing is left of the process,
SeesTerm ==
    /\ persist = "runs"
    /\ term
    /\ ended' = "terminated"
    /\ conn' = [c \in Clients |-> "gone"]
    /\ clients' = {}
    /\ queue' = [c \in Clients |-> EmptyQueue]
    /\ sent' = [c \in Clients |-> NothingSent]
    /\ late' = {}
    /\ UNCHANGED <<ptyVars, read, at, finishVars, askVars>>

\* A mutant: the thread ends with the shell that was killed.
SeesKill ==
    /\ persist = "runs"
    /\ signal # "none"
    /\ persist' = "gone"
    /\ UNCHANGED <<ptyVars, read, at, clientVars, finishVars, signal, term,
                   ended>>

\* or the thread ends. Its look at the first flag may be from before SIGTERM.
SeesExiting ==
    /\ persist = "runs"
    /\ exiting
    /\ persist' = "gone"
    /\ UNCHANGED <<ptyVars, read, at, clientVars, finishVars, signal,
                   term, ended>>

-----------------------------------------------------------------------------
ReaderNext == Broadcast \/ ReaderStops

FinishNext(p) ==
    \/ Finish(p) \/ Drained(p) \/ Exits(p)
    \/ \E c \in Clients : Tell(p, c) \/ Drain(p, c) \/ DrainGivesUp(p, c)

WriterNext(c) == WriterWrites(c) \/ WriterFails(c)

PersistNext == SeesTerm \/ SeesExiting

Next ==
    /\ ended = "no"
    /\ \/ Writes \/ ShellExits \/ \E h \in holders : LetsGo(h)
       \/ ReaderNext
       \/ \E c \in Clients :
             Attaches(c) \/ LoopEnds(c) \/ WriterNext(c)
       \/ Kills \/ SendsSigkill
       \/ AcceptFails
       \/ \E p \in Threads : FinishNext(p)
       \/ \E p \in Threads : Sigterm(p)
       \/ PersistNext

Spec == Init /\ [][Next]_vars

\* What has to happen while the process runs: the master's threads run, a shell
\* that was sent SIGKILL exits, and the loop of a connection ends when its
\* channel was closed.
MasterNext ==
    /\ ended = "no"
    /\ \/ ReaderNext \/ SendsSigkill \/ PersistNext
       \/ signal = "kill" /\ ShellExits
       \/ \E p \in Threads : FinishNext(p)
       \/ \E c \in Clients : WriterNext(c) \/ (queue[c].closed /\ LoopEnds(c))

\* The master is not stopped: as long as a thread of it can run, one does. There
\* are finitely many such steps, so all of them are taken. Nothing makes the
\* shell write, a job end, or anyone attach, kill or leave.
Fairness == WF_vars(MasterNext)

FairSpec == Spec /\ Fairness

-----------------------------------------------------------------------------
\* Types of the processes, of the threads and of the clients.
TypeOK ==
    /\ alive \in BOOLEAN
    /\ holders \subseteq {"shell", "job"}
    /\ total \in 0..MaxOutput
    /\ read \in 0..total
    /\ at \in [Threads -> {"works", "finishes", "tells", "waits", "exits"}]
    /\ conn \in [Clients -> {"none", "attached", "gone"}]
    /\ clients \subseteq Clients
    /\ queue \in [Clients -> [frames : Seq(Frame), bytes : Nat,
                              closed : BOOLEAN]]
    /\ sent \in [Clients -> [upTo : -1..MaxOutput, exit : BOOLEAN]]
    /\ exiting \in BOOLEAN
    /\ ender \in Threads \cup {"none"}
    /\ signal \in {"none", "hangup", "kill"}
    /\ untold \subseteq Clients
    /\ undrained \subseteq Clients
    /\ gaveUp \subseteq Clients
    /\ late \subseteq Clients
    /\ term \in BOOLEAN
    /\ persist \in {"runs", "gone"}
    /\ ended \in {"no", "finished", "terminated"}

\* Those who were there when `finish` was called, and stayed.
Remains(c) ==
    conn[c] = "attached" /\ ~queue[c].closed /\ c \notin late \cup gaveUp

\* A session that the reader ends, killed or not, has written the last of the
\* shell's output to everyone who was there and stayed, and has FRAME_EXIT as
\* the last thing for them: "`kill` delivers the exit frame and the shell's last
\* output" (CHANGELOG.md:27; unix.rs:770-772, 990-1008). When the accept loop
\* comes to `finish` meanwhile, it sends nothing a second time and takes no
\* client out of the hands of the reader, but may end the process ahead of it:
\* only then is there somebody left whom the reader had not waited for. It is
\* not so when the accept loop calls `finish` first: it does not wait for the
\* last output.
LastWords ==
    ended = "finished" /\ ender = "reader" =>
      /\ at["loop"] \in {"works", "finishes"} => untold \cup undrained = {}
      /\ \A c \in Clients : Remains(c) /\ c \notin untold \cup undrained =>
           /\ sent[c].upTo = total
           /\ IF queue[c].frames = <<>> THEN sent[c].exit
                                        ELSE queue[c].frames = <<ExitFrame>>

\* A kill ends the session, whether the shell heeds SIGHUP or not, but for a
\* job that keeps the PTY open and only as long as it does (kill_shell, finish).
KillEnds ==
    signal # "none" ~>
      ended # "no" \/ ("job" \in holders /\ at["loop"] = "works")

\* SIGTERM ends the session, at whatever it is: only a `finish` that waits for
\* a shell that lives without its PTY can hold it up
\* (spawn_persistence_thread).
TermEnds == term ~> ended # "no" \/ (exiting /\ alive)

\* Time and again everyone in the broadcast has been written all there is:
\* output reaches whoever stays in it, and nobody stays in it that it does not
\* reach. A client that left or whose channel was closed, by whichever thread,
\* is taken out (broadcast_output, client_loop, ClientChannel::run).
OutputArrives ==
    []<>(ended # "no" \/ \A c \in clients : sent[c].upTo >= read)
=============================================================================
