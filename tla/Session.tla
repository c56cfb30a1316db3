------------------------------- MODULE Session -------------------------------
(***************************************************************************)
(* A session on Unix, from the PTY to the terminals of its clients: the    *)
(* master's reader thread (run_master, broadcast_output), the thread of    *)
(* each connection (client_loop, add_client, remove_client), the writer    *)
(* thread of each connection (ClientChannel::run), the attach client that  *)
(* reads the socket (bridge_terminal), and masters of the same name that   *)
(* follow one another.                                                     *)
(*                                                                         *)
(* Output is an interval of byte numbers of one master; a snapshot stands  *)
(* for the screen at one of them. Each action is one critical section or   *)
(* one step outside of them: `lock` is who holds the history mutex, and    *)
(* the clients mutex is held by the reader thread while it is sending.     *)
(* A queue that overflows is closed in the step that finds it full:        *)
(* ClientChannel.tla interleaves the two, and the condition variable.      *)
(*                                                                         *)
(* The app is not part of the repository. It is modelled by what the       *)
(* markers are for (README, Commands): it knows from the marker whether    *)
(* what came before it was a replay or a continuation, so it applies it    *)
(* then, and counts on from the position the marker carries.               *)
(***************************************************************************)
EXTENDS ClientQueue

CONSTANTS
    Terminals,      \* terminals clients attach from, one attach at a time
    Conns,          \* bound: connections ever made, each used once
    LogCapacity,    \* OUTPUT_LOG_BYTES
    ChunkSize,      \* REPLAY_CHUNK_SIZE
    MarkerSize,     \* payload of FRAME_REPLAY_DONE and FRAME_RESUME_DONE
    ReadSizes,      \* how many bytes one read of the PTY returns
    SnapshotSizes,  \* how long a snapshot of the screen may be
    Seeds,          \* output a restored master starts with
    MaxTotal,       \* bound: bytes one master produces
    MaxEpoch,       \* bound: masters that follow one another
    None

ASSUME SessionAssumption ==
    /\ LogCapacity \in Nat
    /\ ChunkSize \in Nat \ {0}
    /\ MarkerSize \in Nat
    /\ ReadSizes \subseteq Nat \ {0}
    /\ SnapshotSizes \subseteq Nat \ {0}
    /\ Seeds \subseteq Nat
    /\ MaxTotal \in Nat
    /\ MaxEpoch \in Nat \ {0}
    /\ "reader" \notin Conns
    /\ None \notin Conns \cup {"reader"}

VARIABLES
    epoch,    \* the running master; its OutputLog has this epoch
    total,    \* bytes of output each master has produced
    lock,     \* holder of the history mutex: None, "reader" or a connection
    clients,  \* MasterState::clients
    reader,   \* the thread that reads the PTY
    pc,       \* the thread of each connection
    request,  \* what the connection asked for before FRAME_ATTACH
    mode,     \* how its attach is answered
    left,     \* bytes of the replay or of the missed output not queued yet
    queue,    \* its ClientQueue
    writing,  \* the frame its writer thread holds, if any
    wire,     \* frames in its socket
    link,     \* the connection each terminal's attach client reads
    live,     \* the marker of this attach has been seen
    pending,  \* what came before the marker
    screen,   \* what the terminal shows
    mark      \* the position the app would resume from

masterVars == <<epoch, total, lock, clients, reader>>
connVars == <<pc, request, mode, left>>
channelVars == <<queue, writing, wire>>
termVars == <<link, live, pending, screen, mark>>
vars == <<masterVars, connVars, channelVars, termVars>>

Epochs == 1..MaxEpoch
Position == [epoch : Epochs, offset : Nat]
Frame == [kind : {"output", "snapshot", "replayDone", "resumeDone"},
          epoch : Epochs, from : Nat, to : Nat, size : Nat]
Byte == Epochs \X Nat
Screen == [epoch : Epochs, base : Nat, bytes : Seq(Byte)]

\* None is none of the values it stands in for.
ASSUME NoneAssumption ==
    /\ None \notin Nat
    /\ None \notin Position
    /\ None \notin Screen

Idle == [pc |-> "idle", todo |-> {}, failed |-> {}, from |-> 0]
NothingPending == [base |-> None, bytes |-> <<>>]

\* A connection whose attach client is still there to read it.
Linked(k) == \E t \in Terminals : link[t] = k

Total == total[epoch]

\* Where the next byte will be written (OutputLog::position).
Here == [epoch |-> epoch, offset |-> Total]

Init ==
    /\ epoch = 1
    /\ total = [e \in Epochs |-> 0]
    /\ lock = None
    /\ clients = {}
    /\ reader = Idle
    /\ pc = [k \in Conns |-> "unused"]
    /\ request = [k \in Conns |-> [replay |-> FALSE, resume |-> None]]
    /\ mode = [k \in Conns |-> "plain"]
    /\ left = [k \in Conns |-> 0]
    /\ queue = [k \in Conns |-> EmptyQueue]
    /\ writing = [k \in Conns |-> <<>>]
    /\ wire = [k \in Conns |-> <<>>]
    /\ link = [t \in Terminals |-> None]
    /\ live = [t \in Terminals |-> FALSE]
    /\ pending = [t \in Terminals |-> NothingPending]
    /\ screen = [t \in Terminals |-> None]
    /\ mark = [t \in Terminals |-> None]

-----------------------------------------------------------------------------
\* The PTY has output.

\* broadcast_output: takes the history mutex, logs the bytes, takes the clients
\* mutex and starts on every client.
ReadOutput(n) ==
    /\ reader.pc = "idle"
    /\ lock = None
    /\ Total + n <= MaxTotal
    /\ lock' = "reader"
    /\ total' = [total EXCEPT ![epoch] = @ + n]
    /\ reader' = [pc |-> "sending", todo |-> clients, failed |-> {},
                  from |-> Total]
    /\ UNCHANGED <<epoch, clients, connVars, channelVars, termVars>>

Output(from, to) ==
    [kind |-> "output", epoch |-> epoch, from |-> from, to |-> to,
     size |-> to - from]

\* `send` accepts the frame.
Accepts(k, f) == ~queue[k].closed /\ Fits(queue[k], f)

\* A mutant: a client that is full misses this chunk and stays.
SendOutputSkips(k) ==
    LET f == Output(reader.from, Total)
    IN  /\ reader.pc = "sending"
        /\ k \in reader.todo
        /\ IF Accepts(k, f)
           THEN queue' = [queue EXCEPT ![k] = Pushed(@, f)]
           ELSE UNCHANGED queue
        /\ reader' = [reader EXCEPT !.todo = @ \ {k}]
        /\ UNCHANGED <<epoch, total, lock, clients, connVars, writing, wire,
                       termVars>>

\* One client is sent the chunk; one that is closed or full has failed.
SendOutput(k) ==
    LET f == Output(reader.from, Total)
    IN  /\ reader.pc = "sending"
        /\ k \in reader.todo
        /\ IF Accepts(k, f)
           THEN /\ queue' = [queue EXCEPT ![k] = Pushed(@, f)]
                /\ reader' = [reader EXCEPT !.todo = @ \ {k}]
           ELSE /\ queue' = [queue EXCEPT ![k] = Closed(@)]
                /\ reader' = [reader EXCEPT !.todo = @ \ {k},
                                            !.failed = @ \cup {k}]
        /\ UNCHANGED <<epoch, total, lock, clients, connVars, writing, wire,
                       termVars>>

\* Both mutexes are released.
SentToAll ==
    /\ reader.pc = "sending"
    /\ reader.todo = {}
    /\ lock' = None
    /\ reader' = IF reader.failed = {} THEN Idle
                 ELSE [reader EXCEPT !.pc = "removing"]
    /\ UNCHANGED <<epoch, total, clients, connVars, channelVars, termVars>>

\* The clients mutex is taken again, for the clients that failed.
RemoveFailed ==
    /\ reader.pc = "removing"
    /\ clients' = clients \ reader.failed
    /\ reader' = Idle
    /\ UNCHANGED <<epoch, total, lock, connVars, channelVars, termVars>>

-----------------------------------------------------------------------------
\* The thread of one connection.

\* A mutant: the epoch of the position is not looked at.
HeldInAnyEpoch(p) ==
    /\ p.offset <= Total
    /\ Total - p.offset <= LogCapacity

\* OutputLog::since would answer. OutputLog.tla shows what it answers with.
Held(p) ==
    /\ p.epoch = epoch
    /\ p.offset <= Total
    /\ Total - p.offset <= LogCapacity

\* FRAME_ATTACH: add_client takes the history mutex and decides how to answer.
Attach(k) ==
    LET asked == request[k]
    IN  /\ pc[k] = "handshake"
        /\ lock = None
        /\ lock' = k
        /\ pc' = [pc EXCEPT ![k] = "filling"]
        /\ \/ /\ asked.resume # None /\ Held(asked.resume)
              /\ mode' = [mode EXCEPT ![k] = "resume"]
              /\ left' = [left EXCEPT ![k] = Total - asked.resume.offset]
           \/ /\ ~(asked.resume # None /\ Held(asked.resume))
              /\ asked.replay
              /\ mode' = [mode EXCEPT ![k] = "replay"]
              /\ \E n \in SnapshotSizes : left' = [left EXCEPT ![k] = n]
           \/ /\ ~(asked.resume # None /\ Held(asked.resume))
              /\ ~asked.replay
              /\ UNCHANGED <<mode, left>>
        /\ UNCHANGED <<epoch, total, clients, reader, request, channelVars,
                       termVars>>

\* The next chunk of n bytes of the missed output or of the snapshot.
Chunk(k, n) ==
    IF mode[k] = "resume"
    THEN Output(Total - left[k], Total - left[k] + n)
    ELSE [kind |-> "snapshot", epoch |-> epoch, from |-> Total, to |-> Total,
          size |-> n]

\* A frame of the answer is queued, or add_client gives up and lets go.
Answer(k, f, next) ==
    IF Accepts(k, f)
    THEN /\ queue' = [queue EXCEPT ![k] = Pushed(@, f)]
         /\ pc' = [pc EXCEPT ![k] = next]
         /\ UNCHANGED lock
    ELSE /\ queue' = [queue EXCEPT ![k] = Closed(@)]
         /\ pc' = [pc EXCEPT ![k] = "leaving"]
         /\ lock' = None

SendChunk(k) ==
    LET n == IF left[k] < ChunkSize THEN left[k] ELSE ChunkSize
    IN  /\ pc[k] = "filling"
        /\ left[k] > 0
        /\ Answer(k, Chunk(k, n), "filling")
        /\ left' = [left EXCEPT ![k] = @ - n]
        /\ UNCHANGED <<epoch, total, clients, reader, request, mode, writing,
                       wire, termVars>>

\* A mutant: the marker goes out ahead of the last chunk.
SendMarkerEarly(k) ==
    LET f == [kind |-> IF mode[k] = "resume" THEN "resumeDone"
                                             ELSE "replayDone",
              epoch |-> epoch, from |-> Total, to |-> Total,
              size |-> MarkerSize]
    IN  /\ pc[k] = "filling"
        /\ left[k] <= 1
        /\ IF mode[k] = "plain"
           THEN /\ pc' = [pc EXCEPT ![k] = "inserting"]
                /\ UNCHANGED <<queue, lock>>
           ELSE Answer(k, f, "inserting")
        /\ UNCHANGED <<epoch, total, clients, reader, request, mode, left,
                       writing, wire, termVars>>

\* FRAME_RESUME_DONE or FRAME_REPLAY_DONE, with the position live output
\* continues from; neither when nothing was asked for, or only a resume that
\* is no longer possible.
SendMarker(k) ==
    LET f == [kind |-> IF mode[k] = "resume" THEN "resumeDone"
                                             ELSE "replayDone",
              epoch |-> epoch, from |-> Total, to |-> Total,
              size |-> MarkerSize]
    IN  /\ pc[k] = "filling"
        /\ left[k] = 0
        /\ IF mode[k] = "plain"
           THEN /\ pc' = [pc EXCEPT ![k] = "inserting"]
                /\ UNCHANGED <<queue, lock>>
           ELSE Answer(k, f, "inserting")
        /\ UNCHANGED <<epoch, total, clients, reader, request, mode, left,
                       writing, wire, termVars>>

\* The client joins the broadcast, and the history mutex is released.
Insert(k) ==
    /\ pc[k] = "inserting"
    /\ clients' = clients \cup {k}
    /\ lock' = None
    /\ pc' = [pc EXCEPT ![k] = "attached"]
    /\ UNCHANGED <<epoch, total, reader, request, mode, left, channelVars,
                   termVars>>

\* The loop ends: before the attach, the peer is gone or HANDSHAKE_TIMEOUT is
\* over; after it, the peer is gone or the channel was closed.
LoopEnds(k) ==
    /\ \/ pc[k] = "handshake"
       \/ pc[k] = "attached" /\ (~Linked(k) \/ queue[k].closed)
    /\ pc' = [pc EXCEPT ![k] = IF @ = "attached" THEN "leaving" ELSE "closing"]
    /\ UNCHANGED <<masterVars, request, mode, left, channelVars, termVars>>

\* remove_client: waits for a broadcast that is under way.
RemoveClient(k) ==
    /\ pc[k] = "leaving"
    /\ reader.pc # "sending"
    /\ clients' = clients \ {k}
    /\ pc' = [pc EXCEPT ![k] = "closing"]
    /\ UNCHANGED <<epoch, total, lock, reader, request, mode, left,
                   channelVars, termVars>>

CloseChannel(k) ==
    /\ pc[k] = "closing"
    /\ queue' = [queue EXCEPT ![k] = Closed(@)]
    /\ pc' = [pc EXCEPT ![k] = "gone"]
    /\ UNCHANGED <<masterVars, request, mode, left, writing, wire, termVars>>

-----------------------------------------------------------------------------
\* The writer thread of one connection.

WriterPops(k) ==
    /\ writing[k] = <<>>
    /\ queue[k].frames # <<>>
    /\ writing' = [writing EXCEPT ![k] = <<Head(queue[k].frames)>>]
    /\ queue' = [queue EXCEPT ![k] = Popped(@)]
    /\ UNCHANGED <<masterVars, connVars, wire, termVars>>

WriterWrites(k) ==
    /\ writing[k] # <<>>
    /\ Linked(k)
    /\ wire' = [wire EXCEPT ![k] = @ \o writing[k]]
    /\ writing' = [writing EXCEPT ![k] = <<>>]
    /\ queue' = [queue EXCEPT ![k] = Counted(@, writing[k][1])]
    /\ UNCHANGED <<masterVars, connVars, termVars>>

\* The peer is gone, the socket is shut down or CLIENT_WRITE_TIMEOUT is over.
WriterFails(k) ==
    /\ writing[k] # <<>>
    /\ writing' = [writing EXCEPT ![k] = <<>>]
    /\ queue' = [queue EXCEPT ![k] = Closed(@)]
    /\ UNCHANGED <<masterVars, connVars, wire, termVars>>

-----------------------------------------------------------------------------
\* Masters that follow one another.

\* The master dies, by a crash, a kill or a reboot, and the next attach starts
\* another one on the name, with what was restored as the start of its output.
Replaced(seed) ==
    /\ epoch < MaxEpoch
    /\ epoch' = epoch + 1
    /\ total' = [total EXCEPT ![epoch + 1] = seed]
    /\ lock' = None
    /\ clients' = {}
    /\ reader' = Idle
    /\ pc' = [k \in Conns |-> IF pc[k] = "unused" THEN "unused" ELSE "gone"]
    /\ queue' = [k \in Conns |-> IF pc[k] = "unused" THEN queue[k]
                                 ELSE Closed(queue[k])]
    /\ writing' = [k \in Conns |-> <<>>]
    /\ UNCHANGED <<request, mode, left, wire, termVars>>

-----------------------------------------------------------------------------
\* The attach client and the app behind it.

\* An attach, asking for a replay, for a resume from where the terminal is, for
\* both, or for neither as the retry of a refused replay does.
Dial(t, k, replay, resume) ==
    /\ link[t] = None
    /\ pc[k] = "unused"
    /\ resume \in {None, mark[t]}
    /\ pc' = [pc EXCEPT ![k] = "handshake"]
    /\ request' = [request EXCEPT ![k] =
                     [replay |-> replay, resume |-> resume]]
    /\ link' = [link EXCEPT ![t] = k]
    /\ UNCHANGED <<masterVars, mode, left, channelVars, live, pending, screen,
                   mark>>

BytesOf(f) == [i \in 1..(f.to - f.from) |-> <<f.epoch, f.from + i>>]

\* FRAME_OUTPUT, before the marker and after it.
ReadFrame(t) ==
    LET k == link[t]
        f == Head(wire[k])
    IN  /\ k # None
        /\ wire[k] # <<>>
        /\ wire' = [wire EXCEPT ![k] = Tail(@)]
        /\ CASE f.kind = "snapshot" ->
                  /\ pending' = [pending EXCEPT ![t].base = f.from]
                  /\ UNCHANGED <<live, screen, mark>>
             [] f.kind = "output" /\ ~live[t] ->
                  /\ pending' = [pending EXCEPT ![t].bytes = @ \o BytesOf(f)]
                  /\ UNCHANGED <<live, screen, mark>>
             [] f.kind = "output" /\ live[t] ->
                  /\ screen' = [screen EXCEPT ![t].bytes = @ \o BytesOf(f)]
                  /\ mark' = [mark EXCEPT ![t].offset = @ + (f.to - f.from)]
                  /\ UNCHANGED <<live, pending>>
             [] f.kind = "replayDone" ->
                  /\ screen' = [screen EXCEPT ![t] =
                                  [epoch |-> f.epoch, base |-> pending[t].base,
                                   bytes |-> pending[t].bytes]]
                  /\ mark' = [mark EXCEPT ![t] = [epoch |-> f.epoch,
                                                  offset |-> f.from]]
                  /\ live' = [live EXCEPT ![t] = TRUE]
                  /\ pending' = [pending EXCEPT ![t] = NothingPending]
             [] f.kind = "resumeDone" ->
                  /\ screen' = [screen EXCEPT ![t].bytes =
                                  @ \o pending[t].bytes]
                  /\ mark' = [mark EXCEPT ![t] = [epoch |-> f.epoch,
                                                  offset |-> f.from]]
                  /\ live' = [live EXCEPT ![t] = TRUE]
                  /\ pending' = [pending EXCEPT ![t] = NothingPending]
        /\ UNCHANGED <<masterVars, connVars, queue, writing, link>>

\* The attach client ends; what is still in its socket is lost.
Unlink(t) ==
    /\ link[t] # None
    /\ link' = [link EXCEPT ![t] = None]
    /\ live' = [live EXCEPT ![t] = FALSE]
    /\ pending' = [pending EXCEPT ![t] = NothingPending]
    /\ wire' = [wire EXCEPT ![link[t]] = <<>>]
    /\ UNCHANGED <<masterVars, connVars, queue, writing, screen, mark>>

\* The person detaches, the SSH connection drops or the app is killed.
Hangup(t) == Unlink(t)

\* The master has shut the socket down, or is gone. The poll loop reads at most
\* one frame before it looks at POLLHUP, so what it has not read by then is lost.
SeesEnd(t) ==
    /\ link[t] # None
    /\ queue[link[t]].closed
    /\ Unlink(t)

-----------------------------------------------------------------------------
ConnNext(k) ==
    \/ Attach(k) \/ SendChunk(k) \/ SendMarker(k) \/ Insert(k)
    \/ LoopEnds(k) \/ RemoveClient(k) \/ CloseChannel(k)

ReaderNext ==
    (\E k \in Conns : SendOutput(k)) \/ SentToAll \/ RemoveFailed

WriterNext(k) == WriterPops(k) \/ WriterWrites(k) \/ WriterFails(k)

Next ==
    \/ \E n \in ReadSizes : ReadOutput(n)
    \/ ReaderNext
    \/ \E k \in Conns : ConnNext(k)
    \/ \E k \in Conns : WriterNext(k)
    \/ \E seed \in Seeds : Replaced(seed)
    \/ \E t \in Terminals : \/ \E k \in Conns, replay \in BOOLEAN,
                                  resume \in {None, mark[t]} :
                                 Dial(t, k, replay, resume)
                            \/ ReadFrame(t)
                            \/ Hangup(t)
                            \/ SeesEnd(t)

Spec == Init /\ [][Next]_vars

-----------------------------------------------------------------------------
\* Types of the master, of its connections and of the terminals.
TypeOK ==
    /\ epoch \in Epochs
    /\ total \in [Epochs -> Nat]
    /\ lock \in Conns \cup {None, "reader"}
    /\ clients \subseteq Conns
    /\ reader \in [pc : {"idle", "sending", "removing"},
                   todo : SUBSET Conns, failed : SUBSET Conns, from : Nat]
    /\ pc \in [Conns -> {"unused", "handshake", "filling", "inserting",
                         "attached", "leaving", "closing", "gone"}]
    /\ request \in [Conns -> [replay : BOOLEAN, resume : Position \cup {None}]]
    /\ mode \in [Conns -> {"plain", "resume", "replay"}]
    /\ left \in [Conns -> Nat]
    /\ queue \in [Conns -> [frames : Seq(Frame), bytes : Nat,
                            closed : BOOLEAN]]
    /\ writing \in [Conns -> Seq(Frame)]
    /\ wire \in [Conns -> Seq(Frame)]
    /\ link \in [Terminals -> Conns \cup {None}]
    /\ live \in [Terminals -> BOOLEAN]
    /\ pending \in [Terminals -> [base : Nat \cup {None}, bytes : Seq(Byte)]]
    /\ screen \in [Terminals -> Screen \cup {None}]
    /\ mark \in [Terminals -> Position \cup {None}]

EndOf(s) == [epoch |-> s.epoch, offset |-> s.base + Len(s.bytes)]

\* A terminal shows one picture and, over it, exactly the bytes that follow it
\* in the same master's output; and the position the app would resume from is
\* the one its terminal has really reached. So it is through every reconnect,
\* replay, resume, change of master and client that was dropped for falling
\* behind (add_client, broadcast_output, since, bridge_terminal).
TerminalExact ==
    \A t \in Terminals :
      IF screen[t] = None
      THEN mark[t] = None
      ELSE /\ mark[t] = EndOf(screen[t])
           /\ \A i \in 1..Len(screen[t].bytes) :
                screen[t].bytes[i] = <<screen[t].epoch, screen[t].base + i>>

\* What is on its way to the client of a connection, in order.
Stream(k) == wire[k] \o writing[k] \o queue[k].frames

\* A client of the broadcast has missed nothing: what is on its way to it ends
\* where the master's output ends, or, with nothing on its way, its terminal is
\* there already. A client that could not be sent a chunk is closed instead
\* (broadcast_output, add_client).
ClientsAreComplete ==
    \A k \in clients :
      ~queue[k].closed /\ ~(reader.pc = "sending" /\ k \in reader.todo) =>
        IF Stream(k) # <<>>
        THEN LET last == Stream(k)[Len(Stream(k))]
             IN  last.epoch = epoch /\ last.to = Total
        ELSE \A t \in Terminals : link[t] = k /\ live[t] => mark[t] = Here

\* The session keeps the promise of TerminalStream.tla: terminals only move
\* forward, by repaints and by exactly the bytes that come next.
Promise ==
    INSTANCE TerminalStream
        WITH Terminals <- Terminals, MaxEpoch <- MaxEpoch, None <- None,
             epoch <- epoch, total <- total, screen <- screen
KeepsPromise == Promise!Spec
=============================================================================
