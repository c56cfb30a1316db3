# Termphin agent: models, checks and proofs

TLA+ modules for `termphin-agent`: what keeps a shell running on a server while
the terminals attached to it come and go. The modules are translated from
`src/*.rs`; `PROJECT.json` maps each definition to the lines it stands for.

    tlc -config MCSession.cfg MCSession.tla    one run
    tlapm SessionProofs.tla                    one module of proofs

## 1. The system

A **session** is a name, a directory below `~/.cache/termphin/sessions`, a
**master** process with a shell on a PTY, and any number of **attach clients**.
An attach finds the master of a name or starts one. The master keeps the state
of the terminal, so a client that comes back sees what it would have seen.

| part | state | operations | meets the others through |
|---|---|---|---|
| output log (`main.rs` OutputLog) | epoch, last 1 MiB, total | push, position, since | history mutex |
| client channel (`unix.rs` ClientChannel) | queue, byte count, closed | send, close, drain, the writer thread | condition variable, socket |
| master (`unix.rs` MasterState, run_master, client_loop) | clients, history, name, directory, flags | reader thread, a thread per connection, persistence thread | mutexes, sockets, PTY |
| viewers (`main.rs` Viewers) | clients by use, with sizes | attached, resized, typed, left | viewers mutex, then `resize` |
| session directories (`unix.rs`) | directory, socket, saved state, `.lock` | attach, start, rename, finish, flush, sweep | file system, flock, readiness pipe |
| attach client (`unix.rs` bridge_terminal) | painted, tolerated errors, RESIZE_PENDING | poll loop, retry without replay | socket, signal |
| detach key (`main.rs` DetachKey) | armed | feed | reads of the terminal |
| attach client (`windows.rs` bridge_terminal) | painted, the detached flag, last size | loop, input thread, resize thread, retry without replay | named pipe, one flag |
| end of a session (`unix.rs` finish, kill_shell, spawn_persistence_thread) | exiting, shell_killed, MASTER_TERM_REQUESTED | two callers of finish, kill, SIGTERM | atomics, the clients' queues, waitpid |
| resize reports (`main.rs` strip_resize_reports) | none; each read on its own | strip | the output of ConPTY |
| Windows master (`windows.rs`) | the same, pending listener, pty_closed | accept loop, rename, kill, watcher, reader | named pipe, ConPTY |
| console decoder (`win32_codec.rs`) | pending, high surrogate | feed | reads of the console |
| terminal state (`main.rs` History) | vt100 parser | push, resize, snapshot | history mutex |

**What is hard.** Output arrives while a replay is being queued. Queues
overflow, writers fail and connections end while a broadcast walks the list.
Clients resize from their own threads. Processes race for a name, die holding a
lock, are renamed while others have copied their path, and leave files behind
that are swept later. Signals arrive between a test and a wait. Reads cut
sequences anywhere. On Windows, two threads of an attach write to the pipe that
a third one reads; ends of the shell, of ConPTY and of the process
are three events. On Unix a session ends by its shell, by a kill,
by a failing accept loop or by SIGTERM, and two threads may call `finish` while
clients are still written to. `PROJECT.json` lists these under `hazards`, each at its line.

Mutexes are taken in one order: name, clients; history, clients, queue; flock,
directory, name. There is no cycle, so no module looks for a deadlock of
mutexes; what may wait without end (flock, the condition variable, poll) is
modelled.

**What makes each part correct.** The log: the newest bytes, answered exactly.
The channel: nothing out of order, nothing lost without the channel being
closed, no thread left behind. The session: no terminal ever shows a gap, a
duplicate or a mixture of two masters, and the position it would resume from is
where it is. Viewers: the size is the last user's. Directories: nobody deletes
a living session, and a name leads to its master. The attach client: it never
starts over after it has written, it sends what was typed, and it ends. Decoders: cuts do not matter.
The end of a session: a kill and SIGTERM end it, and where the reader of the PTY
ends it, whoever was there has the last output and then the exit frame. The Windows master: a session whose shell
is gone ends, and says so.

## 2. Modules

| module | models | source |
|---|---|---|
| `OutputLog` | the log, masters that follow one another, a position held by a client | main.rs 83-195 |
| `ClientQueue` | the critical sections on a client's queue, as operators | main.rs 866, unix.rs 681-758 |
| `ClientChannel` | senders, writer, drain and close around one queue | unix.rs 654-759 |
| `Session` | a master, its connections, its writers, the attach clients and the app | unix.rs 196-224, 777-877, 1021-1085, 1190-1311 |
| `TerminalStream` | what a session promises its terminals (abstract) | README, Commands |
| `SessionInvariant` | the inductive invariants of `Session` | |
| `Viewers` | viewers, and `resize` on Unix and on Windows, which may fail | main.rs 548-595, unix.rs 810-916, windows.rs 923-951 |
| `SessionDirs` | attaches, masters, renames, flushes, sweeps, directories and the lock | unix.rs 120-416, 418-498, 924-1116, 1407-1432 |
| `AttachClient` | the poll loop and the retry, by a person and by the app, against masters of this and of earlier versions | unix.rs 149-224, 785-808, 1190-1311 |
| `Teardown` | both callers of `finish`, a kill, SIGTERM, a held PTY, the clients meanwhile | unix.rs 590-627, 681-758, 777-877, 951-1019, 1388-1421 |
| `DetachKey` | the detach key, as operators, and what it means of all that was typed | main.rs 480-510 |
| `Win32Input` | the decoder of console input | win32_codec.rs 12-83 |
| `ResizeReports` | the filter of ConPTY's resize reports | main.rs 518-546, windows.rs 1204-1218 |
| `WindowsAttach` | the loop, the input thread and the resize thread of an attach, its retry, and the connection at the master, deaf or not | windows.rs 740-752, 1068-1119, 1489-1551, 1569-1679 |
| `WindowsMaster` | accept loop, the connections it counts, rename, kill, watcher, reader, finish | windows.rs 441-461, 960-1060, 1141-1285 |
| `MCSession`, `MCViewers`, `MCSessionDirs` | the symmetry of their runs | |
| `MCWin32Input` | the two filters of Windows in one run | |
| `SharedProofs` | proofs about `OutputLog` and `Viewers` | |
| `SessionProofs` | proofs about `Session`, and that it implements `TerminalStream` | |
| `ClientChannelProofs`, `TeardownProofs`, `SessionDirsProofs` | proofs about the module they are named after | |
| `AttachProofs` | proofs about `AttachClient` and `DetachKey` | |
| `WindowsProofs` | proofs about `WindowsMaster`, `WindowsAttach`, `Win32Input` and `ResizeReports` | |
| `CommonLemmas` | induction over natural numbers, the existence of recursive functions, what the operations on a queue return | |

Components that share a module of proofs do not share names: hence `LogInit` and
`LogSpec`, `AttachInit` and `AttachSpec`, `DecoderSpec`, `OutputSpec`, beside the
`Init` and `Spec` of the component that comes first.

`Session` and `ClientChannel` both extend `ClientQueue`: the channel's module
interleaves a `send` that overflows with everything else, the condition
variable and `drain`; the session's takes that `send` as one step and has whole
connections, masters and terminals instead. `Teardown` extends it too: it has
the broadcast, a replay and the writer as one step each, and takes apart what
`finish` does around them. `Session` implements `TerminalStream` by instantiating
it (`Promise`): the masters, their output and what the terminals show are the
session's own, and everything in between is a stutter. `AttachClient` extends
`DetachKey` and feeds it the reads of its loop; `WindowsAttach`, whose reads go
through the same DetachKey, takes its result.

**How code becomes actions.** One action is one critical section, one system
call, or one step of a thread outside of both; where a lock is held across
several of them, a variable says who holds it (`lock` in `Session`, the history
mutex; `lock` in `SessionDirs`, the flock, which belongs to an open file and so
to several processes; `sizing` in `Viewers`, the size mutex of Windows). A lock
taken and released inside one action needs no variable. Early returns and
errors are disjuncts. Data is reduced to what properties tell apart: output is
an interval of byte numbers of one master, a snapshot a point in it, a frame its
kind and length, a directory whose socket and whose saved state are in it.

**External**, modelled by how the code uses it: the app behind the attach
client (`Session`: it applies what it got before a marker when it sees the
marker, and counts on from the marker's position), the peer of a socket, the
person, flock, poll, condition variables and the named pipe.

## 3. Runs

Every property of a passing run has a mutant under `mutants`: a plausible bug
in one definition, under which the same run finds the property violated.

| run | shows | bounds, and why they suffice |
|---|---|---|
| `output_log` | `HoldsNewest`, `ResumeExact` | capacities 0, 1, 3 and pushes of 1, 2, 4: below, at and above, twice round; three masters |
| `client_channel` | `BacklogExact`, `LeavesInOrder`, `DrainFlushesOutput`; `EveryFrameSettles`, `WriterEnds` | two senders, three frames of 0, 1, 2 against a backlog of 2: overflow with frames queued and one in flight, an empty frame, a full socket |
| `session` | `TerminalExact`, `ClientsAreComplete`, `KeepsPromise`, and `PromiseInv`, which is proved inductive | two connections of one terminal, three bytes, a log of two, a backlog of three, two masters: every kind of attach, refused resumes, overflow in replay and in broadcast; with symmetry |
| `session_end` | `LastWords`; `KillEnds`, `TermEnds`, `OutputArrives` | two clients, one chunk after the replay against a backlog of one, with and without a job that keeps the PTY, one SIGTERM: clients that overflow, fail, leave and attach at every step of two callers of `finish`, whichever comes first |
| `viewers` | `RecentByUse`, `RightUnlessOverlapped`; `ScreenFollows` on Windows | both builds, three clients, three sizes, four frames: the one in use leaves and two others remain; a size that is overtaken or fails has one decided on after it |
| `session_dirs` | `DeletesOnlyTheDead`; `NamesAreKept` | two names, two masters, two attaches, a rename, a sweep, kills, crashes and late masters; with symmetry |
| `attach_client` | `RetryStartsClean`, `CutsDoNotMatter`, `AttachEnds` | every answer to every kind of attach, a frame of output, a signal, all inputs of three bytes in every cut: two prefix keys and a `d` |
| `win32_input` | `CutsDoNotMatter`, `OnlySequencesWait`; `OnlyReportsAreDropped` | all inputs of up to six characters, reads of one or two, and bodies of up to three, so that one that parses reaches the limit; all outputs of up to six characters, which is one more than the shortest report, in up to two reads of any size |
| `windows_master` | `ExitIsTold`, `SessionEnds` | three connections of which two at a time, those of cancelled calls counted in, two renames |
| `windows_attach` | `RetryStartsClean`, `DetachKeepsInput`, `DetachEnds`, `ResizesArrive` | every answer to an attach, a frame of output, two of text and detach keys, two changes of the size: text ahead of a detach key in one read or in two, a console that changes before the threads start and changes back, a connection that ends, fails or becomes deaf at any moment |
| `session_dirs_lock`, `attach_client_exit` | disagreements, below | the smallest in which they show |

Bounds that are not the code's: `MaxTotal`, `MaxEpoch`, `Conns`, `MaxSends`,
`MaxEvents`, `MaxRead`, `MaxInput`, `MaxChars`, `MaxText`, `MaxOutput`, `MaxAttaches`, `MaxSignals`, `MaxChanges`,
`MaxRenames`, and the numbers of masters, attaches, renames and sweeps in
`SessionDirs`. At a bound nothing more is produced or started, so the runs do
not look for deadlock (`CHECK_DEADLOCK FALSE`), but for `OutputLog`, whose
`Hand` is always possible.

**Fairness.** Threads and processes that can run do run (weak fairness). Steps
that wait for a mutex or the flock get strong fairness, since the code relies on
locks that starve nobody. A write ends, if only by CLIENT_WRITE_TIMEOUT. Nothing
makes a shell write or exit, a peer read, or a person attach, type or leave. An
attach client that is there reads what it is sent, and in `WindowsAttach` a
master that is there reads what it is sent. The thread of a cancelled call ends, since
there is nobody on its pipe. In `Teardown` one weak fairness
covers all of the master: none of its steps can be taken for ever without
anything from outside, and outside steps are bounded, so that each that stays
possible is taken. Only a shell that was sent SIGKILL has to exit; a job may keep
the PTY for ever.

### Disagreements with what is documented

Two have a run that expects a violation; `findings` quotes the line and tells
the story.

| run | property | in short |
|---|---|---|
| `session_dirs_lock` | `AttachReturns` | a forked master keeps the creation lock of an attach that died |
| `attach_client_exit` | `ExitIsDelivered` | frames that arrive with the hang-up are lost after the first |

What follows was seen while modelling. The modules behave this way, and the
properties of the passing runs make an exception for it or do not speak of it;
no run is spent on it.

- `drain` counts payload bytes and does not wait for a frame that has none,
  FRAME_EXIT among them (unix.rs 716, against its comment at 710).
- An attach that asks to resume and not to replay, from a position that is gone,
  gets neither a replay nor a marker (unix.rs 796, against README.md 134-137).
- Two clients that are heard at once may have their sizes applied in the other
  order; on Unix the screen may then also differ from the PTY (unix.rs 852, 905,
  against README.md 94 and CHANGELOG.md 42). A size that cannot be applied ends
  the connection of its client and is not tried again (unix.rs 905). In both cases
  `RightUnlessOverlapped` excepts the size until another one is decided on alone;
  a screen that differs is excepted from there on, since a size the PTY already
  has does not reach the screen.
- An attach at the size the terminal has raises no SIGWINCH (unix.rs 831,
  against README.md 141-144).
- A sweep can remove a directory that came alive since its probe (unix.rs 1113,
  against 1102); an exception of `NamesAreKept`.
- A flush that is under way while `finish` removes the directory leaves it
  behind (unix.rs 1016, against README.md 30).
- An attach that fails to start a master has removed what there was to restore
  (unix.rs 274, against main.rs 200).
- A master that gets ready after its attach gave up on it has no directory, and
  its `finish` or its renames act on whatever has its name by then (unix.rs
  399); an exception of `DeletesOnlyTheDead` and `NamesAreKept`.
- When the accept loop fails and comes to `finish` first, it does not wait for the
  thread that reads the PTY: clients get FRAME_EXIT ahead of the last output, and
  the process may be gone before they get the rest (unix.rs 626, 991);
  `LastWords` excepts such sessions. When it comes second, it waits for the shell
  only and may end the process while the reader is still sending FRAME_EXIT or
  waiting for the queues (unix.rs 990, 1008); `LastWords` then is about the clients
  that the reader was through with.
- A client that attaches after `finish` has copied the list gets no FRAME_EXIT
  (unix.rs 992-998); `LastWords` is about those who were there.
- After a kill a session stays listed as long as a job in another process group
  keeps the PTY open: SIGHUP and SIGKILL go to the shell's group only (unix.rs
  957, 963); `KillEnds` excepts it.
- The persistence thread ends when `finish` starts (unix.rs 1418). From then on
  SIGTERM does no more than interrupt a waitpid of the thread it comes to; a
  `finish` that waits for a shell that lives without its PTY goes on waiting if
  it comes to another. `TermEnds` excepts it.
- A SIGWINCH between the look at the flag and `poll` is forwarded only when
  something else happens (unix.rs 1204-1224).
- A retry without a replay starts with a new DetachKey: a prefix key that was
  the last thing typed before it is forgotten (unix.rs 182-183).
- A read that ends with the ESC of a sequence makes the decoder pass the rest on
  as text (win32_codec.rs 24); an exception of `CutsDoNotMatter`.
- So does a read that ends ahead of the `_` of a sequence whose body has exactly
  MAX_BODY_LEN characters: whole, it is decoded if it parses (six numbers of up to
  ten digits, or with leading zeros, are as long), cut there, it is not waited for
  (win32_codec.rs 37-46); an exception of `CutsDoNotMatter`.
- A rename while the accept loop has copied the old name and does not wait yet
  cancels nothing, and the session goes on listening under the old name
  (windows.rs 984, against 808-810).
- A kill on Windows marks the session as ending with the flag by which `finish`
  decides to tell its clients, so nobody is sent FRAME_EXIT (windows.rs 1033,
  against CHANGELOG.md 27); `ExitIsTold` is about sessions that end by themselves.
- On Windows the input thread and the resize thread of an attach write frames in
  two writes each, and nothing keeps one frame out of the other
  (windows.rs 1608, 1632). `DetachEnds` and `ResizesArrive` except it.
- When an attach on Windows starts over, the input thread of the first one is
  still blocked in ReadFile and takes what is typed next (windows.rs 1493,
  against 1583-1585); a detach key that the first one read is forgotten.
- `close` on Windows cancels only a read that is pending. A connection whose
  thread is elsewhere at that moment goes on with a channel that is closed
  (`ClosesUnheard`): input and sizes still arrive, but the status that the detach
  key asks for is not sent, and the attach does not end (windows.rs 740-752).
  `DetachEnds` excepts it.
- On Windows the creation lock is dropped as soon as the master's process was
  started, and the first instance of a pipe is not asked for: an attach that
  comes before the master listens starts a second master on the same name
  (windows.rs 1385, against README.md 118).
- `list` on Windows returns the error of the first session it cannot write to,
  without the others (windows.rs 1455, against CHANGELOG.md 26).

## 4. Proofs

Every invariant and every safety property of the passing runs is stated by a
theorem (`theorems` in `PROJECT.json` lists them), for every value of the
constants.

`SharedProofs`, the log, for every capacity, push size and number of masters:
`LogTypes`, `LogHoldsNewest` and `ResumeIsExact`. The invariant adds that a
position that was handed out lies in its master's output; a push is a lemma of
its own (`PushKeepsNewest`), over the arithmetic of the two cuts it makes
(`TrimArithmetic`).

`SharedProofs`, the viewers, for any clients and sizes: `ViewersTypes`,
`ListByUse`, `SizeIsRight` and `ScreenKeepsUp`. The list is ordered by the time of
the last use, and no two entries have the same (`ListInv`), which is also why it
is no longer than there are clients. `SizeIsRight` rests on two invariants. As
long as the last size to apply came alone and did not fail, whatever went before
it, at most one thread is in `resize`, what it wants is the size of the last
entry, and when none is the PTY has that size (`SizeInv`). And if no two sizes
were ever applied at once, the screen has the size of the PTY but in the one step
between the two (`ScreenInv`), also when the PTY could not be set. `ScreenKeepsUp`
holds on Windows whether or not anything overlaps, by the size mutex: whoever
changes the PTY or the screen is its only holder, and while nobody does the two
agree (`MutexInv`).

`SessionProofs`, for every number of terminals, connections and masters, every
limit and every length: `SessionTypeCorrect`, `SessionInvariantHolds` and
`TerminalsStayExact`. `TerminalExact` speaks of what a terminal has shown and
says nothing of what is on its way, so it is not inductive. `IInv` adds, for a
terminal and the connection it reads:

- what the terminal holds back until the marker is what its kind of attach
  allows (`Received`);
- the frames in the socket, in the writer's hands and in the queue, in this
  order, follow one another without a gap and start where the terminal is
  (`Fitting`);
- what the master may queue next continues the last of them (`Due`,
  `Continues`). It is here that the history mutex matters: between the snapshot
  and the insertion, and during a broadcast, `total` stands still for the
  connection that is due (`ReaderInv`, `ConnInv`);
- an attach that was not answered asks to resume from where its terminal is
  (`Unanswered`).

The proof has a lemma for each action; those that only move a frame along the
stream (a pop, a write, a read) share the lemmas on its front and its back. The
assumptions are those of `Session` and `ClientQueue` on the constants, and that
`None` is none of the values it stands beside.

That the session keeps its promise, for the same: `PromiseInvHolds`,
`ClientsStayComplete` and `SessionKeepsPromise`. `IInv` says that the stream fits its terminal; that a
terminal never goes back, and that a client of the broadcast that nobody reads
misses nothing, needs more. `PromiseInv` adds:

- what a terminal has reached, and every frame on its way, is output there has
  been (`MarksInv`, `InOrder`);
- no frame is behind what its terminal shows, a replay's from a master that came
  later included (`NoneBehind`). A plain attach is not answered and its terminal
  does not show what it receives, so it is left out;
- the stream of every connection, read or not, ends where its next frame starts
  (`EndsInv`).

Each step of a master keeps a connection's stream, cuts it at its end, or sends
one frame that is due (`Smooth`; the lemmas on `IInv` show which), so
that these parts are proved once for all of them (`SmoothStep`). Then `Next` maps
to `TerminalStream`: reading the PTY is `Produce`, a new master `NewMaster`, a
marker after a replay `Repaint`, output after the marker and a marker after a
resume `Extend`, and every other step a stutter (`NextPromised`).

`ClientChannelProofs`, for any senders, frames and backlog: `ChannelTypes`,
`ChannelKeepsOrder`, `ChannelCountsExactly` and `DrainLeavesNothing`.
`LeavesInOrder` speaks of what has left. `OrderInv` adds where the rest is:
accepted frames are numbered as they come (`Numbered`), the first of them have
left and the next one is in the writer's hands (`FirstLeft`), and while the
channel is open the queue is exactly the others (`OthersWait`). `BytesInv` adds
the count: the sum of the sizes in the queue and of the frame in the writer's
hands, from when it is taken to when it is counted out. Sums are functions
defined over the length of the queue; that a frame at either end adds or takes
its own size is proved by induction (`CommonLemmas`). `DrainInv` then says that
what was accepted before the drain began is numbered among all that was
accepted; by `OrderInv` the part of it that has not left is in the queue or in
the writer's hands, so that a count of zero on an open channel leaves nothing but
frames without a payload.

`TeardownProofs`, for any clients, output and limits: `TeardownTypes` and
`LastWordsArrive`. It is about sessions in which the reader is the first to call
`finish`; the accept loop may come second, at any moment, or not at all. From the
first call on (`ByReader`) `EndingInv` says in which order `finish` goes (`InTurn`)
and, for a client that was there and stays, what has been queued for it so far:
output up to what was read, then one exit frame, nothing after it, and an empty
queue once its drain is over (`Words`). The second caller finds the flag `exiting`
set, so it sends nothing and takes no client from the first
(`SecondFinishKeeps`). But it goes on to end the process: what is promised then is
that everyone the first was through with has the last words. Without a second
caller that is everyone who was there.

`SessionDirsProofs`, for any names, attaches, masters, renames and sweeps, any
faults: `DirsTypes`, `OnlyTheDeadAreDeleted` and `NamesKept`. What was found dead
under the lock must stay dead until it is deleted (`DeadStayDead`). It does
because a socket comes to be only when a master binds or moves its directory, and
a master that can do so has the lock open itself: a new one from its fork until
it is ready (`NewHoldsLock`), a rename from its probe to its move, and then nobody
else is there (`LockAlone`). The one that does not is a master whose attach gave
up on it, and `Orphan` names it. A flock belongs to an open file: the proof is
about the set of processes that have it open, and an attach that was killed
leaves it to its master. `NamesKept` then goes through the steps: whoever
deletes or moves a directory in which a live master listens is an orphan's
deleter, or one of the exceptions in `MayLose`.

`AttachProofs`, for any input, any cut of it into reads and any run of frames:
`AttachTypes`, `RetryIsClean` and `InputIsWhole`. `CutsDoNotMatter` compares what
`DetachKey` did read by read with what the whole input means, where a detach key
is an odd run of prefix keys and a `d`. The lemmas take `feed` byte by byte and
show that the parity of the run that precedes a byte is what `armed` is. They
are about sequences of any length, by induction over their length. In the loop,
`LoopInv` adds that only the first attach asks for a replay and that what was
written was written by an attach up to this one; then an attach that starts over
follows one that wrote nothing.

`WindowsProofs`, the master, for any connections and renames: `MasterTypes` and
`EndIsTold`. `EndInv`: unless a kill came first, the end has one order (the shell,
ConPTY, the reader, the clients), and nobody but the reader ends the process.

`WindowsProofs`, the attach, for any input, sizes and frames: `AttachTypes`,
`StartsOverClean` and `InputIsKept`. Three threads and a pipe meet here. `RetryInv`
is that of the Unix attach. `InputIsKept` needs to know where the text is that the
input thread took: `PipeInv` counts it along the pipe (`Counts`, a running sum) and
says that all of it has been received, is queued or is in the thread's hands;
that the request for the status, by which an attach asks to end, is queued behind
all of it; and that the answer comes when what is ahead of the request has been
received. A pipe in which the two writers' frames were mixed is excepted, as in
the model.

`WindowsProofs`, the filters, for input and output of any length: `DecodesWhole`,
`SequencesWait` and `DropsReports`. The decoder is a loop of turns that each take
one unit off the input or wait. A turn on a longer input is the same turn, but
where it waits; what a read leaves is the start of a sequence and shorter than
the longest (`Left`). So reading two pieces is reading both at once, by downward
induction over the loop's position. It holds for any limit of a body, 40 in the
code, and excepts two cuts (`Parts`): between an ESC and its `[`, and ahead of the
`_` of a sequence that parses and whose body has exactly that many characters. The
proof shows that they are the only ones: elsewhere a turn that does not wait takes
what it would take of the longer input. For the reports: no report begins inside another one, so that
the loop of `strip` takes out the ones a reader of the whole output would see, and
a cut that no report spans makes no difference (`StripsReports`, `StripJoins`).

Induction over natural numbers is `CommonLemmas`' (`LeastNatural`,
`ByInduction`, `DownFrom`): a set of numbers that has 0 and the successor of each
of its members is `Nat`, from the well-foundedness of `Nat`. It needs no
parameter that is an operator, so all provers can use it. Recursion in the
modules is a function over an interval, whose existence is proved the same way
(`RecursionExists`, `DescentExists`).

Assumed, and used in these: that `None` is none of the values it stands beside
(a directory included), that attaches, masters and renames are different things,
and that limits are natural numbers.

Only model-checked: liveness (`EveryFrameSettles`, `WriterEnds`, `KillEnds`,
`TermEnds`, `OutputArrives`, `AttachEnds`, `SessionEnds`, `DetachEnds`,
`ResizesArrive`). It holds under fairness only, and fairness speaks of
ENABLED, which TLAPS does not reason about here.

## 5. Not modelled

- The vt100 screen and what a snapshot is made of: the state is the vt100
  crate's, and `History` concatenates what it formats. A snapshot is a point in
  the output here, and that it restores the screen is the crate's to promise.
- Frame encoding, argument parsing, pickers, the format of `list`, the contents of
  restored files, reading the shell's directory: sequential, with unit tests.
- Windows' own channels and broadcast: line for line the Unix ones, but for the
  borrowed handle of the pipe. What a write to a handle that was closed under it
  does is the system's.
- The creation lock and the list of Windows: which of two pipes of one name a
  client gets is the system's choice, and a sweep or a list is one loop without
  state of its own. What was seen there is in section 3.
- The wrappers around ConPTY, pipes and ACLs; scripts and build.

## 6. Plan

Done, in the order of importance: log, channel, session with its promise, their
proofs and the refinement, viewers, directories, attach client, decoders, the
Windows master, the Windows attach, the end of a session, the resize reports.

Every safety property of the runs is proved. What would add most from here: that
`Session`'s one step for a `send` is what `ClientChannel` does in several (the
channel as an implementation of the session's queue, condition variable
included); the same for the drain in `Teardown`; and, of what section 3 only
reports, the second master on a name of Windows, once the order in which its
pipe instances answer is fixed by something in the code.
