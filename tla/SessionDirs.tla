------------------------------ MODULE SessionDirs ------------------------------
(***************************************************************************)
(* Names, directories and masters on Unix: attach processes that find or   *)
(* start the master of a name (connect_or_create, spawn_master), masters   *)
(* that start, save their state, are renamed, finish or die                *)
(* (master_process, spawn_persistence_thread, rename, finish), and `list`, *)
(* which sweeps what dead masters left (sweep_abandoned_sessions).         *)
(*                                                                         *)
(* A directory is what is in it: the socket of a master and what a master  *)
(* saved. A path is a name, so whoever copied a path before a rename goes  *)
(* on to use whatever has that name by then. remove_dir_all is one step,   *)
(* except in `finish`, whose own process writes into the directory it      *)
(* removes; there the entries go first and the directory after them.       *)
(*                                                                         *)
(* The flock on `.lock` belongs to an open file: `lock` is the set of      *)
(* processes that have the locked one open. A forked master is one of them *)
(* and never closes it; LOCK_UN by any of them releases it for all.        *)
(***************************************************************************)
EXTENDS FiniteSets

CONSTANTS
    Names,      \* session names
    Masters,    \* bound: masters ever started
    Attachers,  \* bound: attach processes, one attach each
    Renamers,   \* bound: FRAME_RENAME requests
    Sweepers,   \* bound: directories looked at by a `list`
    Faults,     \* what may go wrong, of AllFaults
    None

\* A process is killed while it attaches; a master dies without `finish`; a
\* master needs longer than MASTER_READY_TIMEOUT_MS.
AllFaults == {"killed", "crash", "late"}

ASSUME SessionDirsAssumption ==
    /\ Faults \subseteq AllFaults
    /\ None \notin Names \cup Masters
    /\ Attachers \cap Masters = {}
    /\ Renamers \cap (Masters \cup Attachers) = {}

VARIABLES
    dir,      \* the directory of each name, None when there is none
    lock,     \* who has the locked lock file open, {} when it is not locked
    pc,       \* each attach
    name,     \* the name it attaches to
    child,    \* the master it started
    st,       \* each master's process
    ready,    \* the master has written its readiness byte
    path,     \* MasterState::directory
    doomed,   \* the path `finish` copied
    flush,    \* the persistence thread: the path it copied, or where it is
    rename,   \* each rename: where it is, in which master, to which name
    sweep     \* each sweep: where it is, and of which name

dirVars == <<dir, lock>>
attachVars == <<pc, name, child>>
masterVars == <<st, ready, path, doomed, flush>>
vars == <<dirVars, attachVars, masterVars, rename, sweep>>

Dir == [socket : Masters \cup {None}, saved : BOOLEAN, stale : BOOLEAN]
EmptyDir == [socket |-> None, saved |-> FALSE, stale |-> FALSE]

ASSUME NoneIsNoDirectory == None \notin Dir

\* The states in which a master's process has a socket that accepts.
Serving == {"bound", "running", "finishing", "removing", "removed"}

\* probe_socket: a master accepts on the socket in the name's directory.
\* Anything else is Absent, or Unknown when it is the connecting that failed.
Listening(n) ==
    /\ dir[n] # None
    /\ dir[n].socket # None
    /\ st[dir[n].socket] \in Serving

\* The lock is released.
Unlocked == lock' = {}

Init ==
    /\ dir = [n \in Names |-> None]
    /\ lock = {}
    /\ pc = [c \in Attachers |-> "idle"]
    /\ name = [c \in Attachers |-> None]
    /\ child = [c \in Attachers |-> None]
    /\ st = [m \in Masters |-> "unused"]
    /\ ready = [m \in Masters |-> FALSE]
    /\ path = [m \in Masters |-> None]
    /\ doomed = [m \in Masters |-> None]
    /\ flush = [m \in Masters |-> "off"]
    /\ rename = [r \in Renamers |-> [pc |-> "idle", by |-> None, to |-> None]]
    /\ sweep = [s \in Sweepers |-> [pc |-> "idle", of |-> None]]

-----------------------------------------------------------------------------
\* An attach.

Go(c, there) == pc' = [pc EXCEPT ![c] = there]

StartAttach(c, n) ==
    /\ pc[c] = "idle"
    /\ Go(c, "probing")
    /\ name' = [name EXCEPT ![c] = n]
    /\ UNCHANGED <<dirVars, child, masterVars, rename, sweep>>

\* The first probe, without the lock.
ProbeFirst(c) ==
    /\ pc[c] = "probing"
    /\ \/ Listening(name[c]) /\ Go(c, "attached")
       \/ ~Listening(name[c]) /\ Go(c, "locking")
       \/ Go(c, "failed")
    /\ UNCHANGED <<dirVars, name, child, masterVars, rename, sweep>>

LockToCreate(c) ==
    /\ pc[c] = "locking"
    /\ lock = {}
    /\ lock' = {c}
    /\ Go(c, "reprobing")
    /\ UNCHANGED <<dir, name, child, masterVars, rename, sweep>>

\* A mutant: the name is not probed again once the lock is held.
ProbeOnlyOnce(c) ==
    /\ pc[c] = "reprobing"
    /\ Go(c, "clearing")
    /\ UNCHANGED <<dirVars, name, child, masterVars, rename, sweep>>

\* The second probe, with it.
ProbeAgain(c) ==
    /\ pc[c] = "reprobing"
    /\ \/ Listening(name[c]) /\ Go(c, "attached") /\ Unlocked
       \/ ~Listening(name[c]) /\ Go(c, "clearing") /\ UNCHANGED lock
       \/ Go(c, "failed") /\ Unlocked
    /\ UNCHANGED <<dir, name, child, masterVars, rename, sweep>>

\* What a dead master left is loaded and removed, and a new directory made.
Clear(c) ==
    /\ pc[c] = "clearing"
    /\ Go(c, "forking")
    /\ dir' = [dir EXCEPT ![name[c]] = EmptyDir]
    /\ UNCHANGED <<lock, name, child, masterVars, rename, sweep>>

\* spawn_master forks; the child has the lock file open as well.
Fork(c, m) ==
    /\ pc[c] = "forking"
    /\ st[m] = "unused"
    /\ Go(c, "waiting")
    /\ child' = [child EXCEPT ![c] = m]
    /\ st' = [st EXCEPT ![m] = "starting"]
    /\ path' = [path EXCEPT ![m] = name[c]]
    /\ lock' = lock \cup {m}
    /\ UNCHANGED <<dir, name, ready, doomed, flush, rename, sweep>>

\* A mutant: the lock file is closed here, and not unlocked.
SpawnedAndCloses(c) ==
    /\ pc[c] = "waiting"
    /\ ready[child[c]]
    /\ Go(c, "connecting")
    /\ lock' = lock \ {c}
    /\ UNCHANGED <<dir, name, child, masterVars, rename, sweep>>

\* The readiness byte is there.
Spawned(c) ==
    /\ pc[c] = "waiting"
    /\ ready[child[c]]
    /\ Go(c, "connecting")
    /\ Unlocked
    /\ UNCHANGED <<dir, name, child, masterVars, rename, sweep>>

GivesUp(c, there) ==
    /\ ~ready[child[c]]
    /\ Go(c, there)
    /\ dir' = [dir EXCEPT ![name[c]] = None]
    /\ Unlocked
    /\ UNCHANGED <<name, child, masterVars, rename, sweep>>

\* The master ended without it, or has not sent it in time; either way the
\* directory is removed.
SpawnFails(c) ==
    /\ pc[c] = "waiting"
    /\ st[child[c]] = "exited"
    /\ GivesUp(c, "failed")

SpawnTooLate(c) ==
    /\ "late" \in Faults
    /\ pc[c] = "waiting"
    /\ st[child[c]] # "exited"
    /\ GivesUp(c, "late")

\* Forty tries to connect, until one succeeds.
Connect(c) ==
    /\ pc[c] = "connecting"
    /\ Go(c, IF Listening(name[c]) THEN "attached" ELSE "failed")
    /\ UNCHANGED <<dirVars, name, child, masterVars, rename, sweep>>

\* The SSH connection drops, and the attach dies of SIGHUP.
AttacherKilled(c) ==
    /\ "killed" \in Faults
    /\ pc[c] \in {"locking", "reprobing", "clearing", "forking", "waiting"}
    /\ Go(c, "killed")
    /\ lock' = lock \ {c}
    /\ UNCHANGED <<dir, name, child, masterVars, rename, sweep>>

AttachNext(c) ==
    \/ ProbeFirst(c) \/ LockToCreate(c) \/ ProbeAgain(c) \/ Clear(c)
    \/ \E m \in Masters : Fork(c, m)
    \/ Spawned(c) \/ SpawnFails(c) \/ SpawnTooLate(c) \/ Connect(c)

-----------------------------------------------------------------------------
\* A master.

\* A mutant: the persistence thread outlives them.
ExitButFlush(m) ==
    /\ st' = [st EXCEPT ![m] = "exited"]
    /\ UNCHANGED flush
    /\ rename' = [r \in Renamers |->
                    IF rename[r].by = m THEN [rename[r] EXCEPT !.pc = "done"]
                                        ELSE rename[r]]
    /\ lock' = lock \ ({m} \cup {r \in Renamers : rename[r].by = m})

\* Its threads end with its process, and the files it has open are closed.
Exit(m) ==
    /\ st' = [st EXCEPT ![m] = "exited"]
    /\ flush' = [flush EXCEPT ![m] = "off"]
    /\ rename' = [r \in Renamers |->
                    IF rename[r].by = m THEN [rename[r] EXCEPT !.pc = "done"]
                                        ELSE rename[r]]
    /\ lock' = lock \ ({m} \cup {r \in Renamers : rename[r].by = m})

\* The directory mutex is held by a rename from its lock on.
DirectoryFree(m) ==
    \A r \in Renamers :
      ~(rename[r].by = m /\ rename[r].pc \in {"probing", "clearing", "moving"})

\* UnixListener::bind needs the directory, and no socket file in it.
MasterBinds(m) ==
    /\ st[m] = "starting"
    /\ dir[path[m]] # None
    /\ dir[path[m]].socket = None
    /\ dir' = [dir EXCEPT ![path[m]].socket = m]
    /\ st' = [st EXCEPT ![m] = "bound"]
    /\ UNCHANGED <<lock, attachVars, ready, path, doomed, flush, rename, sweep>>

\* The stamp is written into the directory, the byte into the pipe.
MasterReady(m) ==
    /\ st[m] = "bound"
    /\ dir[path[m]] # None
    /\ st' = [st EXCEPT ![m] = "running"]
    /\ ready' = [ready EXCEPT ![m] = TRUE]
    /\ flush' = [flush EXCEPT ![m] = "asleep"]
    /\ UNCHANGED <<dirVars, attachVars, path, doomed, rename, sweep>>

\* Setup fails: at one of these, or at the PTY, the shell or a signal handler.
MasterFails(m) ==
    /\ st[m] \in {"starting", "bound"}
    /\ Exit(m)
    /\ UNCHANGED <<dir, attachVars, ready, path, doomed, sweep>>

\* The shell ended, by itself or by `kill`: `finish` is called.
ShellExits(m) ==
    /\ st[m] = "running"
    /\ st' = [st EXCEPT ![m] = "finishing"]
    /\ UNCHANGED <<dirVars, attachVars, ready, path, doomed, flush, rename,
                   sweep>>

\* finish copies the path and lets go of the directory mutex.
FinishCopies(m) ==
    /\ st[m] = "finishing"
    /\ DirectoryFree(m)
    /\ st' = [st EXCEPT ![m] = "removing"]
    /\ doomed' = [doomed EXCEPT ![m] = path[m]]
    /\ UNCHANGED <<dirVars, attachVars, ready, path, flush, rename, sweep>>

\* remove_dir_all: first the entries,
FinishUnlinks(m) ==
    /\ st[m] = "removing"
    /\ st' = [st EXCEPT ![m] = "removed"]
    /\ dir' = IF dir[doomed[m]] = None THEN dir
              ELSE [dir EXCEPT ![doomed[m]] = EmptyDir]
    /\ UNCHANGED <<lock, attachVars, ready, path, doomed, flush, rename, sweep>>

\* then the directory, if it is empty still; and process::exit.
FinishExits(m) ==
    LET d == doomed[m]
    IN  /\ st[m] = "removed"
        /\ dir' = IF dir[d] # None /\ dir[d].socket = None
                                   /\ ~dir[d].saved
                  THEN [dir EXCEPT ![d] = None]
                  ELSE dir
        /\ Exit(m)
        /\ UNCHANGED <<attachVars, ready, path, doomed, sweep>>

\* SIGKILL, the OOM killer, a power cut; or SIGTERM, which flushes and exits.
Crash(m) ==
    /\ "crash" \in Faults
    /\ st[m] \in Serving \ {"bound"}
    /\ Exit(m)
    /\ UNCHANGED <<dir, attachVars, ready, path, doomed, sweep>>

\* flush_restore_state copies the path and lets go of the directory mutex,
FlushCopies(m) ==
    /\ flush[m] = "asleep"
    /\ DirectoryFree(m)
    /\ flush' = [flush EXCEPT ![m] = path[m]]
    /\ UNCHANGED <<dirVars, attachVars, st, ready, path, doomed, rename, sweep>>

\* and writes there, if there is a directory. `exiting` is looked at after it.
FlushWrites(m) ==
    LET d == flush[m]
    IN  /\ d \in Names
        /\ dir' = IF dir[d] = None THEN dir
                  ELSE [dir EXCEPT ![d] = [socket |-> dir[d].socket,
                                          saved |-> TRUE, stale |-> FALSE]]
        /\ flush' = [flush EXCEPT ![m] = IF st[m] = "running" THEN "asleep"
                                         ELSE "off"]
        /\ UNCHANGED <<lock, attachVars, st, ready, path, doomed, rename, sweep>>

MasterNext(m) ==
    \/ MasterBinds(m) \/ MasterReady(m) \/ MasterFails(m)
    \/ FinishCopies(m) \/ FinishUnlinks(m) \/ FinishExits(m)
    \/ FlushCopies(m) \/ FlushWrites(m)

-----------------------------------------------------------------------------
\* A rename, in a thread of its master.

RenameGo(r, there) == rename' = [rename EXCEPT ![r].pc = there]

StartRename(r, m, n) ==
    /\ rename[r].pc = "idle"
    /\ st[m] \in Serving \ {"bound"}
    /\ rename' = [rename EXCEPT ![r] = [pc |-> "locking", by |-> m, to |-> n]]
    /\ UNCHANGED <<dirVars, attachVars, masterVars, sweep>>

\* The lock file is locked, and the directory mutex after it.
LockToRename(r) ==
    /\ rename[r].pc = "locking"
    /\ lock = {}
    /\ DirectoryFree(rename[r].by)
    /\ lock' = {r}
    /\ RenameGo(r, "probing")
    /\ UNCHANGED <<dir, attachVars, masterVars, sweep>>

\* The name is free, or left by a dead master, or taken, or cannot be probed.
ProbeDestination(r) ==
    LET n == rename[r].to
    IN  /\ rename[r].pc = "probing"
        /\ \/ dir[n] = None /\ RenameGo(r, "moving") /\ UNCHANGED lock
           \/ /\ dir[n] # None /\ ~Listening(n)
              /\ RenameGo(r, "clearing")
              /\ UNCHANGED lock
           \/ dir[n] # None /\ RenameGo(r, "done") /\ Unlocked
        /\ UNCHANGED <<dir, attachVars, masterVars, sweep>>

ClearDestination(r) ==
    LET n == rename[r].to
    IN  /\ rename[r].pc = "clearing"
        /\ IF dir[n] # None
           THEN RenameGo(r, "moving") /\ UNCHANGED lock
           ELSE RenameGo(r, "done") /\ Unlocked
        /\ dir' = [dir EXCEPT ![n] = None]
        /\ UNCHANGED <<attachVars, masterVars, sweep>>

\* A mutant: the master goes on to use the old path.
MoveAndForget(r) ==
    LET m == rename[r].by
        n == rename[r].to
        old == path[m]
        moves == dir[old] # None /\ dir[n] \in {None, EmptyDir} /\ n # old
    IN  /\ rename[r].pc = "moving"
        /\ dir' = IF moves THEN [dir EXCEPT ![n] = dir[old], ![old] = None]
                  ELSE dir
        /\ UNCHANGED path
        /\ RenameGo(r, "done")
        /\ Unlocked
        /\ UNCHANGED <<attachVars, st, ready, doomed, flush, sweep>>

\* fs::rename needs the old directory, and no other than an empty one in the
\* new place; without it nothing is changed.
Move(r) ==
    LET m == rename[r].by
        n == rename[r].to
        old == path[m]
        moves == dir[old] # None /\ dir[n] \in {None, EmptyDir} /\ n # old
    IN  /\ rename[r].pc = "moving"
        /\ dir' = IF moves THEN [dir EXCEPT ![n] = dir[old], ![old] = None]
                  ELSE dir
        /\ path' = IF moves THEN [path EXCEPT ![m] = n] ELSE path
        /\ RenameGo(r, "done")
        /\ Unlocked
        /\ UNCHANGED <<attachVars, st, ready, doomed, flush, sweep>>

RenameNext(r) ==
    \/ LockToRename(r) \/ ProbeDestination(r) \/ ClearDestination(r) \/ Move(r)

-----------------------------------------------------------------------------
\* A sweep of one directory. It takes no lock.

SweepGo(s, there) == sweep' = [sweep EXCEPT ![s].pc = there]

\* Seven days go by; a master that lives writes its scrollback meanwhile.
Ages(n) ==
    /\ Sweepers # {}
    /\ dir[n] # None
    /\ ~dir[n].stale
    /\ ~Listening(n)
    /\ ~\E c \in Attachers : name[c] = n /\ pc[c] \in {"forking", "waiting"}
    /\ dir' = [dir EXCEPT ![n].stale = TRUE]
    /\ UNCHANGED <<lock, attachVars, masterVars, rename, sweep>>

SweepProbes(s, n) ==
    /\ sweep[s].pc = "idle"
    /\ dir[n] # None
    /\ ~Listening(n)
    /\ sweep' = [sweep EXCEPT ![s] = [pc |-> "probed", of |-> n]]
    /\ UNCHANGED <<dirVars, attachVars, masterVars, rename>>

SweepLooksAtAge(s) ==
    LET d == dir[sweep[s].of]
    IN  /\ sweep[s].pc = "probed"
        /\ SweepGo(s, IF d # None /\ d.stale THEN "removing" ELSE "done")
        /\ UNCHANGED <<dirVars, attachVars, masterVars, rename>>

SweepRemoves(s) ==
    /\ sweep[s].pc = "removing"
    /\ dir' = [dir EXCEPT ![sweep[s].of] = None]
    /\ SweepGo(s, "swept")
    /\ UNCHANGED <<lock, attachVars, masterVars, rename>>

-----------------------------------------------------------------------------
Next ==
    \/ \E c \in Attachers, n \in Names : StartAttach(c, n)
    \/ \E c \in Attachers : AttachNext(c) \/ AttacherKilled(c)
    \/ \E m \in Masters : MasterNext(m) \/ ShellExits(m) \/ Crash(m)
    \/ \E r \in Renamers, m \in Masters, n \in Names : StartRename(r, m, n)
    \/ \E r \in Renamers : RenameNext(r)
    \/ \E n \in Names : Ages(n)
    \/ \E s \in Sweepers : \/ \E n \in Names : SweepProbes(s, n)
                           \/ SweepLooksAtAge(s)
                           \/ SweepRemoves(s)

Spec == Init /\ [][Next]_vars

\* Processes and threads that can go on do so, and flock starves nobody. No
\* shell has to end, and nobody has to attach, rename or list.
Fairness ==
    /\ \A c \in Attachers : SF_vars(AttachNext(c))
    /\ \A m \in Masters : WF_vars(MasterNext(m))
    /\ \A r \in Renamers : SF_vars(RenameNext(r))

FairSpec == Spec /\ Fairness

-----------------------------------------------------------------------------
\* Types of the directories, the lock and every process; a master that is not
\* there has no thread.
TypeOK ==
    /\ dir \in [Names -> Dir \cup {None}]
    /\ lock \subseteq Attachers \cup Masters \cup Renamers
    /\ pc \in [Attachers -> {"idle", "probing", "locking", "reprobing",
                             "clearing", "forking", "waiting", "connecting",
                             "attached", "failed", "late", "killed"}]
    /\ name \in [Attachers -> Names \cup {None}]
    /\ child \in [Attachers -> Masters \cup {None}]
    /\ st \in [Masters -> Serving \cup {"unused", "starting", "exited"}]
    /\ ready \in [Masters -> BOOLEAN]
    /\ path \in [Masters -> Names \cup {None}]
    /\ doomed \in [Masters -> Names \cup {None}]
    /\ flush \in [Masters -> Names \cup {"off", "asleep"}]
    /\ rename \in [Renamers ->
                     [pc : {"idle", "locking", "probing", "clearing", "moving",
                            "done"},
                      by : Masters \cup {None}, to : Names \cup {None}]]
    /\ sweep \in [Sweepers ->
                    [pc : {"idle", "probed", "removing", "done", "swept"},
                     of : Names \cup {None}]]
    /\ \A m \in Masters : /\ st[m] # "unused" => path[m] # None
                          /\ flush[m] # "off" => st[m] \in Serving \ {"bound"}

\* A master whose attach gave up on it before it was ready.
Orphan(m) == \E c \in Attachers : child[c] = m /\ pc[c] = "late"

\* Nobody listens under the name but an orphan, at most.
NobodyToLose(n) == Listening(n) => Orphan(dir[n].socket)

\* What an attach or a rename has found dead under the lock is still dead when
\* it deletes it, and so is what an attach made for a master that then failed:
\* neither ever deletes the directory of a session that lives and was ever
\* attached to (connect_or_create, rename, Probe).
DeletesOnlyTheDead ==
    /\ \A c \in Attachers :
         \/ pc[c] = "clearing"
         \/ pc[c] = "waiting" /\ st[child[c]] = "exited" /\ ~ready[child[c]]
         => NobodyToLose(name[c])
    /\ \A r \in Renamers :
         rename[r].pc = "clearing" => NobodyToLose(rename[r].to)

\* A master that listens under its name.
Named(m) ==
    /\ st[m] \in {"bound", "running"}
    /\ dir[path[m]] # None /\ dir[path[m]].socket = m

\* The ways to lose a name: the master was given up on before it was ready; a
\* `finish` and a sweep that have set out to remove a dead session of that name;
\* and a rename by another master, which has lost its own directory and moves
\* what is there now.
MayLose(m) ==
    \/ \E a \in Masters \ {m} : st[a] = "removing" /\ doomed[a] = path[m]
    \/ \E s \in Sweepers : sweep[s].pc = "removing" /\ sweep[s].of = path[m]
    \/ \E r \in Renamers : LET a == rename[r].by
                          IN  /\ rename[r].pc = "moving"
                              /\ a # m /\ path[a] = path[m] /\ ~Named(a)

\* From the moment it listens until it ends, a session is found under its name,
\* before a rename and after it, and so no two of them have the same one: through
\* attaches that race, die, give up or start sessions anew, other renames and
\* crashes it keeps it, but for the ways to lose it above (rename, finish,
\* sweep_abandoned_sessions, connect_or_create).
NamesAreKept ==
    [][\A m \in Masters :
         Named(m) /\ st'[m] \in {"bound", "running"} =>
           Named(m)' \/ Orphan(m)' \/ MayLose(m)]_vars

\* An attach comes to an end: it reaches a session or reports that it cannot.
\* "Fixed an attach that could hang forever while starting a session."
\* (CHANGELOG.md:24; connect_or_create, read_ready_within, CreationLock).
AttachReturns ==
    \A c \in Attachers :
      pc[c] = "probing" ~> pc[c] \in {"attached", "failed", "late", "killed"}
=============================================================================
