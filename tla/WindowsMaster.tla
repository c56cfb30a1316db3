----------------------------- MODULE WindowsMaster -----------------------------
(***************************************************************************)
(* The threads of a master on Windows that decide where it is found and    *)
(* how it ends: the loop that accepts connections (run_as_master), a       *)
(* rename and a kill in the thread of a connection, the thread that waits  *)
(* for the shell, the thread that reads ConPTY, and `finish`, which two of *)
(* them may call.                                                          *)
(*                                                                         *)
(* A pipe instance is listened on under the name it was created with. A    *)
(* rename cancels the ConnectNamedPipe of the instance that the loop has   *)
(* published; CancelIoEx finds nothing to cancel before that call.         *)
(* ConPTY keeps its output open until it is closed, whatever the shell     *)
(* does.                                                                   *)
(***************************************************************************)
EXTENDS Naturals, FiniteSets

CONSTANTS
    Names,       \* session names
    First,       \* the name the session starts with
    Clients,     \* connections: attached clients and control commands
    MaxClients,  \* connections served at a time
    MaxRenames,  \* bound: renames
    None

ASSUME WindowsMasterAssumption ==
    /\ First \in Names
    /\ MaxClients \in Nat \ {0} /\ MaxRenames \in Nat
    /\ None \notin Names \cup Clients

VARIABLES
    name,         \* MasterState::name
    loop,         \* the accept loop
    instance,     \* the name of the pipe instance it has created
    published,    \* pending_listener is there
    peer,         \* the connection that opened that instance
    threads,      \* connections that have a thread
    cancelled,    \* threads of calls that were cancelled
    clients,      \* MasterState::clients
    rename,       \* a rename in progress: what is left of it
    renames,      \* history: renames so far
    shell,        \* the shell runs
    terminating,  \* MasterState::terminating
    ptyClosed,    \* MasterState::pty_closed
    console,      \* ConPTY is open
    killer,       \* a kill in progress: what is left of it
    watcher,      \* the thread that waits for the shell
    reader,       \* the thread that reads ConPTY
    told,         \* clients that were sent FRAME_EXIT
    process,      \* the master runs
    killed,       \* history: the session was ended by a kill or by its loop
    watching      \* history: those attached since before the shell exited

connectionVars == <<threads, cancelled, clients, watching>>
acceptVars == <<loop, instance, published, peer>>
nameVars == <<name, rename, renames>>
endVars == <<shell, terminating, ptyClosed, console, killer, watcher, reader,
             told, process, killed>>
vars == <<acceptVars, nameVars, connectionVars, endVars>>

Init ==
    /\ name = First
    /\ loop = "naming"
    /\ instance = None
    /\ published = FALSE
    /\ peer = None
    /\ threads = {}
    /\ cancelled = 0
    /\ clients = {}
    /\ watching = {}
    /\ rename = "none"
    /\ renames = 0
    /\ shell = TRUE
    /\ terminating = FALSE
    /\ ptyClosed = FALSE
    /\ console = TRUE
    /\ killer = None
    /\ watcher = "waiting"
    /\ reader = "reading"
    /\ told = {}
    /\ process = TRUE
    /\ killed = FALSE

-----------------------------------------------------------------------------
\* The accept loop.

\* The name is copied, and an instance created under that copy.
CopyName ==
    /\ loop = "naming"
    /\ loop' = "creating"
    /\ instance' = name
    /\ UNCHANGED <<published, peer, nameVars, connectionVars, endVars>>

CreateInstance ==
    /\ loop = "creating"
    /\ loop' = "publishing"
    /\ UNCHANGED <<instance, published, peer, nameVars, connectionVars, endVars>>

Publish ==
    /\ loop = "publishing"
    /\ loop' = "connecting"
    /\ published' = TRUE
    /\ UNCHANGED <<instance, peer, nameVars, connectionVars, endVars>>

\* ConnectNamedPipe: a client may have opened the instance already.
Accept ==
    /\ loop = "connecting"
    /\ loop' = IF peer = None THEN "waiting" ELSE "accepted"
    /\ UNCHANGED <<instance, published, peer, nameVars, connectionVars, endVars>>

\* A client opens the instance, by its name.
ClientOpens(c) ==
    /\ loop \in {"publishing", "connecting", "waiting"}
    /\ peer = None
    /\ c \notin threads
    /\ peer' = c
    /\ loop' = IF loop = "waiting" THEN "accepted" ELSE loop
    /\ UNCHANGED <<instance, published, nameVars, connectionVars, endVars>>

\* The instance is withdrawn, and its connection gets a thread.
GetsThread ==
    /\ threads' = IF peer = None THEN threads ELSE threads \cup {peer}
    /\ cancelled' = IF peer = None THEN cancelled + 1 ELSE cancelled

\* A mutant: nobody counts the connections.
TakeEveryClient ==
    /\ loop = "accepted"
    /\ GetsThread
    /\ loop' = "naming"
    /\ instance' = None
    /\ published' = FALSE
    /\ peer' = None
    /\ UNCHANGED <<clients, watching, nameVars, endVars>>

\* Unless there are too many; the loop goes on with the next one. A call that was
\* cancelled counts as a connection too: its thread ends at its first read.
TakeClient ==
    /\ loop = "accepted"
    /\ IF Cardinality(threads) + cancelled < MaxClients
       THEN GetsThread
       ELSE UNCHANGED <<threads, cancelled>>
    /\ loop' = "naming"
    /\ instance' = None
    /\ published' = FALSE
    /\ peer' = None
    /\ UNCHANGED <<clients, watching, nameVars, endVars>>

CancelledEnds ==
    /\ cancelled > 0
    /\ cancelled' = cancelled - 1
    /\ UNCHANGED <<threads, clients, watching, acceptVars, nameVars, endVars>>

\* No instance can be created: the loop ends, and the session with it.
LoopBreaks ==
    /\ loop = "creating"
    /\ loop' = "killing"
    /\ instance' = None
    /\ UNCHANGED <<published, peer, nameVars, connectionVars, endVars>>

-----------------------------------------------------------------------------
\* A connection's thread.

\* FRAME_ATTACH: add_client.
Attach(c) ==
    /\ c \in threads \ clients
    /\ clients' = clients \cup {c}
    /\ watching' = IF shell THEN watching \cup {c} ELSE watching
    /\ UNCHANGED <<threads, cancelled, acceptVars, nameVars, endVars>>

\* The connection ends: remove_client.
Leave(c) ==
    /\ c \in threads \ {killer}
    /\ threads' = threads \ {c}
    /\ clients' = clients \ {c}
    /\ watching' = watching \ {c}
    /\ UNCHANGED <<cancelled, acceptVars, nameVars, endVars>>

-----------------------------------------------------------------------------
\* A rename.

Rename(n) ==
    /\ rename = "none"
    /\ threads # {}
    /\ renames < MaxRenames
    /\ n # name
    /\ name' = n
    /\ rename' = "cancelling"
    /\ renames' = renames + 1
    /\ UNCHANGED <<acceptVars, connectionVars, endVars>>

\* The call that waits in ConnectNamedPipe fails, if there is one.
CancelListener ==
    /\ rename = "cancelling"
    /\ rename' = "none"
    /\ loop' = IF published /\ loop = "waiting" THEN "accepted" ELSE loop
    /\ UNCHANGED <<name, renames, instance, published, peer, connectionVars, endVars>>

-----------------------------------------------------------------------------
\* How the session ends.

\* close_pseudo_console: the first caller closes it.
ClosesConsole ==
    /\ ptyClosed' = TRUE
    /\ console' = IF ptyClosed THEN console ELSE FALSE

\* kill_shell, until it closes ConPTY: only the first caller does anything.
EndsShell ==
    /\ terminating' = TRUE
    /\ shell' = (shell /\ terminating)
    /\ killed' = TRUE

\* FRAME_KILL, from a connection.
Kill(c) ==
    /\ c \in threads
    /\ killer' = IF terminating THEN killer ELSE c
    /\ EndsShell
    /\ UNCHANGED <<acceptVars, nameVars, connectionVars, ptyClosed, console,
                   watcher, reader, told, process>>

KillCloses ==
    /\ killer # None
    /\ killer' = None
    /\ ClosesConsole
    /\ UNCHANGED <<acceptVars, nameVars, connectionVars, shell, terminating,
                   watcher, reader, told, process, killed>>

LoopKills ==
    /\ loop = "killing"
    /\ loop' = IF terminating THEN "finishing" ELSE "closing"
    /\ EndsShell
    /\ UNCHANGED <<instance, published, peer, nameVars, connectionVars,
                   ptyClosed, console, killer, watcher, reader, told, process>>

LoopCloses ==
    /\ loop = "closing"
    /\ loop' = "finishing"
    /\ ClosesConsole
    /\ UNCHANGED <<instance, published, peer, nameVars, connectionVars, shell,
                   terminating, killer, watcher, reader, told, process, killed>>

ShellExits ==
    /\ shell
    /\ shell' = FALSE
    /\ UNCHANGED <<acceptVars, nameVars, connectionVars, terminating, ptyClosed,
                   console, killer, watcher, reader, told, process, killed>>

\* A mutant: nothing is done when the shell exits.
WatcherIdles ==
    /\ watcher = "waiting"
    /\ ~shell
    /\ watcher' = "ended"
    /\ UNCHANGED <<acceptVars, nameVars, connectionVars, shell, terminating,
                   ptyClosed, console, killer, reader, told, process, killed>>

\* A mutant: the session is ended as a kill ends it.
WatcherKills ==
    /\ watcher = "waiting"
    /\ ~shell
    /\ watcher' = "ended"
    /\ terminating' = TRUE
    /\ ClosesConsole
    /\ UNCHANGED <<acceptVars, nameVars, connectionVars, shell, killer, reader,
                   told, process, killed>>

\* The shell has exited: ConPTY is closed for the reader to see the end of it.
WatcherCloses ==
    /\ watcher = "waiting"
    /\ ~shell
    /\ watcher' = "ended"
    /\ ClosesConsole
    /\ UNCHANGED <<acceptVars, nameVars, connectionVars, shell, terminating,
                   killer, reader, told, process, killed>>

ReaderEnds ==
    /\ reader = "reading"
    /\ ~console
    /\ reader' = "finishing"
    /\ UNCHANGED <<acceptVars, nameVars, connectionVars, shell, terminating,
                   ptyClosed, console, killer, watcher, told, process, killed>>

\* finish: clients are told, unless the session is marked as ending already,
Tells ==
    /\ terminating' = TRUE
    /\ told' = IF terminating THEN told ELSE told \cup clients

ReaderTells ==
    /\ reader = "finishing"
    /\ reader' = "exiting"
    /\ Tells
    /\ UNCHANGED <<acceptVars, nameVars, connectionVars, shell, ptyClosed,
                   console, killer, watcher, process, killed>>

LoopTells ==
    /\ loop = "finishing"
    /\ loop' = "exiting"
    /\ Tells
    /\ UNCHANGED <<instance, published, peer, nameVars, connectionVars, shell,
                   ptyClosed, console, killer, watcher, reader, process, killed>>

\* and the process exits.
Exits ==
    /\ reader = "exiting" \/ loop = "exiting"
    /\ process' = FALSE
    /\ shell' = FALSE
    /\ ptyClosed' = TRUE
    /\ console' = FALSE
    /\ UNCHANGED <<acceptVars, nameVars, connectionVars, terminating, killer,
                   watcher, reader, told, killed>>

-----------------------------------------------------------------------------
AcceptNext ==
    CopyName \/ CreateInstance \/ Publish \/ Accept \/ TakeClient

EndNext ==
    \/ KillCloses \/ WatcherCloses \/ ReaderEnds \/ ReaderTells \/ Exits
    \/ LoopKills \/ LoopCloses \/ LoopTells

Next ==
    /\ process
    /\ \/ AcceptNext \/ EndNext
       \/ \E c \in Clients :
             ClientOpens(c) \/ Attach(c) \/ Leave(c) \/ Kill(c)
       \/ \E n \in Names : Rename(n)
       \/ CancelListener \/ CancelledEnds
       \/ LoopBreaks
       \/ ShellExits

Spec == Init /\ [][Next]_vars

\* The master's threads run. Nobody has to connect, rename or kill, and no
\* shell has to exit.
Fairness ==
    /\ WF_vars(process /\ AcceptNext)
    /\ WF_vars(process /\ EndNext)
    /\ WF_vars(process /\ CancelListener)
    /\ WF_vars(process /\ CancelledEnds)

FairSpec == Spec /\ Fairness

-----------------------------------------------------------------------------
\* The state of each thread is one it can be in, and no more than MaxClients
\* have a connection to serve.
TypeOK ==
    /\ name \in Names
    /\ loop \in {"naming", "creating", "publishing", "connecting", "waiting",
                 "accepted", "killing", "closing", "finishing", "exiting"}
    /\ instance \in Names \cup {None}
    /\ published \in BOOLEAN
    /\ peer \in Clients \cup {None}
    /\ peer \notin threads
    /\ threads \subseteq Clients
    /\ cancelled \in 0..MaxClients
    /\ Cardinality(threads) + cancelled <= MaxClients
    /\ clients \subseteq threads
    /\ watching \subseteq clients
    /\ rename \in {"none", "cancelling"}
    /\ renames \in 0..MaxRenames
    /\ killer \in threads \cup {None}
    /\ watcher \in {"waiting", "ended"}
    /\ reader \in {"reading", "finishing", "exiting"}
    /\ told \subseteq Clients
    /\ {shell, terminating, ptyClosed, console, process, killed}
           \subseteq BOOLEAN

\* A session whose shell has exited ends, although ConPTY does not end with
\* the shell (CHANGELOG.md:18): the watcher's close reaches the reader, and the
\* reader's `finish` the process, whoever kills or renames meanwhile.
SessionEnds == ~shell ~> ~process

\* When a session ends by itself, those who were attached before the shell
\* exited and stayed have been sent FRAME_EXIT before the process is gone.
ExitIsTold == ~process /\ ~killed => watching \subseteq told
=============================================================================
