--------------------------- MODULE SessionDirsProofs ---------------------------
(***************************************************************************)
(* What holds of names, directories and masters (SessionDirs.tla) for any  *)
(* number of each, of attaches, renames and sweeps: only dead sessions are *)
(* deleted under the lock, and a master that listens under its name loses  *)
(* it in few ways.                                                         *)
(***************************************************************************)
EXTENDS SessionDirs, TLAPS

\* Where an attach can be, and what a rename is, as TypeOK has them.
AttachStates == {"idle", "probing", "locking", "reprobing", "clearing", "forking",
                 "waiting", "connecting", "attached", "failed", "late", "killed"}
Renaming == [pc : {"idle", "locking", "probing", "clearing", "moving", "done"},
             by : Masters \cup {None}, to : Names \cup {None}]

\* Whoever has started has what it works on.
Placed ==
    /\ \A c \in Attachers : /\ pc[c] # "idle" => name[c] # None
                            /\ pc[c] = "waiting" => child[c] # None
    /\ \A r \in Renamers :
         /\ rename[r].pc # "idle" => rename[r].by # None /\ rename[r].to # None
         /\ rename[r].by # None =>
              rename[r].pc # "idle" /\ st[rename[r].by] # "unused"
    /\ \A s \in Sweepers : sweep[s].pc # "idle" => sweep[s].of # None
    /\ \A m \in Masters : st[m] \in {"removing", "removed"} => doomed[m] # None

\* An attach from its second probe to its fork, and a rename from its probe to
\* its move, hold the lock alone; an attach that waits has it open with the
\* master it started.
LockAlone ==
    /\ \A c \in Attachers :
         /\ pc[c] \in {"reprobing", "clearing", "forking"} => lock = {c}
         /\ pc[c] = "waiting" => c \in lock /\ lock \subseteq {c, child[c]}
    /\ \A r \in Renamers :
         rename[r].pc \in {"probing", "clearing", "moving"} => lock = {r}

\* A master that is not ready yet has the lock open, unless its attach has given
\* it up.
NewHoldsLock ==
    \A m \in Masters :
      /\ st[m] \in {"starting", "bound"} => m \in lock \/ Orphan(m)
      /\ ready[m] => st[m] \notin {"unused", "starting", "bound"}

\* A socket is one that a master has bound.
SocketsAreBound ==
    \A n \in Names :
      dir[n] # None /\ dir[n].socket # None =>
        st[dir[n].socket] \in Serving \cup {"exited"}

\* What was found dead under the lock is dead, but for what an orphan makes.
DeadStayDead ==
    /\ \A c \in Attachers :
         /\ pc[c] \in {"clearing", "forking"} => NobodyToLose(name[c])
         /\ pc[c] = "waiting" /\ Listening(name[c]) =>
              dir[name[c]].socket = child[c] \/ Orphan(dir[name[c]].socket)
    /\ \A r \in Renamers :
         rename[r].pc = "clearing" => NobodyToLose(rename[r].to)

DirsInv ==
    TypeOK /\ Placed /\ LockAlone /\ NewHoldsLock /\ SocketsAreBound /\ DeadStayDead

-----------------------------------------------------------------------------
\* Types.

LEMMA TypesInit == Init => TypeOK /\ Placed
BY SessionDirsAssumption DEF Init, TypeOK, Placed, Dir

\* A rename that goes on changes nothing but where it is.
LEMMA RenameGoIs ==
    ASSUME TypeOK, NEW r \in Renamers, RenameGo(r, "moving") \/ RenameGo(r, "probing")
                                       \/ RenameGo(r, "clearing") \/ RenameGo(r, "done")
    PROVE  /\ rename' \in [Renamers -> Renaming]
           /\ rename'[r].pc \in {"probing", "clearing", "moving", "done"}
           /\ \A q \in Renamers :
                /\ rename'[q].by = rename[q].by /\ rename'[q].to = rename[q].to
                /\ q # r => rename'[q].pc = rename[q].pc
<1>1. PICK there \in {"probing", "clearing", "moving", "done"} :
        rename' = [rename EXCEPT ![r].pc = there]
  BY DEF RenameGo
<1>2. rename \in [Renamers -> Renaming]
  BY DEF TypeOK, Renaming
<1>3. [rename[r] EXCEPT !.pc = there] \in Renaming
  BY <1>2 DEF Renaming
<1>. QED
  BY <1>1, <1>2, <1>3 DEF Renaming

\* A master that exits: its renames end, and it holds no lock any more.
LEMMA ExitIs ==
    ASSUME TypeOK, NEW m \in Masters, st[m] # "unused", Exit(m)
    PROVE  /\ st' \in [Masters -> Serving \cup {"unused", "starting", "exited"}]
           /\ st'[m] = "exited" /\ flush'[m] = "off"
           /\ \A a \in Masters \ {m} : st'[a] = st[a] /\ flush'[a] = flush[a]
           /\ flush' \in [Masters -> Names \cup {"off", "asleep"}]
           /\ rename' \in [Renamers -> Renaming]
           /\ \A r \in Renamers :
                /\ rename'[r].by = rename[r].by /\ rename'[r].to = rename[r].to
                /\ \/ rename'[r].pc = rename[r].pc /\ rename[r].by # m
                   \/ rename'[r].pc = "done" /\ rename[r].by = m
           /\ lock' = lock \ ({m} \cup {r \in Renamers : rename[r].by = m})
<1>1. /\ st' \in [Masters -> Serving \cup {"unused", "starting", "exited"}]
      /\ st'[m] = "exited" /\ flush'[m] = "off"
      /\ \A a \in Masters \ {m} : st'[a] = st[a] /\ flush'[a] = flush[a]
      /\ flush' \in [Masters -> Names \cup {"off", "asleep"}]
  BY DEF Exit, TypeOK
<1>2. ASSUME NEW r \in Renamers
      PROVE  LET x == IF rename[r].by = m THEN [rename[r] EXCEPT !.pc = "done"]
                                          ELSE rename[r]
             IN  /\ x \in Renaming
                 /\ x.by = rename[r].by /\ x.to = rename[r].to
                 /\ \/ x.pc = rename[r].pc /\ rename[r].by # m
                    \/ x.pc = "done" /\ rename[r].by = m
  <2>1. rename[r] \in Renaming
    BY DEF TypeOK, Renaming
  <2>2. /\ [rename[r] EXCEPT !.pc = "done"] \in Renaming
        /\ [rename[r] EXCEPT !.pc = "done"].pc = "done"
        /\ [rename[r] EXCEPT !.pc = "done"].by = rename[r].by
        /\ [rename[r] EXCEPT !.pc = "done"].to = rename[r].to
    BY <2>1 DEF Renaming
  <2>3. CASE rename[r].by = m
    BY <2>2, <2>3
  <2>4. CASE rename[r].by # m
    BY <2>1, <2>4
  <2>. QED
    BY <2>3, <2>4
<1>3. rename' = [r \in Renamers |->
                   IF rename[r].by = m THEN [rename[r] EXCEPT !.pc = "done"]
                                       ELSE rename[r]]
  BY DEF Exit
<1>. QED
  BY <1>1, <1>2, <1>3 DEF Exit

LEMMA ExitTypes ==
    ASSUME TypeOK, Placed, NEW m \in Masters, st[m] # "unused", Exit(m),
           dir' \in [Names -> Dir \cup {None}],
           UNCHANGED <<attachVars, ready, path, doomed, sweep>>
    PROVE  TypeOK' /\ Placed'
<1>1. lock' \subseteq Attachers \cup Masters \cup Renamers
  BY ExitIs DEF TypeOK
<1>2. \A a \in Masters : /\ st'[a] # "unused" => path'[a] # None
                         /\ flush'[a] # "off" => st'[a] \in Serving \ {"bound"}
  BY ExitIs DEF TypeOK
<1>3. /\ st' \in [Masters -> Serving \cup {"unused", "starting", "exited"}]
      /\ flush' \in [Masters -> Names \cup {"off", "asleep"}]
      /\ rename' \in [Renamers -> Renaming]
  BY ExitIs
<1>4. UNCHANGED <<pc, name, child, ready, path, doomed, sweep>>
  BY DEF attachVars
<1>5. TypeOK'
  BY <1>1, <1>2, <1>3, <1>4 DEF TypeOK, Renaming
<1>6. \A r \in Renamers :
        /\ rename'[r].pc # "idle" => rename'[r].by # None /\ rename'[r].to # None
        /\ rename'[r].by # None =>
             rename'[r].pc # "idle" /\ st'[rename'[r].by] # "unused"
  <2>. TAKE r \in Renamers
  <2>1. rename'[r].by = rename[r].by /\ rename'[r].to = rename[r].to
    BY ExitIs
  <2>2. rename[r].by \in Masters \cup {None}
    BY DEF TypeOK
  <2>3. rename[r].by # None => st'[rename[r].by] # "unused"
    BY <2>2, ExitIs DEF Placed
  <2>4. /\ rename'[r].pc # "idle" => rename[r].pc # "idle" \/ rename[r].by = m
        /\ rename[r].pc # "idle" => rename'[r].pc # "idle"
    BY ExitIs
  <2>5. m # None
    BY SessionDirsAssumption
  <2>. QED
    BY <2>1, <2>3, <2>4, <2>5 DEF Placed
<1>7. Placed'
  BY <1>4, <1>6, ExitIs DEF Placed
<1>. QED
  BY <1>5, <1>7

LEMMA TypesNext == TypeOK /\ Placed /\ [Next]_vars => TypeOK' /\ Placed'
<1> SUFFICES ASSUME TypeOK, Placed, [Next]_vars
             PROVE  TypeOK' /\ Placed'
  OBVIOUS
<1> USE SessionDirsAssumption
<1>1. ASSUME NEW c \in Attachers, NEW n \in Names, StartAttach(c, n)
      PROVE  TypeOK' /\ Placed'
  BY <1>1 DEF StartAttach, Go, TypeOK, Placed, dirVars, masterVars
<1>2. ASSUME NEW c \in Attachers, ProbeFirst(c)
      PROVE  TypeOK' /\ Placed'
  BY <1>2 DEF ProbeFirst, Go, TypeOK, Placed, dirVars, masterVars
<1>3. ASSUME NEW c \in Attachers, LockToCreate(c)
      PROVE  TypeOK' /\ Placed'
  BY <1>3 DEF LockToCreate, Go, TypeOK, Placed, masterVars
<1>4. ASSUME NEW c \in Attachers, ProbeAgain(c)
      PROVE  TypeOK' /\ Placed'
  BY <1>4 DEF ProbeAgain, Go, Unlocked, TypeOK, Placed, masterVars
<1>5. ASSUME NEW c \in Attachers, Clear(c)
      PROVE  TypeOK' /\ Placed'
  BY <1>5 DEF Clear, Go, TypeOK, Placed, Dir, EmptyDir, masterVars
<1>6. ASSUME NEW c \in Attachers, NEW m \in Masters, Fork(c, m)
      PROVE  TypeOK' /\ Placed'
  BY <1>6 DEF Fork, Go, TypeOK, Placed, Serving
<1>7. ASSUME NEW c \in Attachers, Spawned(c)
      PROVE  TypeOK' /\ Placed'
  BY <1>7 DEF Spawned, Go, Unlocked, TypeOK, Placed, masterVars
<1>8. ASSUME NEW c \in Attachers, SpawnFails(c)
      PROVE  TypeOK' /\ Placed'
  BY <1>8 DEF SpawnFails, GivesUp, Go, Unlocked, TypeOK, Placed, Dir, masterVars
<1>9. ASSUME NEW c \in Attachers, SpawnTooLate(c)
      PROVE  TypeOK' /\ Placed'
  BY <1>9 DEF SpawnTooLate, GivesUp, Go, Unlocked, TypeOK, Placed, Dir, masterVars
<1>10. ASSUME NEW c \in Attachers, Connect(c)
      PROVE  TypeOK' /\ Placed'
  BY <1>10 DEF Connect, Go, TypeOK, Placed, dirVars, masterVars
<1>11. ASSUME NEW c \in Attachers, AttacherKilled(c)
      PROVE  TypeOK' /\ Placed'
  BY <1>11 DEF AttacherKilled, Go, TypeOK, Placed, masterVars
<1>12. ASSUME NEW m \in Masters, MasterBinds(m)
      PROVE  TypeOK' /\ Placed'
  BY <1>12 DEF MasterBinds, TypeOK, Placed, Dir, Serving, attachVars
<1>13. ASSUME NEW m \in Masters, MasterReady(m)
      PROVE  TypeOK' /\ Placed'
  BY <1>13 DEF MasterReady, TypeOK, Placed, Serving, dirVars, attachVars
<1>14. ASSUME NEW m \in Masters, MasterFails(m)
      PROVE  TypeOK' /\ Placed'
  <2>1. st[m] # "unused"
    BY <1>14 DEF MasterFails, Serving
  <2>2. /\ Exit(m) /\ UNCHANGED <<attachVars, ready, path, doomed, sweep>>
    BY <1>14 DEF MasterFails
  <2>3. dir' \in [Names -> Dir \cup {None}]
    BY <1>14 DEF MasterFails, TypeOK
  <2>. QED
    BY <2>1, <2>2, <2>3, ExitTypes
<1>15. ASSUME NEW m \in Masters, FinishCopies(m)
      PROVE  TypeOK' /\ Placed'
  BY <1>15 DEF FinishCopies, TypeOK, Placed, Serving, dirVars, attachVars
<1>16. ASSUME NEW m \in Masters, FinishUnlinks(m)
      PROVE  TypeOK' /\ Placed'
  BY <1>16 DEF FinishUnlinks, TypeOK, Placed, Dir, EmptyDir, Serving, attachVars
<1>17. ASSUME NEW m \in Masters, FinishExits(m)
      PROVE  TypeOK' /\ Placed'
  <2>1. st[m] # "unused"
    BY <1>17 DEF FinishExits, Serving
  <2>2. /\ Exit(m) /\ UNCHANGED <<attachVars, ready, path, doomed, sweep>>
    BY <1>17 DEF FinishExits
  <2>3. dir' \in [Names -> Dir \cup {None}]
    BY <1>17 DEF FinishExits, TypeOK
  <2>. QED
    BY <2>1, <2>2, <2>3, ExitTypes
<1>18. ASSUME NEW m \in Masters, FlushCopies(m)
      PROVE  TypeOK' /\ Placed'
  BY <1>18 DEF FlushCopies, TypeOK, Placed, Serving, dirVars, attachVars
<1>19. ASSUME NEW m \in Masters, FlushWrites(m)
      PROVE  TypeOK' /\ Placed'
  <2> DEFINE d == flush[m]
  <2>1. /\ d \in Names
        /\ dir' = IF dir[d] = None THEN dir
                  ELSE [dir EXCEPT ![d] = [socket |-> dir[d].socket,
                                           saved |-> TRUE, stale |-> FALSE]]
        /\ flush' = [flush EXCEPT ![m] = IF st[m] = "running" THEN "asleep"
                                         ELSE "off"]
        /\ UNCHANGED <<lock, attachVars, st, ready, path, doomed, rename, sweep>>
    BY <1>19 DEF FlushWrites
  <2>2. dir' \in [Names -> Dir \cup {None}]
    <3>1. CASE dir[d] = None
      BY <2>1, <3>1 DEF TypeOK
    <3>2. CASE dir[d] # None
      <4>1. dir[d] \in Dir
        BY <2>1, <3>2 DEF TypeOK
      <4>2. [socket |-> dir[d].socket, saved |-> TRUE, stale |-> FALSE] \in Dir
        BY <4>1 DEF Dir
      <4>. QED
        BY <2>1, <3>2, <4>2 DEF TypeOK
    <3>. QED
      BY <3>1, <3>2
  <2>3. flush' \in [Masters -> Names \cup {"off", "asleep"}]
    BY <2>1 DEF TypeOK
  <2>4. \A a \in Masters : flush'[a] # "off" => st[a] \in Serving \ {"bound"}
    BY <2>1 DEF TypeOK, Serving
  <2>5. TypeOK'
    BY <2>1, <2>2, <2>3, <2>4 DEF TypeOK, attachVars
  <2>. QED
    BY <2>1, <2>5 DEF Placed, attachVars
<1>20. ASSUME NEW m \in Masters, ShellExits(m)
      PROVE  TypeOK' /\ Placed'
  BY <1>20 DEF ShellExits, TypeOK, Placed, Serving, dirVars, attachVars
<1>21. ASSUME NEW m \in Masters, Crash(m)
      PROVE  TypeOK' /\ Placed'
  <2>1. st[m] # "unused"
    BY <1>21 DEF Crash, Serving
  <2>2. /\ Exit(m) /\ UNCHANGED <<attachVars, ready, path, doomed, sweep>>
    BY <1>21 DEF Crash
  <2>3. dir' \in [Names -> Dir \cup {None}]
    BY <1>21 DEF Crash, TypeOK
  <2>. QED
    BY <2>1, <2>2, <2>3, ExitTypes
<1>22. ASSUME NEW r \in Renamers, NEW m \in Masters, NEW n \in Names, StartRename(r, m, n)
      PROVE  TypeOK' /\ Placed'
  BY <1>22 DEF StartRename, TypeOK, Placed, Serving, dirVars, attachVars, masterVars
<1>23. ASSUME NEW r \in Renamers, LockToRename(r)
      PROVE  TypeOK' /\ Placed'
  BY <1>23 DEF LockToRename, RenameGo, TypeOK, Placed, attachVars, masterVars
<1>24. ASSUME NEW r \in Renamers, ProbeDestination(r)
      PROVE  TypeOK' /\ Placed'
  <2>1. /\ rename[r].pc = "probing"
        /\ RenameGo(r, "moving") \/ RenameGo(r, "clearing") \/ RenameGo(r, "done")
        /\ lock' \in {lock, {}}
        /\ UNCHANGED <<dir, pc, name, child, st, ready, path, doomed, flush, sweep>>
    BY <1>24 DEF ProbeDestination, Unlocked, attachVars, masterVars
  <2>2. /\ rename' \in [Renamers -> Renaming]
        /\ rename'[r].pc \in {"probing", "clearing", "moving", "done"}
        /\ \A q \in Renamers :
             /\ rename'[q].by = rename[q].by /\ rename'[q].to = rename[q].to
             /\ q # r => rename'[q].pc = rename[q].pc
    BY <2>1, RenameGoIs
  <2>3. TypeOK'
    BY <2>1, <2>2 DEF TypeOK, Renaming
  <2>4. \A q \in Renamers : rename'[q].pc # "idle" <=> rename[q].pc # "idle"
    BY <2>1, <2>2
  <2>5. Placed'
    BY <2>1, <2>2, <2>4 DEF Placed
  <2>. QED
    BY <2>3, <2>5
<1>25. ASSUME NEW r \in Renamers, ClearDestination(r)
      PROVE  TypeOK' /\ Placed'
  <2>1. /\ rename[r].pc = "clearing"
        /\ RenameGo(r, "moving") \/ RenameGo(r, "done")
        /\ lock' \in {lock, {}}
        /\ dir' = [dir EXCEPT ![rename[r].to] = None]
        /\ UNCHANGED <<pc, name, child, st, ready, path, doomed, flush, sweep>>
    BY <1>25 DEF ClearDestination, Unlocked, attachVars, masterVars
  <2>2. /\ rename' \in [Renamers -> Renaming]
        /\ rename'[r].pc \in {"probing", "clearing", "moving", "done"}
        /\ \A q \in Renamers :
             /\ rename'[q].by = rename[q].by /\ rename'[q].to = rename[q].to
             /\ q # r => rename'[q].pc = rename[q].pc
    BY <2>1, RenameGoIs
  <2>3. TypeOK'
    BY <2>1, <2>2 DEF TypeOK, Renaming
  <2>4. \A q \in Renamers : rename'[q].pc # "idle" <=> rename[q].pc # "idle"
    BY <2>1, <2>2
  <2>5. Placed'
    BY <2>1, <2>2, <2>4 DEF Placed
  <2>. QED
    BY <2>3, <2>5
<1>26. ASSUME NEW r \in Renamers, Move(r)
      PROVE  TypeOK' /\ Placed'
  <2> DEFINE b == rename[r].by
             n == rename[r].to
             old == path[b]
             moves == dir[old] # None /\ dir[n] \in {None, EmptyDir} /\ n # old
  <2>1. /\ rename[r].pc = "moving"
        /\ dir' = IF moves THEN [dir EXCEPT ![n] = dir[old], ![old] = None]
                  ELSE dir
        /\ path' = IF moves THEN [path EXCEPT ![b] = n] ELSE path
        /\ rename' = [rename EXCEPT ![r].pc = "done"]
        /\ lock' = {}
        /\ UNCHANGED <<attachVars, st, ready, doomed, flush, sweep>>
    BY <1>26 DEF Move, RenameGo, Unlocked
  <2>2. b \in Masters /\ n \in Names /\ old \in Names
    <3>1. b # None /\ n # None
      BY <2>1 DEF Placed
    <3>2. rename[r].by \in Masters \cup {None} /\ rename[r].to \in Names \cup {None}
      BY DEF TypeOK
    <3>3. st[b] # "unused"
      BY <3>1 DEF Placed
    <3>4. path[b] \in Names \cup {None} /\ path[b] # None
      BY <3>1, <3>2, <3>3 DEF TypeOK
    <3>. QED
      BY <3>1, <3>2, <3>4
  <2> HIDE DEF b, n, old, moves
  <2>3. /\ path' \in [Masters -> Names \cup {None}]
        /\ \A m \in Masters : path[m] # None => path'[m] # None
    BY <2>1, <2>2, SessionDirsAssumption DEF TypeOK
  <2>4. /\ rename' \in [Renamers -> Renaming]
        /\ \A q \in Renamers :
             /\ rename'[q].by = rename[q].by /\ rename'[q].to = rename[q].to
             /\ q # r => rename'[q].pc = rename[q].pc
    BY <2>1, RenameGoIs DEF RenameGo
  <2>5. Placed'
    BY <2>1, <2>2, <2>4 DEF Placed, attachVars, b, n
  <2>6. dir' \in [Names -> Dir \cup {None}]
    <3>1. CASE moves
      <4>1. old \in Names /\ dir[old] \in Dir
        BY <2>1, <2>2, <3>1 DEF moves, old, TypeOK
      <4>. QED
        BY <2>1, <2>2, <3>1, <4>1 DEF TypeOK
    <3>2. CASE ~moves
      BY <2>1, <3>2 DEF TypeOK
    <3>. QED
      BY <3>1, <3>2
  <2>7. TypeOK'
    BY <2>1, <2>3, <2>4, <2>6 DEF TypeOK, attachVars, Renaming
  <2>. QED
    BY <2>5, <2>7
<1>27. ASSUME NEW n \in Names, Ages(n)
      PROVE  TypeOK' /\ Placed'
  <2>1. dir[n] \in Dir
    BY <1>27 DEF Ages, TypeOK
  <2>2. [dir[n] EXCEPT !.stale = TRUE] \in Dir
    BY <2>1 DEF Dir
  <2>3. dir' \in [Names -> Dir \cup {None}]
    BY <1>27, <2>2 DEF Ages, TypeOK
  <2>. QED
    BY <1>27, <2>3 DEF Ages, TypeOK, Placed, attachVars, masterVars
<1>28. ASSUME NEW s \in Sweepers, NEW n \in Names, SweepProbes(s, n)
      PROVE  TypeOK' /\ Placed'
  BY <1>28 DEF SweepProbes, TypeOK, Placed, dirVars, attachVars, masterVars
<1>29. ASSUME NEW s \in Sweepers, SweepLooksAtAge(s)
      PROVE  TypeOK' /\ Placed'
  BY <1>29 DEF SweepLooksAtAge, SweepGo, TypeOK, Placed, dirVars, attachVars,
             masterVars
<1>30. ASSUME NEW s \in Sweepers, SweepRemoves(s)
      PROVE  TypeOK' /\ Placed'
  BY <1>30 DEF SweepRemoves, SweepGo, TypeOK, Placed, Dir, attachVars, masterVars
<1>31. CASE UNCHANGED vars
  BY <1>31 DEF vars, TypeOK, Placed, dirVars, attachVars, masterVars
<1>. QED
  BY <1>1, <1>2, <1>3, <1>4, <1>5, <1>6, <1>7, <1>8, <1>9, <1>10, <1>11, 
     <1>12, <1>13, <1>14, <1>15, <1>16, <1>17, <1>18, <1>19, <1>20, <1>21, <1>22, <1>23, 
     <1>24, <1>25, <1>26, <1>27, <1>28, <1>29, <1>30, <1>31
     DEF Next, AttachNext, MasterNext, RenameNext

-----------------------------------------------------------------------------
\* The lock.

Locking == {"reprobing", "clearing", "forking", "waiting"}
Moving == {"probing", "clearing", "moving"}

\* Nobody else is where it takes the lock to be.
LEMMA OneAttach ==
    ASSUME TypeOK, Placed, LockAlone, NEW c \in Attachers, pc[c] \in Locking
    PROVE  /\ c \in lock
           /\ \A a \in Attachers \ {c} : pc[a] \notin Locking
           /\ \A r \in Renamers : rename[r].pc \notin Moving
           /\ \A m \in Masters : m \in lock => pc[c] = "waiting" /\ m = child[c]
<1>1. c \in lock /\ c \notin Masters /\ c \notin Renamers
  BY SessionDirsAssumption DEF LockAlone, Locking
<1>2. ASSUME NEW a \in Attachers, pc[a] \in Locking
      PROVE  a = c
  <2>1. a \in lock /\ a \notin Masters
    BY <1>2, SessionDirsAssumption DEF LockAlone, Locking
  <2>2. CASE pc[c] # "waiting"
    BY <2>1, <2>2 DEF LockAlone, Locking
  <2>3. CASE pc[a] # "waiting"
    BY <1>1, <1>2, <2>3 DEF LockAlone, Locking
  <2>4. CASE pc[a] = "waiting" /\ pc[c] = "waiting"
    <3>1. lock \subseteq {c, child[c]} /\ lock \subseteq {a, child[a]}
      BY <2>4 DEF LockAlone
    <3>2. child[c] \in Masters
      BY <2>4 DEF TypeOK, Placed
    <3>. QED
      BY <2>1, <3>1, <3>2
  <2>. QED
    BY <2>2, <2>3, <2>4
<1>3. \A r \in Renamers : rename[r].pc \notin Moving
  BY <1>1 DEF LockAlone, Moving
<1>4. \A m \in Masters : m \in lock => pc[c] = "waiting" /\ m = child[c]
  BY <1>1 DEF LockAlone, Locking
<1>. QED
  BY <1>1, <1>2, <1>3, <1>4

LEMMA OneRename ==
    ASSUME TypeOK, Placed, LockAlone, NEW r \in Renamers, rename[r].pc \in Moving
    PROVE  /\ lock = {r}
           /\ \A c \in Attachers : pc[c] \notin Locking
           /\ \A q \in Renamers \ {r} : rename[q].pc \notin Moving
           /\ \A m \in Masters : m \notin lock
<1>1. lock = {r} /\ r \notin Masters \cup Attachers
  BY SessionDirsAssumption DEF LockAlone, Moving
<1>2. \A c \in Attachers : pc[c] \notin Locking
  BY <1>1, OneAttach
<1>3. \A q \in Renamers : rename[q].pc \in Moving => lock = {q}
  BY DEF LockAlone, Moving
<1>. QED
  BY <1>1, <1>2, <1>3

LockInv == TypeOK /\ Placed /\ LockAlone /\ NewHoldsLock

\* Nobody goes back to where the lock is held, and no master that is not ready
\* lets go of it.
LEMMA LockKept ==
    ASSUME LockInv, lock' = lock, child' = child, st' = st, ready' = ready,
           \A c \in Attachers : /\ pc'[c] \in Locking => pc'[c] = pc[c]
                                /\ pc[c] = "late" => pc'[c] = "late",
           \A r \in Renamers : rename'[r].pc \in Moving => rename[r].pc \in Moving
    PROVE  LockAlone' /\ NewHoldsLock'
<1>1. LockAlone'
  BY DEF LockInv, LockAlone, Locking, Moving
<1>2. \A m \in Masters : Orphan(m) => Orphan(m)'
  BY DEF Orphan
<1>3. NewHoldsLock'
  BY <1>2 DEF LockInv, NewHoldsLock
<1>. QED
  BY <1>1, <1>3

\* An attach or a rename unlocks the file, or closes it.
LEMMA LockLeft ==
    ASSUME LockInv, NEW c \in Attachers, pc[c] \in Locking,
           NEW there, there \notin Locking, pc' = [pc EXCEPT ![c] = there],
           \/ lock' = lock \ {c}
           \/ /\ lock' = {}
              /\ pc[c] # "waiting" \/ there = "late" \/ ready[child[c]]
                                   \/ st[child[c]] = "exited",
           child' = child, st' = st, ready' = ready, rename' = rename
    PROVE  LockAlone' /\ NewHoldsLock'
<1>1. pc \in [Attachers -> AttachStates] /\ c \notin Masters
  BY SessionDirsAssumption DEF LockInv, TypeOK, AttachStates
<1>2. /\ \A a \in Attachers : pc'[a] \notin Locking
      /\ \A r \in Renamers : rename'[r].pc \notin Moving
  BY <1>1, OneAttach DEF LockInv
<1>3. LockAlone'
  BY <1>2 DEF LockAlone, Locking, Moving
<1>4. \A m \in Masters : Orphan(m) => Orphan(m)'
  BY <1>1 DEF Orphan, Locking
<1>5. ASSUME NEW m \in Masters, st'[m] \in {"starting", "bound"}
      PROVE  m \in lock' \/ Orphan(m)'
  <2>1. CASE m \notin lock
    BY <1>4, <1>5, <2>1 DEF LockInv, NewHoldsLock
  <2>2. CASE lock' = lock \ {c} /\ m \in lock
    BY <1>1, <2>2
  <2>3. CASE lock' # lock \ {c} /\ m \in lock
    <3>1. pc[c] = "waiting" /\ m = child[c]
      BY <2>3, OneAttach DEF LockInv
    <3>2. ~ready[m] /\ st[m] # "exited"
      BY <1>5 DEF LockInv, NewHoldsLock
    <3>3. there = "late"
      BY <2>3, <3>1, <3>2
    <3>. QED
      BY <1>1, <3>1, <3>3 DEF Orphan
  <2>. QED
    BY <2>1, <2>2, <2>3
<1>6. NewHoldsLock'
  BY <1>5 DEF LockInv, NewHoldsLock
<1>. QED
  BY <1>3, <1>6

\* A master exits: what it and its renames had open is closed.
LEMMA LockExit ==
    ASSUME LockInv, NEW m \in Masters, st[m] # "unused", Exit(m),
           UNCHANGED <<attachVars, ready>>
    PROVE  LockAlone' /\ NewHoldsLock'
<1>1. UNCHANGED <<pc, child, ready>>
  BY DEF attachVars
<1>2. /\ lock' = lock \ ({m} \cup {r \in Renamers : rename[r].by = m})
      /\ st'[m] = "exited"
      /\ \A a \in Masters \ {m} : st'[a] = st[a]
      /\ \A r \in Renamers : rename'[r].pc # "done" =>
                               rename'[r].pc = rename[r].pc /\ rename[r].by # m
  BY ExitIs DEF LockInv
<1>3. LockAlone'
  <2>1. \A c \in Attachers : c \in lock => c \in lock'
    BY <1>2, SessionDirsAssumption
  <2>2. \A r \in Renamers : rename'[r].pc \in Moving =>
                             rename[r].pc \in Moving /\ (r \in lock => r \in lock')
    BY <1>2, SessionDirsAssumption DEF Moving
  <2>3. lock' \subseteq lock
    BY <1>2
  <2>. QED
    BY <1>1, <2>1, <2>2, <2>3 DEF LockInv, LockAlone, Moving
<1>4. \A a \in Masters : Orphan(a) => Orphan(a)'
  BY <1>1 DEF Orphan
<1>5. \A a \in Masters \ {m} : a \in lock => a \in lock'
  BY <1>2, SessionDirsAssumption
<1>6. NewHoldsLock'
  BY <1>1, <1>2, <1>4, <1>5 DEF LockInv, NewHoldsLock
<1>. QED
  BY <1>3, <1>6

LEMMA LockNext == LockInv /\ [Next]_vars => LockAlone' /\ NewHoldsLock'
<1> SUFFICES ASSUME LockInv, [Next]_vars
             PROVE  LockAlone' /\ NewHoldsLock'
  OBVIOUS
<1>a. /\ pc \in [Attachers -> AttachStates] /\ child \in [Attachers -> Masters \cup {None}]
      /\ st \in [Masters -> Serving \cup {"unused", "starting", "exited"}]
      /\ ready \in [Masters -> BOOLEAN]
      /\ rename \in [Renamers -> Renaming]
  BY DEF LockInv, TypeOK, Renaming, AttachStates
<1>1. ASSUME NEW c \in Attachers, NEW n \in Names, StartAttach(c, n)
      PROVE  LockAlone' /\ NewHoldsLock'
  BY <1>a, <1>1, LockKept DEF StartAttach, Go, Locking, Moving, attachVars, masterVars, dirVars
<1>2. ASSUME NEW c \in Attachers, ProbeFirst(c)
      PROVE  LockAlone' /\ NewHoldsLock'
  BY <1>a, <1>2, LockKept DEF ProbeFirst, Go, Locking, Moving, attachVars, masterVars, dirVars
<1>3. ASSUME NEW c \in Attachers, LockToCreate(c)
      PROVE  LockAlone' /\ NewHoldsLock'
  <2>1. /\ pc[c] = "locking" /\ lock = {} /\ lock' = {c}
        /\ pc' = [pc EXCEPT ![c] = "reprobing"]
        /\ UNCHANGED <<child, st, ready, rename>>
    BY <1>3 DEF LockToCreate, Go, masterVars
  <2>2. /\ \A a \in Attachers : pc[a] \notin Locking
        /\ \A r \in Renamers : rename[r].pc \notin Moving
    BY <2>1 DEF LockInv, LockAlone, Locking, Moving
  <2>3. LockAlone'
    BY <1>a, <2>1, <2>2 DEF LockAlone, Locking, Moving
  <2>4. \A a \in Masters : Orphan(a) => Orphan(a)'
    BY <1>a, <2>1 DEF Orphan
  <2>5. NewHoldsLock'
    BY <2>1, <2>4 DEF LockInv, NewHoldsLock
  <2>. QED
    BY <2>3, <2>5
<1>4. ASSUME NEW c \in Attachers, ProbeAgain(c)
      PROVE  LockAlone' /\ NewHoldsLock'
  <2>1. CASE Listening(name[c]) /\ Go(c, "attached") /\ Unlocked
    BY <1>4, <2>1, LockLeft DEF ProbeAgain, Go, Unlocked, Locking, masterVars
  <2>2. CASE ~Listening(name[c]) /\ Go(c, "clearing") /\ UNCHANGED lock
    <3>1. pc' = [pc EXCEPT ![c] = "clearing"] /\ pc[c] = "reprobing"
      BY <1>4, <2>2 DEF ProbeAgain, Go
    <3>2. UNCHANGED <<lock, child, st, ready, rename>>
      BY <1>4, <2>2 DEF ProbeAgain, masterVars
    <3>3. LockAlone'
      BY <1>a, <3>1, <3>2 DEF LockInv, LockAlone
    <3>4. \A a \in Masters : Orphan(a) => Orphan(a)'
      BY <1>a, <3>1, <3>2 DEF Orphan
    <3>5. NewHoldsLock'
      BY <3>2, <3>4 DEF LockInv, NewHoldsLock
    <3>. QED
      BY <3>3, <3>5
  <2>3. CASE Go(c, "failed") /\ Unlocked
    BY <1>4, <2>3, LockLeft DEF ProbeAgain, Go, Unlocked, Locking, masterVars
  <2>. QED
    BY <1>4, <2>1, <2>2, <2>3 DEF ProbeAgain
<1>5. ASSUME NEW c \in Attachers, Clear(c)
      PROVE  LockAlone' /\ NewHoldsLock'
  <2>1. pc' = [pc EXCEPT ![c] = "forking"] /\ pc[c] = "clearing"
    BY <1>5 DEF Clear, Go
  <2>2. UNCHANGED <<lock, child, st, ready, rename>>
    BY <1>5 DEF Clear, masterVars
  <2>3. LockAlone'
    BY <1>a, <2>1, <2>2 DEF LockInv, LockAlone
  <2>4. \A a \in Masters : Orphan(a) => Orphan(a)'
    BY <1>a, <2>1, <2>2 DEF Orphan
  <2>5. NewHoldsLock'
    BY <2>2, <2>4 DEF LockInv, NewHoldsLock
  <2>. QED
    BY <2>3, <2>5
<1>6. ASSUME NEW c \in Attachers, NEW m \in Masters, Fork(c, m)
      PROVE  LockAlone' /\ NewHoldsLock'
  <2>1. /\ pc[c] = "forking" /\ st[m] = "unused" /\ lock' = lock \cup {m}
        /\ pc' = [pc EXCEPT ![c] = "waiting"]
        /\ child' = [child EXCEPT ![c] = m]
        /\ st' = [st EXCEPT ![m] = "starting"]
        /\ UNCHANGED <<ready, rename>>
    BY <1>6 DEF Fork, Go
  <2>2. /\ lock = {c}
        /\ \A a \in Attachers \ {c} : pc[a] \notin Locking
        /\ \A r \in Renamers : rename[r].pc \notin Moving
    BY <2>1, OneAttach DEF LockInv, LockAlone, Locking
  <2>3. LockAlone'
    BY <1>a, <2>1, <2>2 DEF LockAlone, Locking, Moving
  <2>4. \A a \in Masters : Orphan(a) => Orphan(a)'
    BY <1>a, <2>1 DEF Orphan
  <2>5. NewHoldsLock'
    BY <1>a, <2>1, <2>4 DEF LockInv, NewHoldsLock
  <2>. QED
    BY <2>3, <2>5
<1>7. ASSUME NEW c \in Attachers, Spawned(c)
      PROVE  LockAlone' /\ NewHoldsLock'
  <2>1. /\ pc[c] = "waiting" /\ ready[child[c]] /\ lock' = {}
        /\ pc' = [pc EXCEPT ![c] = "connecting"]
        /\ UNCHANGED <<child, st, ready, rename>>
    BY <1>7 DEF Spawned, Go, Unlocked, masterVars
  <2>. QED
    BY <2>1, LockLeft DEF Locking
<1>8. ASSUME NEW c \in Attachers, SpawnFails(c)
      PROVE  LockAlone' /\ NewHoldsLock'
  <2>1. /\ pc[c] = "waiting" /\ st[child[c]] = "exited" /\ lock' = {}
        /\ pc' = [pc EXCEPT ![c] = "failed"]
        /\ UNCHANGED <<child, st, ready, rename>>
    BY <1>8 DEF SpawnFails, GivesUp, Go, Unlocked, masterVars
  <2>. QED
    BY <2>1, LockLeft DEF Locking
<1>9. ASSUME NEW c \in Attachers, SpawnTooLate(c)
      PROVE  LockAlone' /\ NewHoldsLock'
  <2>1. /\ pc[c] = "waiting" /\ lock' = {}
        /\ pc' = [pc EXCEPT ![c] = "late"]
        /\ UNCHANGED <<child, st, ready, rename>>
    BY <1>9 DEF SpawnTooLate, GivesUp, Go, Unlocked, masterVars
  <2>. QED
    BY <2>1, LockLeft DEF Locking
<1>10. ASSUME NEW c \in Attachers, Connect(c)
      PROVE  LockAlone' /\ NewHoldsLock'
  BY <1>a, <1>10, LockKept DEF Connect, Go, Locking, Moving, attachVars, masterVars, dirVars
<1>11. ASSUME NEW c \in Attachers, AttacherKilled(c)
      PROVE  LockAlone' /\ NewHoldsLock'
  <2>1. /\ pc[c] \in Locking \cup {"locking"} /\ lock' = lock \ {c}
        /\ pc' = [pc EXCEPT ![c] = "killed"]
        /\ UNCHANGED <<child, st, ready, rename>>
    BY <1>11 DEF AttacherKilled, Go, Locking, masterVars
  <2>2. CASE pc[c] \in Locking
    BY <2>1, <2>2, LockLeft DEF Locking
  <2>3. CASE pc[c] = "locking"
    <3>1. c \notin Masters \cup Renamers
      BY SessionDirsAssumption
    <3>2. LockAlone'
      BY <1>a, <2>1, <2>3, <3>1 DEF LockInv, LockAlone
    <3>3. \A a \in Masters : Orphan(a) => Orphan(a)'
      BY <1>a, <2>1, <2>3 DEF Orphan
    <3>4. NewHoldsLock'
      BY <2>1, <3>1, <3>3 DEF LockInv, NewHoldsLock
    <3>. QED
      BY <3>2, <3>4
  <2>. QED
    BY <2>1, <2>2, <2>3
<1>12. ASSUME NEW m \in Masters, MasterBinds(m)
      PROVE  LockAlone' /\ NewHoldsLock'
  <2>1. LockAlone'
    BY <1>12 DEF MasterBinds, LockInv, LockAlone, dirVars, attachVars
  <2>2. \A a \in Masters : Orphan(a) => Orphan(a)'
    BY <1>12 DEF MasterBinds, Orphan, attachVars
  <2>3. NewHoldsLock'
    BY <1>a, <1>12, <2>2 DEF MasterBinds, LockInv, NewHoldsLock, dirVars
  <2>. QED
    BY <2>1, <2>3
<1>13. ASSUME NEW m \in Masters, MasterReady(m)
      PROVE  LockAlone' /\ NewHoldsLock'
  <2>1. LockAlone'
    BY <1>13 DEF MasterReady, LockInv, LockAlone, dirVars, attachVars
  <2>2. \A a \in Masters : Orphan(a) => Orphan(a)'
    BY <1>13 DEF MasterReady, Orphan, attachVars
  <2>3. NewHoldsLock'
    BY <1>a, <1>13, <2>2 DEF MasterReady, LockInv, NewHoldsLock, dirVars
  <2>. QED
    BY <2>1, <2>3
<1>14. ASSUME NEW m \in Masters, MasterFails(m)
      PROVE  LockAlone' /\ NewHoldsLock'
  <2>1. /\ st[m] # "unused" /\ Exit(m)
        /\ UNCHANGED <<attachVars, ready>>
    BY <1>14 DEF MasterFails, Serving
  <2>. QED
    BY <2>1, LockExit
<1>15. ASSUME NEW m \in Masters, FinishCopies(m)
      PROVE  LockAlone' /\ NewHoldsLock'
  <2>1. LockAlone'
    BY <1>15 DEF FinishCopies, LockInv, LockAlone, dirVars, attachVars
  <2>2. \A a \in Masters : Orphan(a) => Orphan(a)'
    BY <1>15 DEF FinishCopies, Orphan, attachVars
  <2>3. NewHoldsLock'
    BY <1>a, <1>15, <2>2 DEF FinishCopies, LockInv, NewHoldsLock, dirVars
  <2>. QED
    BY <2>1, <2>3
<1>16. ASSUME NEW m \in Masters, FinishUnlinks(m)
      PROVE  LockAlone' /\ NewHoldsLock'
  <2>1. LockAlone'
    BY <1>16 DEF FinishUnlinks, LockInv, LockAlone, dirVars, attachVars
  <2>2. \A a \in Masters : Orphan(a) => Orphan(a)'
    BY <1>16 DEF FinishUnlinks, Orphan, attachVars
  <2>3. NewHoldsLock'
    BY <1>a, <1>16, <2>2 DEF FinishUnlinks, LockInv, NewHoldsLock, dirVars
  <2>. QED
    BY <2>1, <2>3
<1>17. ASSUME NEW m \in Masters, FinishExits(m)
      PROVE  LockAlone' /\ NewHoldsLock'
  <2>1. /\ st[m] # "unused" /\ Exit(m)
        /\ UNCHANGED <<attachVars, ready>>
    BY <1>17 DEF FinishExits, Serving
  <2>. QED
    BY <2>1, LockExit
<1>18. ASSUME NEW m \in Masters, FlushCopies(m)
      PROVE  LockAlone' /\ NewHoldsLock'
  BY <1>18, LockKept DEF FlushCopies, Locking, Moving, attachVars, masterVars, dirVars
<1>19. ASSUME NEW m \in Masters, FlushWrites(m)
      PROVE  LockAlone' /\ NewHoldsLock'
  BY <1>19, LockKept DEF FlushWrites, Locking, Moving, attachVars, masterVars, dirVars
<1>20. ASSUME NEW m \in Masters, ShellExits(m)
      PROVE  LockAlone' /\ NewHoldsLock'
  <2>1. LockAlone'
    BY <1>20 DEF ShellExits, LockInv, LockAlone, dirVars, attachVars
  <2>2. \A a \in Masters : Orphan(a) => Orphan(a)'
    BY <1>20 DEF ShellExits, Orphan, attachVars
  <2>3. NewHoldsLock'
    BY <1>a, <1>20, <2>2 DEF ShellExits, LockInv, NewHoldsLock, dirVars
  <2>. QED
    BY <2>1, <2>3
<1>21. ASSUME NEW m \in Masters, Crash(m)
      PROVE  LockAlone' /\ NewHoldsLock'
  <2>1. /\ st[m] # "unused" /\ Exit(m)
        /\ UNCHANGED <<attachVars, ready>>
    BY <1>21 DEF Crash, Serving
  <2>. QED
    BY <2>1, LockExit
<1>22. ASSUME NEW r \in Renamers, NEW m \in Masters, NEW n \in Names, StartRename(r, m, n)
      PROVE  LockAlone' /\ NewHoldsLock'
  <2>1. \A q \in Renamers : rename'[q].pc \in Moving => rename[q].pc \in Moving
    BY <1>a, <1>22 DEF StartRename, Moving
  <2>. QED
    BY <1>22, <2>1, LockKept DEF StartRename, dirVars, attachVars, masterVars
<1>23. ASSUME NEW r \in Renamers, LockToRename(r)
      PROVE  LockAlone' /\ NewHoldsLock'
  <2>1. /\ lock = {} /\ lock' = {r} /\ RenameGo(r, "probing")
        /\ UNCHANGED <<pc, child, st, ready>>
    BY <1>23 DEF LockToRename, attachVars, masterVars
  <2>2. /\ \A a \in Attachers : pc[a] \notin Locking
        /\ \A q \in Renamers : rename[q].pc \notin Moving
    BY <2>1 DEF LockInv, LockAlone, Locking, Moving
  <2>3. \A q \in Renamers \ {r} : rename'[q].pc = rename[q].pc
    BY <1>a, <2>1 DEF RenameGo
  <2>4. LockAlone'
    BY <2>1, <2>2, <2>3 DEF LockAlone, Locking, Moving
  <2>5. \A a \in Masters : Orphan(a) => Orphan(a)'
    BY <2>1 DEF Orphan
  <2>6. NewHoldsLock'
    BY <2>1, <2>5 DEF LockInv, NewHoldsLock
  <2>. QED
    BY <2>4, <2>6
<1>24. ASSUME NEW r \in Renamers, ProbeDestination(r)
      PROVE  LockAlone' /\ NewHoldsLock'
  <2>1. /\ rename[r].pc \in Moving
        /\ \/ lock' = lock
           \/ lock' = {} /\ RenameGo(r, "done")
        /\ \E there \in {"moving", "clearing", "done"} : RenameGo(r, there)
        /\ UNCHANGED <<pc, child, st, ready>>
    BY <1>24 DEF ProbeDestination, Unlocked, Moving, attachVars, masterVars
  <2>2. \A q \in Renamers \ {r} : rename'[q].pc = rename[q].pc
    BY <1>a, <2>1 DEF RenameGo
  <2>3. CASE lock' = lock
    BY <2>1, <2>2, <2>3, LockKept DEF Locking
  <2>4. CASE lock' = {} /\ RenameGo(r, "done")
    <3>1. rename'[r].pc = "done"
      BY <1>a, <2>4 DEF RenameGo
    <3>2. LockAlone'
      BY <2>1, <2>2, <3>1, OneRename DEF LockInv, LockAlone, Locking, Moving
    <3>3. \A a \in Masters : Orphan(a) => Orphan(a)'
      BY <2>1 DEF Orphan
    <3>4. NewHoldsLock'
      BY <2>1, <3>3, OneRename DEF LockInv, NewHoldsLock
    <3>. QED
      BY <3>2, <3>4
  <2>. QED
    BY <2>1, <2>3, <2>4
<1>25. ASSUME NEW r \in Renamers, ClearDestination(r)
      PROVE  LockAlone' /\ NewHoldsLock'
  <2>1. /\ rename[r].pc \in Moving
        /\ \/ lock' = lock
           \/ lock' = {} /\ RenameGo(r, "done")
        /\ \E there \in {"moving", "done"} : RenameGo(r, there)
        /\ UNCHANGED <<pc, child, st, ready>>
    BY <1>25 DEF ClearDestination, Unlocked, Moving, attachVars, masterVars
  <2>2. \A q \in Renamers \ {r} : rename'[q].pc = rename[q].pc
    BY <1>a, <2>1 DEF RenameGo
  <2>3. CASE lock' = lock
    BY <2>1, <2>2, <2>3, LockKept DEF Locking
  <2>4. CASE lock' = {} /\ RenameGo(r, "done")
    <3>1. rename'[r].pc = "done"
      BY <1>a, <2>4 DEF RenameGo
    <3>2. LockAlone'
      BY <2>1, <2>2, <3>1, OneRename DEF LockInv, LockAlone, Locking, Moving
    <3>3. \A a \in Masters : Orphan(a) => Orphan(a)'
      BY <2>1 DEF Orphan
    <3>4. NewHoldsLock'
      BY <2>1, <3>3, OneRename DEF LockInv, NewHoldsLock
    <3>. QED
      BY <3>2, <3>4
  <2>. QED
    BY <2>1, <2>3, <2>4
<1>26. ASSUME NEW r \in Renamers, Move(r)
      PROVE  LockAlone' /\ NewHoldsLock'
  <2>1. /\ rename[r].pc \in Moving
        /\ \/ lock' = lock
           \/ lock' = {} /\ RenameGo(r, "done")
        /\ \E there \in {"done"} : RenameGo(r, there)
        /\ UNCHANGED <<pc, child, st, ready>>
    BY <1>26 DEF Move, Unlocked, Moving, attachVars, masterVars
  <2>2. \A q \in Renamers \ {r} : rename'[q].pc = rename[q].pc
    BY <1>a, <2>1 DEF RenameGo
  <2>3. CASE lock' = lock
    BY <2>1, <2>2, <2>3, LockKept DEF Locking
  <2>4. CASE lock' = {} /\ RenameGo(r, "done")
    <3>1. rename'[r].pc = "done"
      BY <1>a, <2>4 DEF RenameGo
    <3>2. LockAlone'
      BY <2>1, <2>2, <3>1, OneRename DEF LockInv, LockAlone, Locking, Moving
    <3>3. \A a \in Masters : Orphan(a) => Orphan(a)'
      BY <2>1 DEF Orphan
    <3>4. NewHoldsLock'
      BY <2>1, <3>3, OneRename DEF LockInv, NewHoldsLock
    <3>. QED
      BY <3>2, <3>4
  <2>. QED
    BY <2>1, <2>3, <2>4
<1>27. ASSUME NEW n \in Names, Ages(n)
      PROVE  LockAlone' /\ NewHoldsLock'
  BY <1>27, LockKept DEF Ages, Locking, Moving, attachVars, masterVars, dirVars
<1>28. ASSUME NEW s \in Sweepers, NEW n \in Names, SweepProbes(s, n)
      PROVE  LockAlone' /\ NewHoldsLock'
  BY <1>28, LockKept DEF SweepProbes, Locking, Moving, attachVars, masterVars, dirVars
<1>29. ASSUME NEW s \in Sweepers, SweepLooksAtAge(s)
      PROVE  LockAlone' /\ NewHoldsLock'
  BY <1>29, LockKept DEF SweepLooksAtAge, Locking, Moving, attachVars, masterVars, dirVars
<1>30. ASSUME NEW s \in Sweepers, SweepRemoves(s)
      PROVE  LockAlone' /\ NewHoldsLock'
  BY <1>30, LockKept DEF SweepRemoves, Locking, Moving, attachVars, masterVars, dirVars
<1>31. CASE UNCHANGED vars
  BY <1>31, LockKept DEF vars, Locking, Moving, dirVars, attachVars, masterVars
<1>. QED
  BY <1>1, <1>2, <1>3, <1>4, <1>5, <1>6, <1>7, <1>8, <1>9, <1>10, <1>11, 
     <1>12, <1>13, <1>14, <1>15, <1>16, <1>17, <1>18, <1>19, <1>20, <1>21, <1>22, <1>23, 
     <1>24, <1>25, <1>26, <1>27, <1>28, <1>29, <1>30, <1>31
     DEF Next, AttachNext, MasterNext, RenameNext

-----------------------------------------------------------------------------
\* The dead stay dead.

\* No socket comes to be, no master that has one begins to serve, and nobody
\* sets out to delete a directory.
SocketsGo == \A n \in Names : dir'[n] # None /\ dir'[n].socket # None =>
                              dir[n] # None /\ dir'[n].socket = dir[n].socket
MastersEnd ==
    \A m \in Masters : /\ st'[m] \in Serving => st[m] \in Serving
                       /\ st[m] \in Serving \cup {"exited"} =>
                            st'[m] \in Serving \cup {"exited"}
OrphansStay == \A m \in Masters : Orphan(m) => Orphan(m)'
Following ==
    /\ \A c \in Attachers :
         /\ pc'[c] \in {"clearing", "forking"} =>
              /\ name'[c] = name[c] /\ pc[c] # "idle"
              /\ pc[c] \in {"clearing", "forking"} \/ ~Listening(name[c])
         /\ pc'[c] = "waiting" =>
              /\ name'[c] = name[c] /\ pc[c] # "idle"
              /\ \/ pc[c] = "waiting" /\ child'[c] = child[c]
                 \/ NobodyToLose(name[c])
    /\ \A r \in Renamers :
         rename'[r].pc = "clearing" =>
           /\ rename'[r].to = rename[r].to /\ rename[r].pc # "idle"
           /\ rename[r].pc = "clearing" \/ ~Listening(rename[r].to)


LEMMA QuietSockets ==
    ASSUME TypeOK, SocketsAreBound, SocketsGo, MastersEnd, OrphansStay
    PROVE  /\ SocketsAreBound'
           /\ \A n \in Names : Listening(n)' => /\ Listening(n)
                                               /\ dir'[n].socket = dir[n].socket
                                               /\ dir[n].socket \in Masters
           /\ \A n \in Names : NobodyToLose(n) => NobodyToLose(n)'
<1>1. \A n \in Names : dir[n] # None /\ dir[n].socket # None =>
                         dir[n].socket \in Masters
  BY DEF TypeOK, Dir
<1>2. SocketsAreBound'
  BY <1>1 DEF SocketsAreBound, SocketsGo, MastersEnd
<1>3. \A n \in Names : Listening(n)' => /\ Listening(n)
                                         /\ dir'[n].socket = dir[n].socket
                                         /\ dir[n].socket \in Masters
  BY <1>1 DEF Listening, SocketsGo, MastersEnd
<1>4. \A n \in Names : NobodyToLose(n) => NobodyToLose(n)'
  BY <1>3 DEF NobodyToLose, OrphansStay
<1>. QED
  BY <1>2, <1>3, <1>4

LEMMA DeadStay ==
    ASSUME TypeOK, Placed, SocketsAreBound, DeadStayDead,
           SocketsGo, MastersEnd, OrphansStay, Following
    PROVE  SocketsAreBound' /\ DeadStayDead'
<1>1. /\ \A c \in Attachers : pc[c] # "idle" => name[c] \in Names
      /\ \A r \in Renamers : rename[r].pc # "idle" => rename[r].to \in Names
  BY DEF TypeOK, Placed
<1>2. ASSUME NEW c \in Attachers
      PROVE  /\ pc'[c] \in {"clearing", "forking"} => NobodyToLose(name[c])'
             /\ pc'[c] = "waiting" /\ Listening(name[c])' =>
                  \/ dir'[name'[c]].socket = child'[c]
                  \/ Orphan(dir[name[c]].socket)'
  <2>1. CASE pc'[c] \in {"clearing", "forking"}
    <3>1. /\ pc[c] \in {"clearing", "forking"} \/ ~Listening(name[c])
          /\ name'[c] = name[c] /\ name[c] \in Names
      BY <1>1, <2>1 DEF Following
    <3>2. NobodyToLose(name[c])
      BY <3>1 DEF DeadStayDead, NobodyToLose
    <3>. QED
      BY <2>1, <3>1, <3>2, QuietSockets DEF NobodyToLose, Listening, Orphan
  <2>2. CASE pc'[c] = "waiting"
    <3>1. /\ \/ pc[c] = "waiting" /\ child'[c] = child[c]
             \/ NobodyToLose(name[c])
          /\ name'[c] = name[c] /\ name[c] \in Names
      BY <1>1, <2>2 DEF Following
    <3>2. ASSUME Listening(name[c])'
          PROVE  dir'[name'[c]].socket = child'[c] \/ Orphan(dir[name[c]].socket)'
      <4> DEFINE n == name[c]
      <4>1. Listening(n)' => /\ Listening(n)
                             /\ dir'[n].socket = dir[n].socket
                             /\ dir[n].socket \in Masters
        BY <3>1, QuietSockets
      <4>2. Listening(n)
        BY <3>1, <3>2, <4>1 DEF Listening
      <4>. QED
        BY <3>1, <3>2, <4>1, <4>2
           DEF DeadStayDead, NobodyToLose, Listening, OrphansStay, Orphan
    <3>. QED
      BY <2>2, <3>2
  <2>. QED
    BY <2>1, <2>2
<1>3. ASSUME NEW r \in Renamers, rename'[r].pc = "clearing"
      PROVE  NobodyToLose(rename[r].to)'
  <2>1. /\ rename[r].pc = "clearing" \/ ~Listening(rename[r].to)
        /\ rename'[r].to = rename[r].to /\ rename[r].to \in Names
    BY <1>1, <1>3 DEF Following
  <2>2. NobodyToLose(rename[r].to)
    BY <2>1 DEF DeadStayDead, NobodyToLose
  <2>. QED
    BY <2>1, <2>2, QuietSockets DEF NobodyToLose, Listening, Orphan
<1>4. DeadStayDead'
  BY <1>2, <1>3 DEF DeadStayDead
<1>. QED
  BY <1>4, QuietSockets

LEMMA DeadNext ==
    DirsInv /\ [Next]_vars => SocketsAreBound' /\ DeadStayDead'
<1> SUFFICES ASSUME DirsInv, [Next]_vars
             PROVE  SocketsAreBound' /\ DeadStayDead'
  OBVIOUS
<1>a. /\ pc \in [Attachers -> AttachStates] /\ child \in [Attachers -> Masters \cup {None}]
      /\ name \in [Attachers -> Names \cup {None}]
      /\ st \in [Masters -> Serving \cup {"unused", "starting", "exited"}]
      /\ ready \in [Masters -> BOOLEAN]
      /\ rename \in [Renamers -> Renaming]
      /\ dir \in [Names -> Dir \cup {None}]
  BY DEF DirsInv, TypeOK, Renaming, AttachStates
<1>b. TypeOK /\ Placed /\ LockAlone /\ NewHoldsLock /\ SocketsAreBound /\ DeadStayDead
  BY DEF DirsInv
<1>c. ASSUME SocketsGo, MastersEnd, OrphansStay, Following
      PROVE  SocketsAreBound' /\ DeadStayDead'
  BY <1>b, <1>c, DeadStay
<1>d. /\ \A c \in Attachers : pc[c] # "idle" => name[c] \in Names
      /\ \A r \in Renamers : rename[r].pc # "idle" => rename[r].to \in Names
  BY <1>b DEF TypeOK, Placed
<1>1. ASSUME NEW c \in Attachers, NEW n \in Names, StartAttach(c, n)
      PROVE  SocketsAreBound' /\ DeadStayDead'
  <2>1. SocketsGo
    BY <1>a, <1>1 DEF StartAttach, SocketsGo, dirVars, attachVars, masterVars
  <2>2. MastersEnd
    BY <1>a, <1>1 DEF StartAttach, MastersEnd, Serving, dirVars, attachVars, masterVars
  <2>3. OrphansStay
    BY <1>a, <1>1 DEF StartAttach, OrphansStay, Orphan, dirVars, attachVars, masterVars, Go
  <2>4. Following
    BY <1>a, <1>1 DEF StartAttach, Following, dirVars, attachVars, masterVars, Go
  <2>. QED
    BY <1>c, <2>1, <2>2, <2>3, <2>4
<1>2. ASSUME NEW c \in Attachers, ProbeFirst(c)
      PROVE  SocketsAreBound' /\ DeadStayDead'
  <2>1. SocketsGo
    BY <1>a, <1>2 DEF ProbeFirst, SocketsGo, dirVars, attachVars, masterVars
  <2>2. MastersEnd
    BY <1>a, <1>2 DEF ProbeFirst, MastersEnd, Serving, dirVars, attachVars, masterVars
  <2>3. OrphansStay
    BY <1>a, <1>2 DEF ProbeFirst, OrphansStay, Orphan, dirVars, attachVars, masterVars, Go
  <2>4. Following
    BY <1>a, <1>2 DEF ProbeFirst, Following, dirVars, attachVars, masterVars, Go
  <2>. QED
    BY <1>c, <2>1, <2>2, <2>3, <2>4
<1>3. ASSUME NEW c \in Attachers, LockToCreate(c)
      PROVE  SocketsAreBound' /\ DeadStayDead'
  <2>1. SocketsGo
    BY <1>a, <1>3 DEF LockToCreate, SocketsGo, dirVars, attachVars, masterVars
  <2>2. MastersEnd
    BY <1>a, <1>3 DEF LockToCreate, MastersEnd, Serving, dirVars, attachVars, masterVars
  <2>3. OrphansStay
    BY <1>a, <1>3 DEF LockToCreate, OrphansStay, Orphan, dirVars, attachVars, masterVars, Go
  <2>4. Following
    BY <1>a, <1>3 DEF LockToCreate, Following, dirVars, attachVars, masterVars, Go
  <2>. QED
    BY <1>c, <2>1, <2>2, <2>3, <2>4
<1>4. ASSUME NEW c \in Attachers, ProbeAgain(c)
      PROVE  SocketsAreBound' /\ DeadStayDead'
  <2>1. SocketsGo
    BY <1>a, <1>4 DEF ProbeAgain, SocketsGo, dirVars, attachVars, masterVars
  <2>2. MastersEnd
    BY <1>a, <1>4 DEF ProbeAgain, MastersEnd, Serving, dirVars, attachVars, masterVars
  <2>3. OrphansStay
    BY <1>a, <1>4 DEF ProbeAgain, OrphansStay, Orphan, dirVars, attachVars, masterVars, Go
  <2>4. Following
    BY <1>a, <1>4 DEF ProbeAgain, Following, dirVars, attachVars, masterVars, Go
  <2>. QED
    BY <1>c, <2>1, <2>2, <2>3, <2>4
<1>5. ASSUME NEW c \in Attachers, Clear(c)
      PROVE  SocketsAreBound' /\ DeadStayDead'
  <2>1. SocketsGo
    BY <1>a, <1>5 DEF Clear, SocketsGo, EmptyDir
  <2>2. MastersEnd
    BY <1>a, <1>5 DEF Clear, MastersEnd, Serving, dirVars, attachVars, masterVars
  <2>3. OrphansStay
    BY <1>a, <1>5 DEF Clear, OrphansStay, Orphan, dirVars, attachVars, masterVars, Go
  <2>4. Following
    BY <1>a, <1>5 DEF Clear, Following, dirVars, attachVars, masterVars, Go
  <2>. QED
    BY <1>c, <2>1, <2>2, <2>3, <2>4
<1>6. ASSUME NEW c \in Attachers, NEW m \in Masters, Fork(c, m)
      PROVE  SocketsAreBound' /\ DeadStayDead'
  <2>1. SocketsGo
    BY <1>a, <1>6 DEF Fork, SocketsGo, dirVars, attachVars, masterVars
  <2>2. MastersEnd
    BY <1>a, <1>6 DEF Fork, MastersEnd, Serving, dirVars, attachVars, masterVars
  <2>3. OrphansStay
    BY <1>a, <1>6 DEF Fork, OrphansStay, Orphan, Go
  <2>4. Following
    BY <1>a, <1>b, <1>6 DEF Fork, Following, Go, DeadStayDead
  <2>. QED
    BY <1>c, <2>1, <2>2, <2>3, <2>4
<1>7. ASSUME NEW c \in Attachers, Spawned(c)
      PROVE  SocketsAreBound' /\ DeadStayDead'
  <2>1. SocketsGo
    BY <1>a, <1>7 DEF Spawned, SocketsGo, dirVars, attachVars, masterVars
  <2>2. MastersEnd
    BY <1>a, <1>7 DEF Spawned, MastersEnd, Serving, dirVars, attachVars, masterVars
  <2>3. OrphansStay
    BY <1>a, <1>7 DEF Spawned, OrphansStay, Orphan, dirVars, attachVars, masterVars, Go
  <2>4. Following
    BY <1>a, <1>7 DEF Spawned, Following, dirVars, attachVars, masterVars, Go
  <2>. QED
    BY <1>c, <2>1, <2>2, <2>3, <2>4
<1>8. ASSUME NEW c \in Attachers, SpawnFails(c)
      PROVE  SocketsAreBound' /\ DeadStayDead'
  <2>1. SocketsGo
    BY <1>a, <1>8 DEF SpawnFails, SocketsGo, GivesUp
  <2>2. MastersEnd
    BY <1>a, <1>8 DEF SpawnFails, MastersEnd, Serving, GivesUp, masterVars
  <2>3. OrphansStay
    BY <1>a, <1>8 DEF SpawnFails, OrphansStay, Orphan, GivesUp, Go
  <2>4. Following
    BY <1>a, <1>8 DEF SpawnFails, Following, GivesUp, Go
  <2>. QED
    BY <1>c, <2>1, <2>2, <2>3, <2>4
<1>9. ASSUME NEW c \in Attachers, SpawnTooLate(c)
      PROVE  SocketsAreBound' /\ DeadStayDead'
  <2>1. SocketsGo
    BY <1>a, <1>9 DEF SpawnTooLate, SocketsGo, GivesUp
  <2>2. MastersEnd
    BY <1>a, <1>9 DEF SpawnTooLate, MastersEnd, Serving, GivesUp, masterVars
  <2>3. OrphansStay
    BY <1>a, <1>9 DEF SpawnTooLate, OrphansStay, Orphan, GivesUp, Go
  <2>4. Following
    BY <1>a, <1>9 DEF SpawnTooLate, Following, GivesUp, Go
  <2>. QED
    BY <1>c, <2>1, <2>2, <2>3, <2>4
<1>10. ASSUME NEW c \in Attachers, Connect(c)
      PROVE  SocketsAreBound' /\ DeadStayDead'
  <2>1. SocketsGo
    BY <1>a, <1>10 DEF Connect, SocketsGo, dirVars, attachVars, masterVars
  <2>2. MastersEnd
    BY <1>a, <1>10 DEF Connect, MastersEnd, Serving, dirVars, attachVars, masterVars
  <2>3. OrphansStay
    BY <1>a, <1>10 DEF Connect, OrphansStay, Orphan, dirVars, attachVars, masterVars, Go
  <2>4. Following
    BY <1>a, <1>10 DEF Connect, Following, dirVars, attachVars, masterVars, Go
  <2>. QED
    BY <1>c, <2>1, <2>2, <2>3, <2>4
<1>11. ASSUME NEW c \in Attachers, AttacherKilled(c)
      PROVE  SocketsAreBound' /\ DeadStayDead'
  <2>1. SocketsGo
    BY <1>a, <1>11 DEF AttacherKilled, SocketsGo, dirVars, attachVars, masterVars
  <2>2. MastersEnd
    BY <1>a, <1>11 DEF AttacherKilled, MastersEnd, Serving, dirVars, attachVars, masterVars
  <2>3. OrphansStay
    BY <1>a, <1>11 DEF AttacherKilled, OrphansStay, Orphan, dirVars, attachVars, masterVars, Go
  <2>4. Following
    BY <1>a, <1>11 DEF AttacherKilled, Following, dirVars, attachVars, masterVars, Go
  <2>. QED
    BY <1>c, <2>1, <2>2, <2>3, <2>4
<1>12. ASSUME NEW m \in Masters, MasterBinds(m)
      PROVE  SocketsAreBound' /\ DeadStayDead'
  <2> DEFINE p == path[m]
  <2>1. /\ st[m] = "starting" /\ dir[p] # None
        /\ dir' = [dir EXCEPT ![p].socket = m]
        /\ st' = [st EXCEPT ![m] = "bound"]
        /\ UNCHANGED <<pc, name, child, rename>>
    BY <1>12 DEF MasterBinds, attachVars
  <2>2. p \in Names /\ dir[p] \in Dir
    BY <1>b, <2>1 DEF TypeOK
  <2>3. dir'[p] \in Dir /\ dir'[p].socket = m /\ m # None
    BY <1>a, <2>1, <2>2, SessionDirsAssumption DEF Dir
  <2>4. \A n \in Names \ {p} : dir'[n] = dir[n]
    BY <1>a, <2>1
  <2>5. OrphansStay
    BY <2>1 DEF OrphansStay, Orphan
  <2>6. SocketsAreBound'
    BY <1>a, <1>b, <2>1, <2>3, <2>4 DEF SocketsAreBound, Serving, TypeOK, Dir
  <2>7. \A n \in Names \ {p} :
          Listening(n)' => Listening(n) /\ dir'[n].socket = dir[n].socket
    BY <1>a, <1>b, <2>1, <2>4 DEF Listening, SocketsAreBound, Serving, TypeOK, Dir
  <2>8. \A n \in Names \ {p} : NobodyToLose(n) => NobodyToLose(n)'
    BY <1>a, <2>4, <2>5, <2>7 DEF NobodyToLose, OrphansStay, Listening, Dir
  <2>9. m \in lock \/ Orphan(m)
    BY <1>b, <2>1 DEF NewHoldsLock
  <2>10. Orphan(m) => \A n \in Names : NobodyToLose(n) => NobodyToLose(n)'
    BY <2>3, <2>5, <2>8 DEF NobodyToLose, OrphansStay, Orphan
  <2>11. ASSUME NEW c \in Attachers
         PROVE  /\ pc'[c] \in {"clearing", "forking"} => NobodyToLose(name[c])'
                /\ pc'[c] = "waiting" /\ Listening(name[c])' =>
                     \/ dir'[name'[c]].socket = child'[c]
                     \/ Orphan(dir[name[c]].socket)'
    <3>1. CASE pc[c] \in {"clearing", "forking"}
      <4>1. m \notin lock
        BY <1>b, <3>1, OneAttach DEF Locking
      <4>2. NobodyToLose(name[c]) /\ name[c] \in Names
        BY <1>b, <1>d, <3>1 DEF DeadStayDead
      <4>3. NobodyToLose(name[c])'
        BY <2>1, <2>9, <2>10, <4>1, <4>2 DEF NobodyToLose, Listening, Orphan
      <4>. QED
        BY <2>1, <3>1, <4>3
    <3>2. CASE pc[c] = "waiting"
      <4>1. name[c] \in Names /\ name'[c] = name[c] /\ child'[c] = child[c]
        BY <1>d, <2>1, <3>2
      <4>2. CASE name[c] = p
        <5>1. m = child[c] \/ Orphan(m)
          BY <1>b, <2>9, <3>2, OneAttach DEF Locking
        <5>. QED
          BY <2>1, <2>3, <2>5, <3>2, <4>1, <4>2, <5>1 DEF OrphansStay, Orphan
      <4>3. CASE name[c] # p /\ Listening(name[c])'
        <5>1. Listening(name[c]) /\ dir'[name[c]].socket = dir[name[c]].socket
          BY <2>7, <4>1, <4>3 DEF Listening
        <5>2. dir[name[c]].socket = child[c] \/ Orphan(dir[name[c]].socket)
          BY <1>b, <3>2, <5>1 DEF DeadStayDead
        <5>3. dir[name[c]].socket \in Masters
          BY <1>a, <4>1, <5>1 DEF Listening, Dir
        <5>. QED
          BY <2>1, <2>5, <3>2, <4>1, <5>1, <5>2, <5>3 DEF OrphansStay, Orphan
      <4>. QED
        BY <2>1, <3>2, <4>2, <4>3
    <3>. QED
      BY <2>1, <3>1, <3>2
  <2>12. ASSUME NEW r \in Renamers, rename'[r].pc = "clearing"
         PROVE  NobodyToLose(rename[r].to)'
    <3>1. rename[r].pc = "clearing" /\ rename'[r].to = rename[r].to
      BY <2>1, <2>12
    <3>2. m \notin lock
      BY <1>b, <3>1, OneRename DEF Moving
    <3>3. NobodyToLose(rename[r].to) /\ rename[r].to \in Names
      BY <1>b, <1>d, <3>1 DEF DeadStayDead
    <3>. QED
      BY <2>9, <2>10, <3>1, <3>2, <3>3 DEF NobodyToLose, Listening, Orphan
  <2>13. DeadStayDead'
    BY <2>11, <2>12 DEF DeadStayDead
  <2>. QED
    BY <2>6, <2>13
<1>13. ASSUME NEW m \in Masters, MasterReady(m)
      PROVE  SocketsAreBound' /\ DeadStayDead'
  <2>1. SocketsGo
    BY <1>a, <1>13 DEF MasterReady, SocketsGo, dirVars, attachVars, masterVars
  <2>2. MastersEnd
    BY <1>a, <1>13 DEF MasterReady, MastersEnd, Serving, dirVars, attachVars, masterVars
  <2>3. OrphansStay
    BY <1>a, <1>13 DEF MasterReady, OrphansStay, Orphan, dirVars, attachVars, masterVars
  <2>4. Following
    BY <1>a, <1>13 DEF MasterReady, Following, dirVars, attachVars, masterVars
  <2>. QED
    BY <1>c, <2>1, <2>2, <2>3, <2>4
<1>14. ASSUME NEW m \in Masters, MasterFails(m)
      PROVE  SocketsAreBound' /\ DeadStayDead'
  <2>a. /\ st'[m] = "exited"
        /\ \A a \in Masters \ {m} : st'[a] = st[a]
        /\ UNCHANGED <<pc, name, child>>
        /\ \A r \in Renamers : rename'[r].pc = "clearing" =>
                                 rename'[r] = rename[r]
    <3>1. Exit(m) /\ st[m] # "unused" /\ UNCHANGED attachVars
      BY <1>14 DEF MasterFails, Serving
    <3>2. \A r \in Renamers : rename'[r].pc = "clearing" => rename'[r] = rename[r]
      BY <1>a, <3>1 DEF Exit, Renaming
    <3>. QED
      BY <1>b, <3>1, <3>2, ExitIs DEF attachVars
  <2>1. SocketsGo
    BY <1>a, <1>14 DEF MasterFails, SocketsGo, dirVars, attachVars, masterVars
  <2>2. MastersEnd
    BY <2>a DEF MastersEnd, Serving
  <2>3. OrphansStay
    BY <1>a, <1>14 DEF MasterFails, OrphansStay, Orphan, dirVars, attachVars, masterVars
  <2>4. Following
    BY <2>a DEF Following
  <2>. QED
    BY <1>c, <2>1, <2>2, <2>3, <2>4
<1>15. ASSUME NEW m \in Masters, FinishCopies(m)
      PROVE  SocketsAreBound' /\ DeadStayDead'
  <2>1. SocketsGo
    BY <1>a, <1>15 DEF FinishCopies, SocketsGo, dirVars, attachVars, masterVars
  <2>2. MastersEnd
    BY <1>a, <1>15 DEF FinishCopies, MastersEnd, Serving, dirVars, attachVars, masterVars
  <2>3. OrphansStay
    BY <1>a, <1>15 DEF FinishCopies, OrphansStay, Orphan, dirVars, attachVars, masterVars
  <2>4. Following
    BY <1>a, <1>15 DEF FinishCopies, Following, dirVars, attachVars, masterVars
  <2>. QED
    BY <1>c, <2>1, <2>2, <2>3, <2>4
<1>16. ASSUME NEW m \in Masters, FinishUnlinks(m)
      PROVE  SocketsAreBound' /\ DeadStayDead'
  <2>1. SocketsGo
    BY <1>a, <1>16 DEF FinishUnlinks, SocketsGo, EmptyDir
  <2>2. MastersEnd
    BY <1>a, <1>16 DEF FinishUnlinks, MastersEnd, Serving, dirVars, attachVars, masterVars
  <2>3. OrphansStay
    BY <1>a, <1>16 DEF FinishUnlinks, OrphansStay, Orphan, dirVars, attachVars, masterVars
  <2>4. Following
    BY <1>a, <1>16 DEF FinishUnlinks, Following, dirVars, attachVars, masterVars
  <2>. QED
    BY <1>c, <2>1, <2>2, <2>3, <2>4
<1>17. ASSUME NEW m \in Masters, FinishExits(m)
      PROVE  SocketsAreBound' /\ DeadStayDead'
  <2>a. /\ st'[m] = "exited"
        /\ \A a \in Masters \ {m} : st'[a] = st[a]
        /\ UNCHANGED <<pc, name, child>>
        /\ \A r \in Renamers : rename'[r].pc = "clearing" =>
                                 rename'[r] = rename[r]
    <3>1. Exit(m) /\ st[m] # "unused" /\ UNCHANGED attachVars
      BY <1>17 DEF FinishExits, Serving
    <3>2. \A r \in Renamers : rename'[r].pc = "clearing" => rename'[r] = rename[r]
      BY <1>a, <3>1 DEF Exit, Renaming
    <3>. QED
      BY <1>b, <3>1, <3>2, ExitIs DEF attachVars
  <2>1. SocketsGo
    BY <1>a, <1>17 DEF FinishExits, SocketsGo, dirVars, attachVars, masterVars
  <2>2. MastersEnd
    BY <2>a DEF MastersEnd, Serving
  <2>3. OrphansStay
    BY <1>a, <1>17 DEF FinishExits, OrphansStay, Orphan, dirVars, attachVars, masterVars
  <2>4. Following
    BY <2>a DEF Following
  <2>. QED
    BY <1>c, <2>1, <2>2, <2>3, <2>4
<1>18. ASSUME NEW m \in Masters, FlushCopies(m)
      PROVE  SocketsAreBound' /\ DeadStayDead'
  <2>1. SocketsGo
    BY <1>a, <1>18 DEF FlushCopies, SocketsGo, dirVars, attachVars, masterVars
  <2>2. MastersEnd
    BY <1>a, <1>18 DEF FlushCopies, MastersEnd, Serving, dirVars, attachVars, masterVars
  <2>3. OrphansStay
    BY <1>a, <1>18 DEF FlushCopies, OrphansStay, Orphan, dirVars, attachVars, masterVars
  <2>4. Following
    BY <1>a, <1>18 DEF FlushCopies, Following, dirVars, attachVars, masterVars
  <2>. QED
    BY <1>c, <2>1, <2>2, <2>3, <2>4
<1>19. ASSUME NEW m \in Masters, FlushWrites(m)
      PROVE  SocketsAreBound' /\ DeadStayDead'
  <2>1. SocketsGo
    BY <1>a, <1>19 DEF FlushWrites, SocketsGo, dirVars, attachVars, masterVars
  <2>2. MastersEnd
    BY <1>a, <1>19 DEF FlushWrites, MastersEnd, Serving, dirVars, attachVars, masterVars
  <2>3. OrphansStay
    BY <1>a, <1>19 DEF FlushWrites, OrphansStay, Orphan, dirVars, attachVars, masterVars
  <2>4. Following
    BY <1>a, <1>19 DEF FlushWrites, Following, dirVars, attachVars, masterVars
  <2>. QED
    BY <1>c, <2>1, <2>2, <2>3, <2>4
<1>20. ASSUME NEW m \in Masters, ShellExits(m)
      PROVE  SocketsAreBound' /\ DeadStayDead'
  <2>1. SocketsGo
    BY <1>a, <1>20 DEF ShellExits, SocketsGo, dirVars, attachVars, masterVars
  <2>2. MastersEnd
    BY <1>a, <1>20 DEF ShellExits, MastersEnd, Serving, dirVars, attachVars, masterVars
  <2>3. OrphansStay
    BY <1>a, <1>20 DEF ShellExits, OrphansStay, Orphan, dirVars, attachVars, masterVars
  <2>4. Following
    BY <1>a, <1>20 DEF ShellExits, Following, dirVars, attachVars, masterVars
  <2>. QED
    BY <1>c, <2>1, <2>2, <2>3, <2>4
<1>21. ASSUME NEW m \in Masters, Crash(m)
      PROVE  SocketsAreBound' /\ DeadStayDead'
  <2>a. /\ st'[m] = "exited"
        /\ \A a \in Masters \ {m} : st'[a] = st[a]
        /\ UNCHANGED <<pc, name, child>>
        /\ \A r \in Renamers : rename'[r].pc = "clearing" =>
                                 rename'[r] = rename[r]
    <3>1. Exit(m) /\ st[m] # "unused" /\ UNCHANGED attachVars
      BY <1>21 DEF Crash, Serving
    <3>2. \A r \in Renamers : rename'[r].pc = "clearing" => rename'[r] = rename[r]
      BY <1>a, <3>1 DEF Exit, Renaming
    <3>. QED
      BY <1>b, <3>1, <3>2, ExitIs DEF attachVars
  <2>1. SocketsGo
    BY <1>a, <1>21 DEF Crash, SocketsGo, dirVars, attachVars, masterVars
  <2>2. MastersEnd
    BY <2>a DEF MastersEnd, Serving
  <2>3. OrphansStay
    BY <1>a, <1>21 DEF Crash, OrphansStay, Orphan, dirVars, attachVars, masterVars
  <2>4. Following
    BY <2>a DEF Following
  <2>. QED
    BY <1>c, <2>1, <2>2, <2>3, <2>4
<1>22. ASSUME NEW r \in Renamers, NEW m \in Masters, NEW n \in Names, StartRename(r, m, n)
      PROVE  SocketsAreBound' /\ DeadStayDead'
  <2>1. SocketsGo
    BY <1>a, <1>22 DEF StartRename, SocketsGo, dirVars, attachVars, masterVars
  <2>2. MastersEnd
    BY <1>a, <1>22 DEF StartRename, MastersEnd, Serving, dirVars, attachVars, masterVars
  <2>3. OrphansStay
    BY <1>a, <1>22 DEF StartRename, OrphansStay, Orphan, dirVars, attachVars, masterVars
  <2>4. Following
    BY <1>a, <1>22 DEF StartRename, Following, dirVars, attachVars, masterVars
  <2>. QED
    BY <1>c, <2>1, <2>2, <2>3, <2>4
<1>23. ASSUME NEW r \in Renamers, LockToRename(r)
      PROVE  SocketsAreBound' /\ DeadStayDead'
  <2>1. SocketsGo
    BY <1>a, <1>23 DEF LockToRename, SocketsGo, dirVars, attachVars, masterVars
  <2>2. MastersEnd
    BY <1>a, <1>23 DEF LockToRename, MastersEnd, Serving, dirVars, attachVars, masterVars
  <2>3. OrphansStay
    BY <1>a, <1>23 DEF LockToRename, OrphansStay, Orphan, dirVars, attachVars, masterVars
  <2>4. Following
    BY <1>a, <1>23 DEF LockToRename, Following, dirVars, attachVars, masterVars, RenameGo
  <2>. QED
    BY <1>c, <2>1, <2>2, <2>3, <2>4
<1>24. ASSUME NEW r \in Renamers, ProbeDestination(r)
      PROVE  SocketsAreBound' /\ DeadStayDead'
  <2>1. SocketsGo
    BY <1>a, <1>24 DEF ProbeDestination, SocketsGo, dirVars, attachVars, masterVars
  <2>2. MastersEnd
    BY <1>a, <1>24 DEF ProbeDestination, MastersEnd, Serving, dirVars, attachVars, masterVars
  <2>3. OrphansStay
    BY <1>a, <1>24 DEF ProbeDestination, OrphansStay, Orphan, dirVars, attachVars, masterVars
  <2>4. Following
    <3>1. /\ rename[r].pc = "probing"
          /\ \/ ~Listening(rename[r].to)
             \/ RenameGo(r, "done")
             \/ RenameGo(r, "moving")
          /\ \E there \in {"moving", "clearing", "done"} : RenameGo(r, there)
          /\ UNCHANGED <<pc, name, child>>
      BY <1>24 DEF ProbeDestination, attachVars
    <3>2. /\ rename'[r].to = rename[r].to
          /\ rename'[r].pc = "clearing" => ~Listening(rename[r].to)
          /\ \A q \in Renamers \ {r} : rename'[q] = rename[q]
      BY <1>a, <3>1 DEF RenameGo, Renaming
    <3>. QED
      BY <3>1, <3>2 DEF Following
  <2>. QED
    BY <1>c, <2>1, <2>2, <2>3, <2>4
<1>25. ASSUME NEW r \in Renamers, ClearDestination(r)
      PROVE  SocketsAreBound' /\ DeadStayDead'
  <2>1. SocketsGo
    BY <1>a, <1>25 DEF ClearDestination, SocketsGo, dirVars, attachVars, masterVars
  <2>2. MastersEnd
    BY <1>a, <1>25 DEF ClearDestination, MastersEnd, Serving, dirVars, attachVars, masterVars
  <2>3. OrphansStay
    BY <1>a, <1>25 DEF ClearDestination, OrphansStay, Orphan, dirVars, attachVars, masterVars
  <2>4. Following
    <3>1. /\ \E there \in {"moving", "done"} : RenameGo(r, there)
          /\ UNCHANGED <<pc, name, child>>
      BY <1>25 DEF ClearDestination, attachVars
    <3>2. /\ rename'[r].pc # "clearing"
          /\ \A q \in Renamers \ {r} : rename'[q] = rename[q]
      BY <1>a, <3>1 DEF RenameGo, Renaming
    <3>. QED
      BY <3>1, <3>2 DEF Following
  <2>. QED
    BY <1>c, <2>1, <2>2, <2>3, <2>4
<1>26. ASSUME NEW r \in Renamers, Move(r)
      PROVE  SocketsAreBound' /\ DeadStayDead'
  <2>1. /\ rename[r].pc = "moving" /\ RenameGo(r, "done")
        /\ UNCHANGED <<pc, name, child, st>>
        /\ \/ dir' = dir
           \/ dir' = [dir EXCEPT ![rename[r].to] = dir[path[rename[r].by]],
                                ![path[rename[r].by]] = None]
    BY <1>26 DEF Move, attachVars
  <2>2. /\ rename'[r].pc = "done"
        /\ \A q \in Renamers \ {r} : rename'[q].pc = rename[q].pc
    BY <1>a, <2>1 DEF RenameGo
  <2>3. /\ \A c \in Attachers : pc'[c] \notin Locking
        /\ \A q \in Renamers : rename'[q].pc \notin Moving
    BY <1>b, <2>1, <2>2, OneRename DEF Moving
  <2>4. DeadStayDead'
    BY <2>3 DEF DeadStayDead, Locking, Moving
  <2>5. path[rename[r].by] \in Names
    <3>1. rename[r].by \in Masters /\ st[rename[r].by] # "unused"
      BY <1>b, <2>1 DEF TypeOK, Placed
    <3>. QED
      BY <1>b, <3>1 DEF TypeOK
  <2>6. \A n \in Names : dir'[n] = dir[n] \/ dir'[n] = None
                          \/ dir'[n] = dir[path[rename[r].by]]
    BY <1>a, <2>1
  <2>7. SocketsAreBound'
    BY <1>b, <2>1, <2>5, <2>6 DEF SocketsAreBound
  <2>. QED
    BY <2>4, <2>7
<1>27. ASSUME NEW n \in Names, Ages(n)
      PROVE  SocketsAreBound' /\ DeadStayDead'
  <2>1. SocketsGo
    BY <1>a, <1>27 DEF Ages, SocketsGo, dirVars, attachVars, masterVars
  <2>2. MastersEnd
    BY <1>a, <1>27 DEF Ages, MastersEnd, Serving, dirVars, attachVars, masterVars
  <2>3. OrphansStay
    BY <1>a, <1>27 DEF Ages, OrphansStay, Orphan, dirVars, attachVars, masterVars
  <2>4. Following
    BY <1>a, <1>27 DEF Ages, Following, dirVars, attachVars, masterVars
  <2>. QED
    BY <1>c, <2>1, <2>2, <2>3, <2>4
<1>28. ASSUME NEW s \in Sweepers, NEW n \in Names, SweepProbes(s, n)
      PROVE  SocketsAreBound' /\ DeadStayDead'
  <2>1. SocketsGo
    BY <1>a, <1>28 DEF SweepProbes, SocketsGo, dirVars, attachVars, masterVars
  <2>2. MastersEnd
    BY <1>a, <1>28 DEF SweepProbes, MastersEnd, Serving, dirVars, attachVars, masterVars
  <2>3. OrphansStay
    BY <1>a, <1>28 DEF SweepProbes, OrphansStay, Orphan, dirVars, attachVars, masterVars
  <2>4. Following
    BY <1>a, <1>28 DEF SweepProbes, Following, dirVars, attachVars, masterVars
  <2>. QED
    BY <1>c, <2>1, <2>2, <2>3, <2>4
<1>29. ASSUME NEW s \in Sweepers, SweepLooksAtAge(s)
      PROVE  SocketsAreBound' /\ DeadStayDead'
  <2>1. SocketsGo
    BY <1>a, <1>29 DEF SweepLooksAtAge, SocketsGo, dirVars, attachVars, masterVars
  <2>2. MastersEnd
    BY <1>a, <1>29 DEF SweepLooksAtAge, MastersEnd, Serving, dirVars, attachVars, masterVars
  <2>3. OrphansStay
    BY <1>a, <1>29 DEF SweepLooksAtAge, OrphansStay, Orphan, dirVars, attachVars, masterVars
  <2>4. Following
    BY <1>a, <1>29 DEF SweepLooksAtAge, Following, dirVars, attachVars, masterVars
  <2>. QED
    BY <1>c, <2>1, <2>2, <2>3, <2>4
<1>30. ASSUME NEW s \in Sweepers, SweepRemoves(s)
      PROVE  SocketsAreBound' /\ DeadStayDead'
  <2>1. SocketsGo
    BY <1>a, <1>30 DEF SweepRemoves, SocketsGo, dirVars, attachVars, masterVars
  <2>2. MastersEnd
    BY <1>a, <1>30 DEF SweepRemoves, MastersEnd, Serving, dirVars, attachVars, masterVars
  <2>3. OrphansStay
    BY <1>a, <1>30 DEF SweepRemoves, OrphansStay, Orphan, dirVars, attachVars, masterVars
  <2>4. Following
    BY <1>a, <1>30 DEF SweepRemoves, Following, dirVars, attachVars, masterVars
  <2>. QED
    BY <1>c, <2>1, <2>2, <2>3, <2>4
<1>31. CASE UNCHANGED vars
  BY <1>c, <1>31 DEF vars, SocketsGo, MastersEnd, OrphansStay, Orphan, Following, dirVars, attachVars, masterVars
<1>. QED
  BY <1>1, <1>2, <1>3, <1>4, <1>5, <1>6, <1>7, <1>8, <1>9, <1>10, <1>11, 
     <1>12, <1>13, <1>14, <1>15, <1>16, <1>17, <1>18, <1>19, <1>20, <1>21, <1>22, <1>23, 
     <1>24, <1>25, <1>26, <1>27, <1>28, <1>29, <1>30, <1>31
     DEF Next, AttachNext, MasterNext, RenameNext

LEMMA DirsInit == Init => DirsInv
<1> SUFFICES ASSUME Init
             PROVE  DirsInv
  OBVIOUS
<1>1. TypeOK /\ Placed
  BY TypesInit
<1>2. LockAlone /\ NewHoldsLock /\ SocketsAreBound /\ DeadStayDead
  BY DEF Init, LockAlone, NewHoldsLock, SocketsAreBound, DeadStayDead
<1>. QED
  BY <1>1, <1>2 DEF DirsInv

LEMMA DirsNext == DirsInv /\ [Next]_vars => DirsInv'
BY TypesNext, LockNext, DeadNext DEF DirsInv, LockInv

THEOREM DirsInvariant == Spec => []DirsInv
BY DirsInit, DirsNext, PTL DEF Spec

\* Directories, lock and processes stay in their types, with any number of
\* attaches, masters, renames and sweeps.
THEOREM DirsTypes == Spec => []TypeOK
<1>1. DirsInv => TypeOK
  BY DEF DirsInv
<1>. QED
  BY <1>1, DirsInvariant, PTL

\* What an attach or a rename deletes under the lock is dead, with any number of
\* them: the lock and the second probe are enough for it, and nothing else takes
\* part but a master that was given up on (connect_or_create, rename).
THEOREM OnlyTheDeadAreDeleted == Spec => []DeletesOnlyTheDead
<1>1. ASSUME DirsInv
      PROVE  DeletesOnlyTheDead
  <2>1. ASSUME NEW c \in Attachers,
               pc[c] = "waiting" /\ st[child[c]] = "exited" /\ Listening(name[c])
        PROVE  Orphan(dir[name[c]].socket)
    <3>1. st[dir[name[c]].socket] # "exited"
      BY <2>1 DEF Listening, Serving
    <3>. QED
      BY <1>1, <2>1, <3>1 DEF DirsInv, DeadStayDead
  <2>2. \A c \in Attachers : pc[c] = "clearing" => NobodyToLose(name[c])
    BY <1>1 DEF DirsInv, DeadStayDead
  <2>3. \A r \in Renamers : rename[r].pc = "clearing" => NobodyToLose(rename[r].to)
    BY <1>1 DEF DirsInv, DeadStayDead
  <2>. QED
    BY <2>1, <2>2, <2>3 DEF DeletesOnlyTheDead, NobodyToLose
<1>. QED
  BY <1>1, DirsInvariant, PTL

-----------------------------------------------------------------------------
\* A session keeps its name.

KeepsName(m) ==
    Named(m) /\ st'[m] \in {"bound", "running"} =>
      Named(m)' \/ Orphan(m)' \/ MayLose(m)

LEMMA NameStep ==
    ASSUME DirsInv, [Next]_vars, NEW m \in Masters
    PROVE  KeepsName(m)
<1> SUFFICES ASSUME Named(m), st'[m] \in {"bound", "running"}
             PROVE  Named(m)' \/ Orphan(m)' \/ MayLose(m)
  BY DEF KeepsName
<1>a. /\ st[m] \in {"bound", "running"}
      /\ path[m] \in Names /\ dir[path[m]] # None /\ dir[path[m]].socket = m
      /\ dir[path[m]] \in Dir
  BY DEF DirsInv, TypeOK, Named
<1>b. /\ pc \in [Attachers -> AttachStates] /\ name \in [Attachers -> Names \cup {None}]
      /\ dir \in [Names -> Dir \cup {None}] /\ path \in [Masters -> Names \cup {None}]
  BY DEF DirsInv, TypeOK, AttachStates
<1>c. m # None
  BY SessionDirsAssumption
<1>d. Listening(path[m])
  BY <1>a, <1>c DEF Listening, Serving
<1>e. NobodyToLose(path[m]) => Orphan(m)
  BY <1>a, <1>d DEF NobodyToLose
<1>f. ASSUME path'[m] = path[m], dir'[path[m]] # None, dir'[path[m]].socket = m
      PROVE  Named(m)'
  BY <1>f DEF Named
<1>g. DeadStayDead
  BY DEF DirsInv
<1>h. EmptyDir.socket = None
  BY DEF EmptyDir
<1>1. ASSUME NEW c \in Attachers, NEW n \in Names, StartAttach(c, n)
      PROVE  Named(m)' \/ Orphan(m)' \/ MayLose(m)
  BY <1>a, <1>f, <1>1 DEF StartAttach, dirVars, masterVars
<1>2. ASSUME NEW c \in Attachers, ProbeFirst(c)
      PROVE  Named(m)' \/ Orphan(m)' \/ MayLose(m)
  BY <1>a, <1>f, <1>2 DEF ProbeFirst, dirVars, masterVars
<1>3. ASSUME NEW c \in Attachers, LockToCreate(c)
      PROVE  Named(m)' \/ Orphan(m)' \/ MayLose(m)
  BY <1>a, <1>f, <1>3 DEF LockToCreate, dirVars, masterVars
<1>4. ASSUME NEW c \in Attachers, ProbeAgain(c)
      PROVE  Named(m)' \/ Orphan(m)' \/ MayLose(m)
  BY <1>a, <1>f, <1>4 DEF ProbeAgain, dirVars, masterVars
<1>5. ASSUME NEW c \in Attachers, Clear(c)
      PROVE  Named(m)' \/ Orphan(m)' \/ MayLose(m)
  <2>1. CASE name[c] = path[m]
    <3>1. Orphan(m)
      BY <1>e, <1>g, <1>5, <2>1 DEF Clear, DeadStayDead
    <3>2. Orphan(m)'
      BY <1>b, <1>5, <3>1 DEF Clear, Go, Orphan
    <3>. QED
      BY <3>2
  <2>2. CASE name[c] # path[m]
    BY <1>a, <1>b, <1>f, <1>5, <2>2 DEF Clear, masterVars
  <2>. QED
    BY <2>1, <2>2
<1>6. ASSUME NEW c \in Attachers, NEW a \in Masters, Fork(c, a)
      PROVE  Named(m)' \/ Orphan(m)' \/ MayLose(m)
  <2>1. a # m
    BY <1>a, <1>6 DEF Fork
  <2>. QED
    BY <1>a, <1>b, <1>f, <1>6, <2>1 DEF Fork
<1>7. ASSUME NEW c \in Attachers, Spawned(c)
      PROVE  Named(m)' \/ Orphan(m)' \/ MayLose(m)
  BY <1>a, <1>f, <1>7 DEF Spawned, dirVars, masterVars
<1>8. ASSUME NEW c \in Attachers, SpawnFails(c)
      PROVE  Named(m)' \/ Orphan(m)' \/ MayLose(m)
  <2>1. /\ pc[c] = "waiting" /\ pc' = [pc EXCEPT ![c] = "failed"]
        /\ dir' = [dir EXCEPT ![name[c]] = None]
        /\ UNCHANGED <<child, path>>
    BY <1>8 DEF SpawnFails, GivesUp, Go, masterVars
  <2>2. CASE name[c] = path[m]
    <3>1. m = child[c] \/ Orphan(m)
      BY <1>a, <1>d, <1>g, <2>1, <2>2 DEF DeadStayDead
    <3>2. Orphan(m) => Orphan(m)'
      BY <1>b, <2>1 DEF Orphan
    <3>3. m = child[c] => Orphan(m)'
      BY <1>a, <1>b, <1>8, <2>1 DEF SpawnFails, Orphan
    <3>. QED
      BY <3>1, <3>2, <3>3
  <2>3. CASE name[c] # path[m]
    BY <1>a, <1>b, <1>f, <2>1, <2>3
  <2>. QED
    BY <2>2, <2>3
<1>9. ASSUME NEW c \in Attachers, SpawnTooLate(c)
      PROVE  Named(m)' \/ Orphan(m)' \/ MayLose(m)
  <2>1. /\ pc[c] = "waiting" /\ pc' = [pc EXCEPT ![c] = "late"]
        /\ dir' = [dir EXCEPT ![name[c]] = None]
        /\ UNCHANGED <<child, path>>
    BY <1>9 DEF SpawnTooLate, GivesUp, Go, masterVars
  <2>2. CASE name[c] = path[m]
    <3>1. m = child[c] \/ Orphan(m)
      BY <1>a, <1>d, <1>g, <2>1, <2>2 DEF DeadStayDead
    <3>2. Orphan(m) => Orphan(m)'
      BY <1>b, <2>1 DEF Orphan
    <3>3. m = child[c] => Orphan(m)'
      BY <1>a, <1>b, <1>9, <2>1 DEF SpawnTooLate, Orphan
    <3>. QED
      BY <3>1, <3>2, <3>3
  <2>3. CASE name[c] # path[m]
    BY <1>a, <1>b, <1>f, <2>1, <2>3
  <2>. QED
    BY <2>2, <2>3
<1>10. ASSUME NEW c \in Attachers, Connect(c)
      PROVE  Named(m)' \/ Orphan(m)' \/ MayLose(m)
  BY <1>a, <1>f, <1>10 DEF Connect, dirVars, masterVars
<1>11. ASSUME NEW c \in Attachers, AttacherKilled(c)
      PROVE  Named(m)' \/ Orphan(m)' \/ MayLose(m)
  BY <1>a, <1>f, <1>11 DEF AttacherKilled, dirVars, masterVars
<1>12. ASSUME NEW a \in Masters, MasterBinds(a)
      PROVE  Named(m)' \/ Orphan(m)' \/ MayLose(m)
  <2>1. path[a] # path[m]
    BY <1>a, <1>c, <1>12 DEF MasterBinds
  <2>. QED
    BY <1>a, <1>b, <1>f, <1>12, <2>1 DEF MasterBinds
<1>13. ASSUME NEW a \in Masters, MasterReady(a)
      PROVE  Named(m)' \/ Orphan(m)' \/ MayLose(m)
  BY <1>a, <1>f, <1>13 DEF MasterReady, dirVars, masterVars
<1>14. ASSUME NEW a \in Masters, MasterFails(a)
      PROVE  Named(m)' \/ Orphan(m)' \/ MayLose(m)
  BY <1>a, <1>f, <1>14 DEF MasterFails, dirVars, masterVars
<1>15. ASSUME NEW a \in Masters, FinishCopies(a)
      PROVE  Named(m)' \/ Orphan(m)' \/ MayLose(m)
  BY <1>a, <1>f, <1>15 DEF FinishCopies, dirVars, masterVars
<1>16. ASSUME NEW a \in Masters, FinishUnlinks(a)
      PROVE  Named(m)' \/ Orphan(m)' \/ MayLose(m)
  <2>1. a # m
    BY <1>a, <1>16 DEF FinishUnlinks
  <2>2. CASE doomed[a] = path[m]
    BY <1>16, <2>1, <2>2 DEF FinishUnlinks, MayLose
  <2>3. CASE doomed[a] # path[m]
    BY <1>a, <1>b, <1>f, <1>16, <2>3 DEF FinishUnlinks
  <2>. QED
    BY <2>2, <2>3
<1>17. ASSUME NEW a \in Masters, FinishExits(a)
      PROVE  Named(m)' \/ Orphan(m)' \/ MayLose(m)
  <2>1. dir'[path[m]] = dir[path[m]]
    BY <1>a, <1>b, <1>c, <1>17 DEF FinishExits
  <2>. QED
    BY <1>a, <1>f, <1>17, <2>1 DEF FinishExits
<1>18. ASSUME NEW a \in Masters, FlushCopies(a)
      PROVE  Named(m)' \/ Orphan(m)' \/ MayLose(m)
  BY <1>a, <1>f, <1>18 DEF FlushCopies, dirVars, masterVars
<1>19. ASSUME NEW a \in Masters, FlushWrites(a)
      PROVE  Named(m)' \/ Orphan(m)' \/ MayLose(m)
  <2>1. dir'[path[m]] = dir[path[m]]
        \/ dir'[path[m]] = [socket |-> dir[path[m]].socket, saved |-> TRUE, stale |-> FALSE]
    BY <1>a, <1>b, <1>19 DEF FlushWrites
  <2>2. [socket |-> dir[path[m]].socket, saved |-> TRUE, stale |-> FALSE] # None
    <3>1. [socket |-> dir[path[m]].socket, saved |-> TRUE, stale |-> FALSE] \in Dir
      BY <1>a DEF Dir
    <3>. QED
      BY <3>1, NoneIsNoDirectory
  <2>. QED
    BY <1>a, <1>f, <1>19, <2>1, <2>2 DEF FlushWrites
<1>20. ASSUME NEW a \in Masters, ShellExits(a)
      PROVE  Named(m)' \/ Orphan(m)' \/ MayLose(m)
  BY <1>a, <1>f, <1>20 DEF ShellExits, dirVars, masterVars
<1>21. ASSUME NEW a \in Masters, Crash(a)
      PROVE  Named(m)' \/ Orphan(m)' \/ MayLose(m)
  BY <1>a, <1>f, <1>21 DEF Crash, dirVars, masterVars
<1>22. ASSUME NEW r \in Renamers, NEW a \in Masters, NEW n \in Names, StartRename(r, a, n)
      PROVE  Named(m)' \/ Orphan(m)' \/ MayLose(m)
  BY <1>a, <1>f, <1>22 DEF StartRename, dirVars, masterVars
<1>23. ASSUME NEW r \in Renamers, LockToRename(r)
      PROVE  Named(m)' \/ Orphan(m)' \/ MayLose(m)
  BY <1>a, <1>f, <1>23 DEF LockToRename, dirVars, masterVars
<1>24. ASSUME NEW r \in Renamers, ProbeDestination(r)
      PROVE  Named(m)' \/ Orphan(m)' \/ MayLose(m)
  BY <1>a, <1>f, <1>24 DEF ProbeDestination, dirVars, masterVars
<1>25. ASSUME NEW r \in Renamers, ClearDestination(r)
      PROVE  Named(m)' \/ Orphan(m)' \/ MayLose(m)
  <2>1. CASE rename[r].to = path[m]
    <3>1. Orphan(m)
      BY <1>e, <1>g, <1>25, <2>1 DEF ClearDestination, DeadStayDead
    <3>2. Orphan(m)'
      BY <1>25, <3>1 DEF ClearDestination, Orphan, attachVars
    <3>. QED
      BY <3>2
  <2>2. CASE rename[r].to # path[m]
    BY <1>a, <1>b, <1>f, <1>25, <2>2 DEF ClearDestination, masterVars
  <2>. QED
    BY <2>1, <2>2
<1>26. ASSUME NEW r \in Renamers, Move(r)
      PROVE  Named(m)' \/ Orphan(m)' \/ MayLose(m)
  <2> DEFINE b == rename[r].by
             n == rename[r].to
             old == path[b]
             moves == dir[old] # None /\ dir[n] \in {None, EmptyDir} /\ n # old
  <2>1. /\ rename[r].pc = "moving"
        /\ dir' = IF moves THEN [dir EXCEPT ![n] = dir[old], ![old] = None]
                  ELSE dir
        /\ path' = IF moves THEN [path EXCEPT ![b] = n] ELSE path
    BY <1>26 DEF Move
  <2>2. n \in Names /\ b \in Masters
    BY <2>1 DEF DirsInv, TypeOK, Placed
  <2>3. CASE ~moves
    BY <1>a, <1>f, <2>1, <2>3
  <2>4. CASE moves /\ b = m
    <3>1. path'[m] = n /\ dir'[n] = dir[path[m]]
      BY <1>a, <1>b, <2>1, <2>2, <2>4
    <3>. QED
      BY <1>a, <3>1 DEF Named
  <2>5. CASE moves /\ b # m /\ path[b] = path[m]
    <3>1. ~Named(b)
      BY <1>a, <2>5 DEF Named
    <3>. QED
      BY <2>1, <2>5, <3>1 DEF MayLose
  <2>6. CASE moves /\ b # m /\ path[b] # path[m]
    <3>1. n # path[m]
      BY <1>a, <1>c, <1>h, <2>6
    <3>2. dir'[path[m]] = dir[path[m]] /\ path'[m] = path[m]
      BY <1>a, <1>b, <2>1, <2>2, <2>6, <3>1
    <3>. QED
      BY <1>a, <1>f, <3>2
  <2>. QED
    BY <2>3, <2>4, <2>5, <2>6
<1>27. ASSUME NEW n \in Names, Ages(n)
      PROVE  Named(m)' \/ Orphan(m)' \/ MayLose(m)
  <2>1. CASE n = path[m]
    BY <1>d, <1>27, <2>1 DEF Ages
  <2>2. CASE n # path[m]
    BY <1>a, <1>b, <1>f, <1>27, <2>2 DEF Ages, masterVars
  <2>. QED
    BY <2>1, <2>2
<1>28. ASSUME NEW s \in Sweepers, NEW n \in Names, SweepProbes(s, n)
      PROVE  Named(m)' \/ Orphan(m)' \/ MayLose(m)
  BY <1>a, <1>f, <1>28 DEF SweepProbes, dirVars, masterVars
<1>29. ASSUME NEW s \in Sweepers, SweepLooksAtAge(s)
      PROVE  Named(m)' \/ Orphan(m)' \/ MayLose(m)
  BY <1>a, <1>f, <1>29 DEF SweepLooksAtAge, dirVars, masterVars
<1>30. ASSUME NEW s \in Sweepers, SweepRemoves(s)
      PROVE  Named(m)' \/ Orphan(m)' \/ MayLose(m)
  <2>1. CASE sweep[s].of = path[m]
    BY <1>30, <2>1 DEF SweepRemoves, MayLose
  <2>2. CASE sweep[s].of # path[m]
    BY <1>a, <1>b, <1>f, <1>30, <2>2 DEF SweepRemoves, masterVars
  <2>. QED
    BY <2>1, <2>2
<1>31. CASE UNCHANGED vars
  BY <1>a, <1>f, <1>31 DEF vars, dirVars, masterVars
<1>. QED
  BY <1>1, <1>2, <1>3, <1>4, <1>5, <1>6, <1>7, <1>8, <1>9, <1>10, <1>11, 
     <1>12, <1>13, <1>14, <1>15, <1>16, <1>17, <1>18, <1>19, <1>20, <1>21, <1>22, <1>23, 
     <1>24, <1>25, <1>26, <1>27, <1>28, <1>29, <1>30, <1>31
     DEF Next, AttachNext, MasterNext, RenameNext

\* A session is found under its name from when it listens until it ends, but for
\* the ways to lose it (MayLose): with any number of attaches, masters, renames
\* and sweeps there is no other (rename, finish, sweep_abandoned_sessions,
\* connect_or_create).
THEOREM NamesKept == Spec => NamesAreKept
<1>1. ASSUME DirsInv, [Next]_vars
      PROVE  [\A m \in Masters :
                Named(m) /\ st'[m] \in {"bound", "running"} =>
                  Named(m)' \/ Orphan(m)' \/ MayLose(m)]_vars
  BY <1>1, NameStep DEF KeepsName
<1>. QED
  BY <1>1, DirsInvariant, PTL DEF Spec, NamesAreKept
=============================================================================
