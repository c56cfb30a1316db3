----------------------------- MODULE WindowsProofs -----------------------------
(***************************************************************************)
(* What holds on Windows for any values of the constants: of a master      *)
(* (WindowsMaster.tla), its types, and that whoever stays to the end of a  *)
(* session that ends by itself is told; and of an attach process           *)
(* (WindowsAttach.tla), its types, that it starts over only with a clean   *)
(* terminal, and that what was typed ahead of the detach key has reached   *)
(* the master when the attach ends as detached; and of the decoder of the  *)
(* console's input (Win32Input.tla), that cuts do not matter to it and     *)
(* that it waits only for sequences; and of the filter of ConPTY's output  *)
(* (ResizeReports.tla), that it takes out the reports and nothing else.    *)
(***************************************************************************)
EXTENDS WindowsMaster, WindowsAttach, Win32Input, ResizeReports, CommonLemmas,
        FiniteSetTheorems, SequenceTheorems, TLAPS

\* The connections are finitely many.
TypesInv == TypeOK /\ IsFiniteSet(threads)

\* A session that nobody kills ends in one order: the shell, ConPTY, the reader
\* of it, the clients.
ShellFirst == ptyClosed \/ ~console => ~shell
ConsoleNext == reader # "reading" => ~console
ToldLast ==
    /\ reader = "exiting" => terminating
    /\ terminating => ~shell /\ watching \subseteq told

\* Only a kill, or the loop when it breaks, ends it otherwise.
NobodyKills ==
    killer = None /\ loop \notin {"closing", "finishing", "exiting"}

EndInv ==
    ~killed => /\ ShellFirst /\ ConsoleNext /\ ToldLast
               /\ NobodyKills
               /\ ~process => terminating

-----------------------------------------------------------------------------
LEMMA ThreadsInit == Init => TypesInv
<1> SUFFICES ASSUME Init
             PROVE  TypesInv
  OBVIOUS
<1>1. /\ IsFiniteSet(threads) /\ Cardinality(threads) + cancelled <= MaxClients
      /\ cancelled \in 0..MaxClients
  BY FS_EmptySet, WindowsMasterAssumption DEF Init
<1>2. renames \in 0..MaxRenames
  BY WindowsMasterAssumption DEF Init
<1>3. {shell, terminating, ptyClosed, console, process, killed} \subseteq BOOLEAN
  BY DEF Init
<1>. QED
  BY <1>1, <1>2, <1>3, WindowsMasterAssumption DEF Init, TypesInv, TypeOK

\* Steps that leave the connections' threads alone need no more than the types.
LEMMA ThreadsNext == TypesInv /\ [Next]_vars => TypesInv'
<1> SUFFICES ASSUME TypesInv, [Next]_vars
             PROVE  TypesInv'
  OBVIOUS
<1> USE WindowsMasterAssumption
<1>1. CASE CopyName
  BY <1>1 DEF CopyName, TypesInv, TypeOK, acceptVars, nameVars, connectionVars, endVars
<1>2. CASE CreateInstance
  BY <1>2 DEF CreateInstance, TypesInv, TypeOK, acceptVars, nameVars, connectionVars, endVars
<1>3. CASE Publish
  BY <1>3 DEF Publish, TypesInv, TypeOK, acceptVars, nameVars, connectionVars, endVars
<1>4. CASE Accept
  BY <1>4 DEF Accept, TypesInv, TypeOK, acceptVars, nameVars, connectionVars, endVars
<1>5. CASE TakeClient
  <2>1. Cardinality(threads) \in Nat /\ cancelled \in Nat /\ MaxClients \in Nat
    BY FS_CardinalityType DEF TypesInv, TypeOK
  <2>2. CASE UNCHANGED <<threads, cancelled>>
    BY <1>5, <2>2 DEF TakeClient, TypesInv, TypeOK, nameVars, endVars
  <2>3. CASE Cardinality(threads) + cancelled < MaxClients /\ GetsThread
    <3>1. CASE peer = None
      <4>1. threads' = threads /\ cancelled' = cancelled + 1
        BY <2>3, <3>1 DEF GetsThread
      <4>2. cancelled' \in 0..MaxClients /\ Cardinality(threads') + cancelled' <= MaxClients
        BY <2>1, <2>3, <4>1
      <4>. QED
        BY <1>5, <4>1, <4>2 DEF TakeClient, TypesInv, TypeOK, nameVars, endVars
    <3>2. CASE peer # None
      <4>1. threads' = threads \cup {peer} /\ cancelled' = cancelled
        BY <2>3, <3>2 DEF GetsThread
      <4>2. /\ IsFiniteSet(threads')
            /\ Cardinality(threads') = Cardinality(threads) + 1
        BY <4>1, FS_AddElement DEF TypesInv, TypeOK
      <4>3. /\ Cardinality(threads') + cancelled' <= MaxClients
            /\ threads \subseteq threads'
            /\ threads' \subseteq Clients
        BY <2>1, <2>3, <3>2, <4>1, <4>2 DEF TypesInv, TypeOK
      <4>. QED
        BY <1>5, <4>1, <4>2, <4>3 DEF TakeClient, TypesInv, TypeOK, nameVars, endVars
    <3>. QED
      BY <3>1, <3>2
  <2>. QED
    BY <1>5, <2>2, <2>3 DEF TakeClient
<1>6. CASE KillCloses
  <2>1. /\ shell' \in BOOLEAN /\ ptyClosed' \in BOOLEAN /\ console' \in BOOLEAN
        /\ terminating' \in BOOLEAN /\ process' \in BOOLEAN /\ killed' \in BOOLEAN
    BY <1>6 DEF KillCloses, ClosesConsole, TypesInv, TypeOK
  <2>. QED
    BY <1>6, <2>1 DEF KillCloses, TypesInv, TypeOK, acceptVars, nameVars, connectionVars
<1>7. CASE WatcherCloses
  <2>1. /\ shell' \in BOOLEAN /\ ptyClosed' \in BOOLEAN /\ console' \in BOOLEAN
        /\ terminating' \in BOOLEAN /\ process' \in BOOLEAN /\ killed' \in BOOLEAN
    BY <1>7 DEF WatcherCloses, ClosesConsole, TypesInv, TypeOK
  <2>. QED
    BY <1>7, <2>1 DEF WatcherCloses, TypesInv, TypeOK, acceptVars, nameVars, connectionVars
<1>8. CASE ReaderEnds
  BY <1>8 DEF ReaderEnds, TypesInv, TypeOK, acceptVars, nameVars, connectionVars, endVars
<1>9. CASE ReaderTells
  BY <1>9 DEF ReaderTells, Tells, TypesInv, TypeOK, acceptVars, nameVars, connectionVars, endVars
<1>10. CASE Exits
  <2>1. /\ shell' \in BOOLEAN /\ ptyClosed' \in BOOLEAN /\ console' \in BOOLEAN
        /\ terminating' \in BOOLEAN /\ process' \in BOOLEAN /\ killed' \in BOOLEAN
    BY <1>10 DEF Exits, TypesInv, TypeOK
  <2>. QED
    BY <1>10, <2>1 DEF Exits, TypesInv, TypeOK, acceptVars, nameVars, connectionVars
<1>11. CASE LoopKills
  BY <1>11 DEF LoopKills, EndsShell, TypesInv, TypeOK, acceptVars, nameVars, connectionVars, endVars
<1>12. CASE LoopCloses
  <2>1. /\ shell' \in BOOLEAN /\ ptyClosed' \in BOOLEAN /\ console' \in BOOLEAN
        /\ terminating' \in BOOLEAN /\ process' \in BOOLEAN /\ killed' \in BOOLEAN
    BY <1>12 DEF LoopCloses, ClosesConsole, TypesInv, TypeOK
  <2>. QED
    BY <1>12, <2>1 DEF LoopCloses, TypesInv, TypeOK, acceptVars, nameVars, connectionVars
<1>13. CASE LoopTells
  BY <1>13 DEF LoopTells, Tells, TypesInv, TypeOK, acceptVars, nameVars, connectionVars, endVars
<1>14. ASSUME NEW c \in Clients, ClientOpens(c)
      PROVE  TypesInv'
  BY <1>14 DEF ClientOpens, TypesInv, TypeOK, acceptVars, nameVars, connectionVars, endVars
<1>15. ASSUME NEW c \in Clients, Attach(c)
      PROVE  TypesInv'
  BY <1>15 DEF Attach, TypesInv, TypeOK, acceptVars, nameVars, connectionVars, endVars
<1>16. ASSUME NEW c \in Clients, Leave(c)
      PROVE  TypesInv'
  <2>1. threads' = threads \ {c} /\ c \in threads /\ c # killer
    BY <1>16 DEF Leave
  <2>2. /\ IsFiniteSet(threads')
        /\ Cardinality(threads') = Cardinality(threads) - 1
        /\ Cardinality(threads) \in Nat
    BY <2>1, FS_RemoveElement, FS_CardinalityType DEF TypesInv
  <2>. QED
    BY <1>16, <2>1, <2>2 DEF Leave, TypesInv, TypeOK, acceptVars, nameVars, endVars
<1>17. ASSUME NEW c \in Clients, Kill(c)
      PROVE  TypesInv'
  BY <1>17 DEF Kill, EndsShell, TypesInv, TypeOK, acceptVars, nameVars, connectionVars, endVars
<1>18. ASSUME NEW n \in Names, Rename(n)
      PROVE  TypesInv'
  BY <1>18 DEF Rename, TypesInv, TypeOK, acceptVars, nameVars, connectionVars, endVars
<1>19. CASE CancelListener
  BY <1>19 DEF CancelListener, TypesInv, TypeOK, acceptVars, nameVars, connectionVars, endVars
<1>20. CASE LoopBreaks
  BY <1>20 DEF LoopBreaks, TypesInv, TypeOK, acceptVars, nameVars, connectionVars, endVars
<1>21. CASE ShellExits
  <2>1. /\ shell' \in BOOLEAN /\ ptyClosed' \in BOOLEAN /\ console' \in BOOLEAN
        /\ terminating' \in BOOLEAN /\ process' \in BOOLEAN /\ killed' \in BOOLEAN
    BY <1>21 DEF ShellExits, TypesInv, TypeOK
  <2>. QED
    BY <1>21, <2>1 DEF ShellExits, TypesInv, TypeOK, acceptVars, nameVars, connectionVars
<1>22. CASE CancelledEnds
  <2>1. Cardinality(threads) \in Nat
    BY FS_CardinalityType DEF TypesInv
  <2>2. /\ cancelled' \in 0..MaxClients /\ threads' = threads
        /\ Cardinality(threads') + cancelled' <= MaxClients
    BY <1>22, <2>1 DEF CancelledEnds, TypesInv, TypeOK
  <2>. QED
    BY <1>22, <2>2 DEF CancelledEnds, TypesInv, TypeOK, acceptVars, nameVars, endVars
<1>23. CASE UNCHANGED vars
  BY <1>23 DEF vars, TypesInv, TypeOK, acceptVars, nameVars, connectionVars, endVars
<1>. QED
  BY <1>1, <1>2, <1>3, <1>4, <1>5, <1>6, <1>7, <1>8, <1>9, <1>10, <1>11, <1>12, 
     <1>13, <1>14, <1>15, <1>16, <1>17, <1>18, <1>19, <1>20, <1>21, <1>22, <1>23
     DEF Next, AcceptNext, EndNext

-----------------------------------------------------------------------------
LEMMA EndInit == Init => EndInv
BY DEF Init, EndInv, ShellFirst, ConsoleNext, ToldLast, NobodyKills

\* How the session ends is left alone.
LEMMA OthersKeepEnd ==
    ASSUME EndInv, UNCHANGED endVars, watching' \subseteq watching \/ ~terminating,
           loop' \in {"closing", "finishing", "exiting"} => loop' = loop
    PROVE  EndInv'
BY DEF endVars, EndInv, ShellFirst, ConsoleNext, ToldLast, NobodyKills

\* Every step keeps the order in which a session ends.
LEMMA EndNextKeeps == TypesInv /\ EndInv /\ [Next]_vars => EndInv'
<1> SUFFICES ASSUME TypesInv, EndInv, [Next]_vars
             PROVE  EndInv'
  OBVIOUS
<1> USE DEF ShellFirst, ConsoleNext, ToldLast, NobodyKills
<1>1. CASE CopyName
  BY <1>1, OthersKeepEnd DEF CopyName, connectionVars
<1>2. CASE CreateInstance
  BY <1>2, OthersKeepEnd DEF CreateInstance, connectionVars
<1>3. CASE Publish
  BY <1>3, OthersKeepEnd DEF Publish, connectionVars
<1>4. CASE Accept
  BY <1>4, OthersKeepEnd DEF Accept, connectionVars
<1>5. CASE TakeClient
  BY <1>5, OthersKeepEnd DEF TakeClient, connectionVars
<1>6. CASE KillCloses
  BY <1>6 DEF KillCloses, ClosesConsole, acceptVars, connectionVars, EndInv
<1>7. CASE WatcherCloses
  BY <1>7 DEF WatcherCloses, ClosesConsole, acceptVars, connectionVars, EndInv
<1>8. CASE ReaderEnds
  BY <1>8 DEF ReaderEnds, acceptVars, connectionVars, EndInv
<1>9. CASE ReaderTells
  BY <1>9 DEF ReaderTells, Tells, acceptVars, connectionVars, EndInv, TypesInv, TypeOK
<1>10. CASE Exits
  BY <1>10 DEF Exits, acceptVars, connectionVars, EndInv
<1>11. CASE LoopKills
  BY <1>11 DEF LoopKills, EndsShell, acceptVars, connectionVars, EndInv
<1>12. CASE LoopCloses
  BY <1>12 DEF LoopCloses, ClosesConsole, acceptVars, connectionVars, EndInv
<1>13. CASE LoopTells
  BY <1>13 DEF LoopTells, Tells, acceptVars, connectionVars, EndInv, TypesInv, TypeOK
<1>14. ASSUME NEW c \in Clients, ClientOpens(c)
      PROVE  EndInv'
  BY <1>14, OthersKeepEnd DEF ClientOpens, connectionVars
<1>15. ASSUME NEW c \in Clients, Attach(c)
      PROVE  EndInv'
  BY <1>15 DEF Attach, acceptVars, nameVars, endVars, EndInv
<1>16. ASSUME NEW c \in Clients, Leave(c)
      PROVE  EndInv'
  BY <1>16, OthersKeepEnd DEF Leave, acceptVars
<1>17. ASSUME NEW c \in Clients, Kill(c)
      PROVE  EndInv'
  BY <1>17 DEF Kill, EndsShell, acceptVars, connectionVars, EndInv
<1>18. ASSUME NEW n \in Names, Rename(n)
      PROVE  EndInv'
  BY <1>18, OthersKeepEnd DEF Rename, acceptVars, connectionVars
<1>19. CASE CancelListener
  BY <1>19, OthersKeepEnd DEF CancelListener, connectionVars
<1>20. CASE LoopBreaks
  BY <1>20, OthersKeepEnd DEF LoopBreaks, connectionVars
<1>21. CASE ShellExits
  BY <1>21 DEF ShellExits, acceptVars, connectionVars, EndInv
<1>22. CASE CancelledEnds
  BY <1>22, OthersKeepEnd DEF CancelledEnds, acceptVars
<1>23. CASE UNCHANGED vars
  BY <1>23, OthersKeepEnd DEF vars, acceptVars, connectionVars
<1>. QED
  BY <1>1, <1>2, <1>3, <1>4, <1>5, <1>6, <1>7, <1>8, <1>9, <1>10, <1>11, <1>12, 
     <1>13, <1>14, <1>15, <1>16, <1>17, <1>18, <1>19, <1>20, <1>21, <1>22, <1>23
     DEF Next, AcceptNext, EndNext

\* For any names, any number of connections and any limit on them, the master's
\* threads, its connections and its clients keep their types; no more than the
\* limit are ever served, cancelled calls counted (run_as_master, MAX_CLIENTS).
THEOREM MasterTypes == Spec => []TypeOK
<1>1. TypesInv => TypeOK
  BY DEF TypesInv
<1>. QED
  BY <1>1, ThreadsInit, ThreadsNext, PTL DEF Spec

\* A session that nobody kills does not end before those who were attached when
\* its shell exited, and stayed, were sent FRAME_EXIT: ConPTY is closed after
\* the shell, its reader ends after that, and the process after the clients
\* were told (close_pseudo_console, finish).
THEOREM EndIsTold == Spec => []ExitIsTold
<1>1. EndInv => ExitIsTold
  BY DEF EndInv, ToldLast, ExitIsTold
<1>. QED
  BY <1>1, ThreadsInit, ThreadsNext, EndInit, EndNextKeeps, PTL DEF Spec

-----------------------------------------------------------------------------
\* The attach process.

Inputs == {"none", "blocked", "header", "payload", "storing", "asking", "done"}
Frames == {"output", "marker", "legacy", "error", "exit", "status"}
AnswerKinds == {"output", "marker", "legacy", "error", "hangup"}
FrameOf == [kind : {"attach", "input", "resize", "status"}, n : Sizes \cup Nat]

-----------------------------------------------------------------------------
\* How much text a queue of frames brings to a master that has got `from`: f is
\* the running count. A request for the status comes behind all `to` of it.
Amount(frame) == IF frame.kind = "input" THEN frame.n ELSE 0

\* A number where a piece of text is counted, a size where one is told.
GoodFrame(frame) ==
    IF frame.kind \in {"attach", "resize"} THEN frame.n \in Sizes ELSE frame.n \in Nat

Counts(f, q, from, to) ==
    /\ f \in [0..Len(q) -> Nat]
    /\ f[0] = from
    /\ \A i \in 1..Len(q) : f[i] = f[i - 1] + Amount(q[i])
    /\ \A i \in 1..Len(q) : q[i].kind = "status" => f[i] = to
    /\ \A i \in 0..Len(q) : f[i] <= to

LEMMA CountsTail ==
    ASSUME NEW q \in Seq(FrameOf), q # <<>>, NEW from, NEW to, NEW f, Counts(f, q, from, to)
    PROVE  /\ f[1] = from + Amount(Head(q))
           /\ \E h : /\ Counts(h, Tail(q), f[1], to)
                     /\ h[Len(Tail(q))] = f[Len(q)]
<1> DEFINE t == Tail(q)
           h == [i \in 0..Len(t) |-> f[i + 1]]
<1>1. /\ t \in Seq(FrameOf) /\ Len(t) = Len(q) - 1 /\ Len(q) \in Nat \ {0}
      /\ \A i \in 1..Len(t) : t[i] = q[i + 1]
      /\ Head(q) = q[1]
  <2>1. Len(q) \in Nat \ {0} /\ Head(q) = q[1]
    OBVIOUS
  <2>. QED
    BY <2>1, HeadTailProperties
<1> HIDE DEF t
<1>2. Len(t) \in Nat
  BY <1>1
<1>3. \A i \in 0..Len(t) : i + 1 \in 0..Len(q) /\ i + 1 \in 1..Len(q) /\ f[i + 1] \in Nat
  <2>1. \A i \in 0..Len(t) : i + 1 \in 0..Len(q) /\ i + 1 \in 1..Len(q)
    BY <1>1, <1>2
  <2>2. f \in [0..Len(q) -> Nat]
    BY DEF Counts
  <2>. QED
    BY <2>1, <2>2
<1>4. f[1] = from + Amount(Head(q))
  <2>1. 1 \in 1..Len(q) /\ 1 - 1 = 0
    BY <1>1
  <2>. QED
    BY <1>1, <2>1 DEF Counts
<1>5. h \in [0..Len(t) -> Nat] /\ h[0] = f[1] /\ h[Len(t)] = f[Len(q)]
  <2>1. 0 \in 0..Len(t) /\ Len(t) \in 0..Len(t) /\ 0 + 1 = 1 /\ Len(t) + 1 = Len(q)
    BY <1>1, <1>2
  <2>. QED
    BY <1>3, <2>1
<1>6. ASSUME NEW i \in 1..Len(t)
      PROVE  h[i] = h[i - 1] + Amount(t[i]) /\ (t[i].kind = "status" => h[i] = to)
  <2>1. /\ i \in 0..Len(t) /\ i - 1 \in 0..Len(t) /\ i + 1 \in 1..Len(q)
        /\ (i + 1) - 1 = i /\ (i - 1) + 1 = i
    BY <1>1, <1>2
  <2>2. h[i] = f[i + 1] /\ h[i - 1] = f[i] /\ t[i] = q[i + 1]
    BY <1>1, <2>1
  <2>3. /\ f[i + 1] = f[(i + 1) - 1] + Amount(q[i + 1])
        /\ q[i + 1].kind = "status" => f[i + 1] = to
    BY <2>1 DEF Counts
  <2>. QED
    BY <2>1, <2>2, <2>3
<1>7. \A i \in 0..Len(t) : h[i] <= to
  BY <1>3 DEF Counts
<1> HIDE DEF h
<1>8. Counts(h, t, f[1], to)
  BY <1>5, <1>6, <1>7 DEF Counts
<1>. QED
  BY <1>4, <1>5, <1>8 DEF t

\* What is queued last may bring that much, and the status comes behind it all.
Brings(g, n, to) == n + Amount(g) <= to /\ (g.kind = "status" => n = to)

LEMMA CountsAppend ==
    ASSUME NEW q \in Seq(FrameOf), NEW from, NEW to \in Nat, NEW f, Counts(f, q, from, to),
           NEW g \in FrameOf, GoodFrame(g), Brings(g, f[Len(q)], to)
    PROVE  \E h : /\ Counts(h, Append(q, g), from, to)
                  /\ h[Len(Append(q, g))] = f[Len(q)] + Amount(g)
<1> DEFINE a == Append(q, g)
           n == Len(q)
           h == [i \in 0..(n + 1) |-> IF i = n + 1 THEN f[n] + Amount(g) ELSE f[i]]
<1>1. /\ a \in Seq(FrameOf) /\ Len(a) = n + 1 /\ n \in Nat
      /\ \A i \in 1..n : a[i] = q[i]
      /\ a[n + 1] = g
  BY AppendProperties
<1>2. f \in [0..n -> Nat] /\ f[0] = from
  BY DEF Counts
<1>3. /\ \A i \in 1..n : f[i] = f[i - 1] + Amount(q[i])
      /\ \A i \in 1..n : q[i].kind = "status" => f[i] = to
      /\ \A i \in 0..n : f[i] <= to
  BY DEF Counts
<1>4. Amount(g) \in Nat /\ (g.kind = "status" => Amount(g) = 0)
  BY DEF Amount, GoodFrame
<1>5. f[n] \in Nat /\ f[n] + Amount(g) <= to /\ (g.kind = "status" => f[n] = to)
  BY <1>1, <1>2 DEF Brings
<1> HIDE DEF a, n
<1>6. h \in [0..(n + 1) -> Nat]
  <2>1. \A i \in 0..(n + 1) : (IF i = n + 1 THEN f[n] + Amount(g) ELSE f[i]) \in Nat
    <3> TAKE i \in 0..(n + 1)
    <3>1. CASE i = n + 1
      BY <1>4, <1>5, <3>1
    <3>2. CASE i # n + 1
      <4>1. i \in 0..n
        BY <1>1, <3>2
      <4>. QED
        BY <1>2, <3>2, <4>1
    <3>. QED
      BY <3>1, <3>2
  <2>. QED
    BY <2>1
<1>7. h[0] = from /\ h[n + 1] = f[n] + Amount(g)
  BY <1>1, <1>2
<1>8. \A i \in 0..n : h[i] = f[i]
  BY <1>1
<1> HIDE DEF h
<1>9. ASSUME NEW i \in 1..(n + 1)
      PROVE  h[i] = h[i - 1] + Amount(a[i]) /\ (a[i].kind = "status" => h[i] = to)
  <2>1. CASE i = n + 1
    <3>1. i - 1 = n /\ n \in 0..n
      BY <1>1, <2>1
    <3>2. h[i - 1] = f[n] /\ a[i] = g
      BY <1>1, <1>8, <2>1, <3>1
    <3>. QED
      BY <1>4, <1>5, <1>7, <2>1, <3>2
  <2>2. CASE i # n + 1
    <3>1. i \in 1..n /\ i \in 0..n /\ i - 1 \in 0..n
      BY <1>1, <2>2
    <3>2. h[i] = f[i] /\ h[i - 1] = f[i - 1] /\ a[i] = q[i]
      BY <1>1, <1>8, <3>1
    <3>. QED
      BY <1>3, <3>1, <3>2
  <2>. QED
    BY <2>1, <2>2
<1>10. ASSUME NEW i \in 0..(n + 1) PROVE h[i] <= to
  <2>1. CASE i = n + 1
    BY <1>5, <1>7, <2>1
  <2>2. CASE i # n + 1
    <3>1. i \in 0..n
      BY <1>1, <2>2
    <3>. QED
      BY <1>3, <1>8, <3>1
  <2>. QED
    BY <2>1, <2>2
<1>11. Counts(h, a, from, to)
  BY <1>1, <1>6, <1>7, <1>9, <1>10 DEF Counts
<1>. QED
  BY <1>1, <1>7, <1>11 DEF a, n

\* More text is read as long as the status has not been asked for.
LEMMA CountsMore ==
    ASSUME NEW q \in Seq(FrameOf), NEW from, NEW to \in Nat, NEW more \in Nat, to <= more,
           NEW f, Counts(f, q, from, to), \A i \in 1..Len(q) : q[i].kind # "status"
    PROVE  Counts(f, q, from, more)
<1>1. f \in [0..Len(q) -> Nat] /\ \A i \in 0..Len(q) : f[i] <= to
  BY DEF Counts
<1>2. \A i \in 0..Len(q) : f[i] <= more
  BY <1>1
<1>. QED
  BY <1>2 DEF Counts

-----------------------------------------------------------------------------
Types ==
    /\ main \in {"connecting", "reading", "finished", "detached", "failed"}
    /\ person \in BOOLEAN /\ replay \in BOOLEAN /\ tolerant \in BOOLEAN
    /\ painted \in BOOLEAN /\ detached \in BOOLEAN /\ stale \in BOOLEAN
    /\ torn \in BOOLEAN
    /\ attempt \in {1, 2}
    /\ written \subseteq {1, 2}
    /\ size \in Sizes /\ last \in Sizes
    /\ typed \in Nat /\ taken \in Nat /\ got \in Nat
    /\ stdin \in Seq({"text", "detach"})
    /\ Len(stdin) <= typed
    /\ input \in Inputs
    /\ reading \in [text : 0..typed, detach : BOOLEAN]
    /\ resizer \in {"none", "asleep", "header", "payload", "done"}
    /\ half \subseteq {"input", "resizer"}
    /\ toMaster \in Seq(FrameOf)
    /\ socket \in Seq(Frames)
    /\ answer \in Seq(AnswerKinds)
    /\ phase \in {"answering", "live", "deaf", "ended", "closed"}
    /\ masterSize \in Sizes \cup {0}

\* A queue to the master has sizes where sizes belong, and begins with the
\* attach until that is answered. Nothing is queued before there is a pipe.
SentInv ==
    /\ \A i \in 1..Len(toMaster) : GoodFrame(toMaster[i])
    /\ main = "reading" /\ phase = "answering" =>
         toMaster # <<>> /\ Head(toMaster).kind = "attach"
    /\ main = "connecting" =>
         /\ toMaster = <<>> /\ socket = <<>> /\ input = "none"
         /\ got = 0 /\ taken = 0

\* Only the first attach asks for a replay. Once something is written there is
\* no other.
RetryInv ==
    /\ replay => attempt = 1
    /\ attempt = 1 => 2 \notin written
    /\ attempt = 2 => 1 \notin written
    /\ painted <=> attempt \in written
    /\ stale => attempt = 2

\* Only a person types a detach key; its thread acts on one it has read.
KeyInv ==
    /\ \A i \in 1..Len(stdin) : stdin[i] = "detach" => person
    /\ reading.detach => person
    /\ input \in {"storing", "asking"} => reading.detach
    /\ detached => reading.detach /\ input \in {"asking", "done"}

\* A pipe that is not torn has one frame begun at most.
HalfInv == ~torn => \A a, b \in half : a = b

\* What the input thread has yet to send of its last read.
Pending == IF input \in {"header", "payload"} THEN reading.text ELSE 0

Asked(q) == \E i \in 1..Len(q) : q[i].kind = "status"
Answered == (\E i \in 1..Len(socket) : socket[i] = "status") \/ main = "detached"

\* Unless the pipe is torn or the input thread has ended, everything it took
\* has been received, is queued or is pending. It ends when it asks for the
\* status, behind all that, and the answer comes when all that was received.
PipeInv ==
    /\ \E f : /\ Counts(f, toMaster, got, taken)
              /\ ~torn /\ input # "done" => f[Len(toMaster)] + Pending = taken
    /\ Asked(toMaster) \/ Answered => input = "done"
    /\ Answered => got = taken

-----------------------------------------------------------------------------
\* A read of the console.
LEMMA DecodedIs ==
    ASSUME NEW keys \in Seq({"text", "detach"}), keys # <<>>
    PROVE  /\ Decoded(keys) \in [text : 0..Len(keys), detach : BOOLEAN]
           /\ Decoded(keys).text = 0 => Decoded(keys).detach
           /\ Decoded(keys).detach => \E i \in 1..Len(keys) : keys[i] = "detach"
<1> DEFINE P == PressedAt(keys)
           Is(n) == n + 1 \in P /\ \A i \in P : n < i
           text == IF P = {} THEN Len(keys) ELSE CHOOSE n \in 0..Len(keys) : Is(n)
<1>1. Len(keys) \in Nat \ {0} /\ P = {i \in 1..Len(keys) : keys[i] = "detach"}
  BY DEF PressedAt
<1>2. Decoded(keys) = [text |-> text, detach |-> P # {}]
  BY DEF Decoded
<1> HIDE DEF P
<1>3. text \in 0..Len(keys) /\ (text = 0 => P # {})
  <2>1. CASE P = {}
    BY <1>1, <2>1
  <2>2. CASE P # {}
    <3>1. P \in SUBSET Nat
      BY <1>1
    <3>2. PICK m \in P : \A i \in P : m <= i
      BY <2>2, <3>1, LeastNatural
    <3>3. m - 1 \in 0..Len(keys) /\ m \in Nat /\ (m - 1) + 1 = m
      BY <1>1, <3>2
    <3>4. \A i \in P : m - 1 < i
      BY <3>1, <3>2, <3>3
    <3>5. Is(m - 1)
      BY <3>2, <3>3, <3>4
    <3>6. \E n \in 0..Len(keys) : Is(n)
      BY <3>3, <3>5
    <3> HIDE DEF Is
    <3>. QED
      BY <2>2, <3>6
  <2>. QED
    BY <2>1, <2>2
<1> HIDE DEF text
<1>4. CASE P = {}
  <2>1. Decoded(keys) = [text |-> text, detach |-> FALSE]
    BY <1>2, <1>4
  <2>. QED
    BY <1>3, <1>4, <2>1
<1>5. CASE P # {}
  <2>1. Decoded(keys) = [text |-> text, detach |-> TRUE]
    BY <1>2, <1>5
  <2>. QED
    BY <1>1, <1>3, <1>5, <2>1
<1>. QED
  BY <1>4, <1>5

LEMMA AnswersAre == ASSUME NEW r PROVE Answers(r) \subseteq Seq(AnswerKinds)
<1>1. {"output", "marker", "legacy", "error", "hangup"} = AnswerKinds
  BY DEF AnswerKinds
<1>2. <<"output", "marker">> \in Seq(AnswerKinds)
  BY <1>1
<1>3. \A k \in AnswerKinds : <<k>> \in Seq(AnswerKinds)
  OBVIOUS
<1>4. <<>> \in Seq(AnswerKinds)
  OBVIOUS
<1>. QED
  BY <1>1, <1>2, <1>3, <1>4 DEF Answers

LEMMA TypesInit == AttachInit => Types
<1> SUFFICES ASSUME AttachInit PROVE Types
  OBVIOUS
<1>1. /\ stdin \in Seq({"text", "detach"}) /\ Len(stdin) = 0
      /\ toMaster \in Seq(FrameOf) /\ socket \in Seq(Frames) /\ answer \in Seq(AnswerKinds)
  BY DEF AttachInit
<1>2. typed \in Nat /\ reading \in [text : 0..typed, detach : BOOLEAN]
  BY DEF AttachInit, NothingRead
<1>3. person \in BOOLEAN /\ replay \in BOOLEAN /\ tolerant \in BOOLEAN
  BY DEF AttachInit
<1>4. /\ main \in {"connecting", "reading", "finished", "detached", "failed"}
      /\ painted \in BOOLEAN /\ detached \in BOOLEAN /\ stale \in BOOLEAN
      /\ torn \in BOOLEAN /\ attempt \in {1, 2} /\ written \subseteq {1, 2}
      /\ size \in Sizes /\ last \in Sizes /\ taken \in Nat /\ got \in Nat
      /\ resizer \in {"none", "asleep", "header", "payload", "done"}
      /\ half \subseteq {"input", "resizer"}
      /\ phase \in {"answering", "live", "deaf", "ended", "closed"}
      /\ masterSize \in Sizes \cup {0}
  BY DEF AttachInit
<1>5. Len(stdin) <= typed
  BY <1>1 DEF AttachInit
<1>6. input \in Inputs
  BY DEF AttachInit, Inputs
<1>. QED
  BY <1>1, <1>2, <1>3, <1>4, <1>5, <1>6 DEF Types

LEMMA TypesNext == Types /\ SentInv /\ [AttachNext]_attachVars => Types'
<1> SUFFICES ASSUME Types, SentInv, [AttachNext]_attachVars PROVE Types'
  OBVIOUS
<1> USE DEF Types, mainVars, consoleVars, inputVars, resizeVars, pipeVars, masterVars
<1>1. CASE PersonTypes
  <2>1. PICK key \in {"text", "detach"} : stdin' = Append(stdin, key)
    BY <1>1 DEF PersonTypes
  <2>2. stdin' \in Seq({"text", "detach"}) /\ Len(stdin') = Len(stdin) + 1
    BY <2>1
  <2>3. typed' = typed + 1 /\ Len(stdin') <= typed' /\ reading \in [text : 0..typed', detach : BOOLEAN]
    BY <1>1, <2>2 DEF PersonTypes
  <2>. QED
    BY <1>1, <2>2, <2>3 DEF PersonTypes
<1>2. CASE WindowChanges
  BY <1>2 DEF WindowChanges
<1>3. CASE ConnectFails
  BY <1>3 DEF ConnectFails
<1>4. CASE Bridge
  <2>1. Frame("attach", last) \in FrameOf
    BY DEF Frame, FrameOf
  <2>2. toMaster' \in Seq(FrameOf)
    <3>1. toMaster' = <<Frame("attach", last)>>
      BY <1>4 DEF Bridge
    <3>. QED
      BY <2>1, <3>1
  <2>3. answer' \in Seq(AnswerKinds)
    BY <1>4, AnswersAre DEF Bridge
  <2>. QED
    BY <1>4, <2>2, <2>3 DEF Bridge, Inputs
<1>5. CASE ReadInput
  <2>1. /\ stdin # <<>> /\ stdin' = <<>> /\ reading' = Decoded(stdin)
        /\ taken' = taken + reading'.text /\ input' = AfterRead(reading')
        /\ UNCHANGED typed
    BY <1>5 DEF ReadInput
  <2>2. reading' \in [text : 0..typed', detach : BOOLEAN]
    <3>1. Decoded(stdin) \in [text : 0..Len(stdin), detach : BOOLEAN]
      BY <2>1, DecodedIs
    <3>. QED
      BY <2>1, <3>1
  <2>3. input' \in Inputs /\ taken' \in Nat
    BY <2>1, <2>2 DEF AfterRead, Inputs
  <2>4. stdin' \in Seq({"text", "detach"}) /\ Len(stdin') <= typed'
    BY <2>1
  <2>. QED
    BY <1>5, <2>2, <2>3, <2>4 DEF ReadInput
<1>6. CASE InputEnds
  BY <1>6 DEF InputEnds, Inputs
<1>7. CASE SendInputFails
  BY <1>7 DEF SendInputFails, Inputs
<1>8. CASE StoreDetached
  BY <1>8 DEF StoreDetached, Inputs
<1>9. CASE SendInput
  <2> DEFINE fr == Frame("input", reading.text)
  <2>1. fr \in FrameOf
    BY DEF Frame, FrameOf
  <2>2. toMaster' \in Seq(FrameOf)
    <3>1. toMaster' = toMaster \/ toMaster' = Append(toMaster, fr)
      BY <1>9 DEF SendInput, WritesHeader, CompletesFrame
    <3> HIDE DEF fr
    <3>2. Append(toMaster, fr) \in Seq(FrameOf)
      BY <2>1
    <3>. QED
      BY <3>1, <3>2
  <2>3. half' \subseteq {"input", "resizer"} /\ torn' \in BOOLEAN /\ input' \in Inputs
    BY <1>9 DEF SendInput, WritesHeader, CompletesFrame, Tears, AfterSend, Inputs
  <2>. QED
    BY <1>9, <2>2, <2>3 DEF SendInput
<1>10. CASE AskStatus
  <2> DEFINE fr == Frame("status", 0)
  <2>1. fr \in FrameOf
    BY DEF Frame, FrameOf
  <2>2. toMaster' \in Seq(FrameOf)
    <3>1. toMaster' = toMaster \/ toMaster' = Append(toMaster, fr)
      BY <1>10 DEF AskStatus, CompletesFrame
    <3> HIDE DEF fr
    <3>2. Append(toMaster, fr) \in Seq(FrameOf)
      BY <2>1
    <3>. QED
      BY <3>1, <3>2
  <2>3. half' \subseteq {"input", "resizer"} /\ torn' \in BOOLEAN /\ input' \in Inputs
    BY <1>10 DEF AskStatus, CompletesFrame, Tears, Inputs
  <2>. QED
    BY <1>10, <2>2, <2>3 DEF AskStatus
<1>11. CASE StaleReads
  <2>1. stdin' \in Seq({"text", "detach"}) /\ Len(stdin') <= typed'
    BY <1>11 DEF StaleReads
  <2>. QED
    BY <1>11, <2>1 DEF StaleReads
<1>12. CASE PollSize
  BY <1>12 DEF PollSize
<1>13. CASE SendSizeFails
  BY <1>13 DEF SendSizeFails
<1>14. CASE SendSize
  <2> DEFINE fr == Frame("resize", last)
  <2>1. fr \in FrameOf
    BY DEF Frame, FrameOf
  <2>2. toMaster' \in Seq(FrameOf)
    <3>1. toMaster' = toMaster \/ toMaster' = Append(toMaster, fr)
      BY <1>14 DEF SendSize, WritesHeader, CompletesFrame
    <3> HIDE DEF fr
    <3>2. Append(toMaster, fr) \in Seq(FrameOf)
      BY <2>1
    <3>. QED
      BY <3>1, <3>2
  <2>3. half' \subseteq {"input", "resizer"} /\ torn' \in BOOLEAN
    BY <1>14 DEF SendSize, WritesHeader, CompletesFrame, Tears
  <2>. QED
    BY <1>14, <2>2, <2>3 DEF SendSize
<1>15. CASE WriteFrame
  <2>1. socket # <<>> /\ socket' = Tail(socket)
    BY <1>15 DEF WriteFrame
  <2>2. socket' \in Seq(Frames)
    BY <2>1
  <2>. QED
    BY <1>15, <2>2 DEF WriteFrame, Paints
<1>16. CASE ReadStatus
  <2>1. socket # <<>> /\ socket' = Tail(socket)
    BY <1>16 DEF ReadStatus
  <2>2. socket' \in Seq(Frames)
    BY <2>1
  <2>. QED
    BY <1>16, <2>2 DEF ReadStatus
<1>17. CASE IgnoreError
  <2>1. socket # <<>> /\ socket' = Tail(socket)
    BY <1>17 DEF IgnoreError
  <2>2. socket' \in Seq(Frames)
    BY <2>1
  <2>3. tolerant' \in BOOLEAN
    BY <1>17 DEF IgnoreError
  <2>4. UNCHANGED <<main, person, replay, painted, attempt, written, consoleVars,
                    inputVars, resizeVars, pipeVars, masterVars>>
    BY <1>17 DEF IgnoreError
  <2>. QED
    BY <2>2, <2>3, <2>4
<1>18. CASE ReadExit
  BY <1>18 DEF ReadExit
<1>19. CASE ReportError
  BY <1>19 DEF ReportError
<1>20. CASE Retry
  <2>1. stale' \in BOOLEAN
    BY <1>20 DEF Retry, StaysInRead, Inputs
  <2>2. reading' \in [text : 0..typed, detach : BOOLEAN]
    BY <1>20 DEF Retry, NothingRead
  <2>3. toMaster' \in Seq(FrameOf) /\ socket' \in Seq(Frames) /\ answer' \in Seq(AnswerKinds)
    BY <1>20 DEF Retry
  <2>. QED
    BY <1>20, <2>1, <2>2, <2>3 DEF Retry, Inputs
<1>21. CASE MasterAnswers
  <2>1. CASE answer = <<>>
    <3>1. /\ main = "reading" /\ phase = "answering" /\ phase' = "live"
          /\ masterSize' = Head(toMaster).n /\ toMaster' = Tail(toMaster)
          /\ UNCHANGED <<answer, socket>>
      BY <1>21, <2>1 DEF MasterAnswers, Sends
    <3>2. toMaster # <<>> /\ Head(toMaster).kind = "attach" /\ Head(toMaster) = toMaster[1]
          /\ 1 \in 1..Len(toMaster)
      BY <3>1 DEF SentInv
    <3>3. masterSize' \in Sizes
      BY <3>1, <3>2 DEF SentInv, GoodFrame
    <3>4. toMaster' \in Seq(FrameOf)
      BY <3>1, <3>2
    <3>. QED
      BY <1>21, <3>1, <3>3, <3>4 DEF MasterAnswers, Sends
  <2>2. CASE answer # <<>> /\ Head(answer) # "hangup"
    <3>1. Head(answer) \in AnswerKinds
      BY <2>2
    <3>2. Head(answer) \in Frames
      BY <2>2, <3>1 DEF AnswerKinds, Frames
    <3>3. answer # <<"hangup">>
      BY <2>2
    <3>4. /\ answer' = Tail(answer) /\ socket' = Append(socket, Head(answer))
          /\ phase' \in {"ended", phase}
          /\ UNCHANGED <<masterSize, toMaster>>
      BY <1>21, <2>2, <3>3 DEF MasterAnswers, Sends
    <3>5. answer' \in Seq(AnswerKinds) /\ socket' \in Seq(Frames)
      BY <2>2, <3>2, <3>4
    <3>. QED
      BY <1>21, <3>4, <3>5 DEF MasterAnswers, Sends
  <2>3. CASE answer = <<"hangup">>
    <3>1. answer # <<>> /\ Head(answer) = "hangup"
      BY <2>3
    <3>. QED
      BY <1>21, <3>1 DEF MasterAnswers, Sends
  <2>. QED
    BY <1>21, <2>1, <2>2, <2>3 DEF MasterAnswers, Sends
<1>22. CASE MasterReads
  <2>1. /\ toMaster # <<>> /\ toMaster' = Tail(toMaster)
        /\ got' = IF Head(toMaster).kind = "input" THEN got + Head(toMaster).n ELSE got
        /\ masterSize' = IF Head(toMaster).kind = "resize" THEN Head(toMaster).n ELSE masterSize
        /\ socket' \in {Append(socket, "status"), socket}
    BY <1>22 DEF MasterReads, Sends
  <2>2. Head(toMaster) = toMaster[1] /\ 1 \in 1..Len(toMaster)
    BY <2>1
  <2>3. got' \in Nat /\ masterSize' \in Sizes \cup {0}
    BY <2>1, <2>2 DEF SentInv, GoodFrame
  <2>4. toMaster' \in Seq(FrameOf)
    BY <2>1
  <2>5. "status" \in Frames
    BY DEF Frames
  <2>6. Append(socket, "status") \in Seq(Frames)
    BY <2>5
  <2>7. socket' \in Seq(Frames)
    BY <2>1, <2>6
  <2>. QED
    BY <1>22, <2>3, <2>4, <2>7 DEF MasterReads, Sends
<1>23. CASE MasterComplains
  <2>1. socket' = Append(socket, "legacy") /\ "legacy" \in Frames
    BY <1>23 DEF MasterComplains, Sends, Frames
  <2>2. socket' \in Seq(Frames)
    BY <2>1
  <2>. QED
    BY <1>23, <2>2 DEF MasterComplains, Sends
<1>24. CASE MasterSendsOutput
  <2>1. socket' = Append(socket, "output") /\ "output" \in Frames
    BY <1>24 DEF MasterSendsOutput, Sends, Frames
  <2>2. socket' \in Seq(Frames)
    BY <2>1
  <2>. QED
    BY <1>24, <2>2 DEF MasterSendsOutput, Sends
<1>25. CASE MasterSendsExit
  <2>1. socket' = Append(socket, "exit") /\ "exit" \in Frames
    BY <1>25 DEF MasterSendsExit, Sends, Frames
  <2>2. socket' \in Seq(Frames)
    BY <2>1
  <2>. QED
    BY <1>25, <2>2 DEF MasterSendsExit, Sends
<1>26. CASE MasterCloses
  BY <1>26 DEF MasterCloses
<1>27. CASE MasterFails
  <2>1. Append(socket, "error") \in Seq(Frames)
    <3>1. "error" \in Frames
      BY DEF Frames
    <3>. QED
      BY <3>1
  <2>2. /\ socket' \in Seq(Frames)
        /\ phase' \in {"answering", "live", "deaf", "ended", "closed"}
    BY <1>27, <2>1 DEF MasterFails, Sends
  <2>. QED
    BY <1>27, <2>2 DEF MasterFails
<1>28. CASE ClosesUnheard
  BY <1>28 DEF ClosesUnheard
<1>29. CASE UNCHANGED attachVars
  BY <1>29 DEF attachVars
<1>. QED
  BY <1>1, <1>2, <1>4, <1>5, <1>6, <1>9, <1>10, <1>11, <1>12, <1>14, <1>15, <1>18,
     <1>20, <1>21, <1>22, <1>23, <1>26, <1>3, <1>7, <1>8, <1>13, <1>19, <1>29,
     <1>16, <1>17, <1>24, <1>25, <1>27, <1>28
     DEF AttachNext, MainNext, InputNext, ResizeNext, MasterNext

-----------------------------------------------------------------------------

LEMMA RetryNext == Types /\ RetryInv /\ [AttachNext]_attachVars => RetryInv'
<1> SUFFICES ASSUME Types, RetryInv, [AttachNext]_attachVars PROVE RetryInv'
  OBVIOUS
<1> USE DEF mainVars, consoleVars, inputVars, resizeVars, pipeVars, masterVars
<1>1. CASE Bridge
  BY <1>1 DEF Bridge, RetryInv
<1>2. CASE WriteFrame
  <2>1. /\ painted' = TRUE /\ written' = written \cup {attempt}
        /\ UNCHANGED <<replay, attempt, stale>>
    BY <1>2 DEF WriteFrame, Paints
  <2>. QED
    BY <2>1 DEF RetryInv, Types
<1>3. CASE ReadExit
  BY <1>3 DEF ReadExit, RetryInv
<1>4. CASE ReadStatus
  BY <1>4 DEF ReadStatus, RetryInv
<1>5. CASE IgnoreError
  BY <1>5 DEF IgnoreError, RetryInv
<1>6. CASE Retry
  <2>1. replay /\ ~painted /\ attempt' = 2 /\ ~replay'
        /\ UNCHANGED <<painted, written>>
    BY <1>6 DEF Retry
  <2>2. attempt = 1 /\ 1 \notin written /\ 2 \notin written
    BY <2>1 DEF RetryInv
  <2>. QED
    BY <2>1, <2>2 DEF RetryInv
<1>7. CASE ReportError
  BY <1>7 DEF ReportError, RetryInv
<1>8. CASE ReadInput
  BY <1>8 DEF ReadInput, RetryInv
<1>9. CASE SendInput
  BY <1>9 DEF SendInput, RetryInv
<1>10. CASE SendInputFails
  BY <1>10 DEF SendInputFails, RetryInv
<1>11. CASE StoreDetached
  BY <1>11 DEF StoreDetached, RetryInv
<1>12. CASE AskStatus
  BY <1>12 DEF AskStatus, RetryInv
<1>13. CASE PollSize
  BY <1>13 DEF PollSize, RetryInv
<1>14. CASE SendSize
  BY <1>14 DEF SendSize, RetryInv
<1>15. CASE SendSizeFails
  BY <1>15 DEF SendSizeFails, RetryInv
<1>16. CASE MasterAnswers
  BY <1>16 DEF MasterAnswers, Sends, RetryInv
<1>17. CASE MasterReads
  BY <1>17 DEF MasterReads, Sends, RetryInv
<1>18. CASE ConnectFails
  BY <1>18 DEF ConnectFails, RetryInv
<1>19. CASE InputEnds
  BY <1>19 DEF InputEnds, RetryInv
<1>20. CASE StaleReads
  <2>1. stale /\ UNCHANGED mainVars
    BY <1>20 DEF StaleReads
  <2>. QED
    BY <2>1 DEF RetryInv
<1>21. CASE PersonTypes
  BY <1>21 DEF PersonTypes, RetryInv
<1>22. CASE WindowChanges
  BY <1>22 DEF WindowChanges, RetryInv
<1>23. CASE MasterComplains
  BY <1>23 DEF MasterComplains, Sends, RetryInv
<1>24. CASE MasterSendsOutput
  BY <1>24 DEF MasterSendsOutput, Sends, RetryInv
<1>25. CASE MasterSendsExit
  BY <1>25 DEF MasterSendsExit, Sends, RetryInv
<1>26. CASE MasterCloses
  BY <1>26 DEF MasterCloses, RetryInv
<1>27. CASE MasterFails
  BY <1>27 DEF MasterFails, Sends, RetryInv
<1>28. CASE ClosesUnheard
  BY <1>28 DEF ClosesUnheard, RetryInv
<1>29. CASE UNCHANGED attachVars
  BY <1>29 DEF attachVars, RetryInv
<1>. QED
  BY <1>1, <1>2, <1>3, <1>4, <1>5, <1>6, <1>7, <1>8, <1>9, <1>10, <1>11,
     <1>12, <1>13, <1>14, <1>15, <1>16, <1>17, <1>18, <1>19, <1>20, <1>21,
     <1>22, <1>23, <1>24, <1>25, <1>26, <1>29,
     <1>27, <1>28
     DEF AttachNext, MainNext, InputNext, ResizeNext, MasterNext

\* A frame that does not tear the pipe is the only one begun.
LEMMA TearsApart ==
    ASSUME NEW thread, Tears(thread), half' \subseteq half \cup {thread}
    PROVE  HalfInv'
<1> SUFFICES ASSUME ~torn', NEW a \in half', NEW b \in half' PROVE a = b
  BY DEF HalfInv
<1>1. half \ {thread} = {}
  BY DEF Tears
<1>2. half' \subseteq {thread}
  BY <1>1
<1>. QED
  BY <1>2

LEMMA HalfNext == Types /\ HalfInv /\ [AttachNext]_attachVars => HalfInv'
<1> SUFFICES ASSUME Types, HalfInv, [AttachNext]_attachVars PROVE HalfInv'
  OBVIOUS
<1> USE DEF mainVars, consoleVars, inputVars, resizeVars, pipeVars, masterVars
<1>1. CASE Bridge
  BY <1>1 DEF Bridge, HalfInv
<1>2. CASE WriteFrame
  BY <1>2 DEF WriteFrame, HalfInv
<1>3. CASE ReadExit
  BY <1>3 DEF ReadExit, HalfInv
<1>4. CASE ReadStatus
  BY <1>4 DEF ReadStatus, HalfInv
<1>5. CASE IgnoreError
  BY <1>5 DEF IgnoreError, HalfInv
<1>6. CASE Retry
  BY <1>6 DEF Retry, HalfInv
<1>7. CASE ReportError
  BY <1>7 DEF ReportError, HalfInv
<1>8. CASE ReadInput
  BY <1>8 DEF ReadInput, HalfInv
<1>9. CASE SendInput
  <2>1. UNCHANGED <<half, torn>> \/ (Tears("input") /\ half' \subseteq half \cup {"input"})
    BY <1>9 DEF SendInput, WritesHeader, CompletesFrame
  <2>. QED
    BY <2>1, TearsApart DEF HalfInv
<1>10. CASE SendInputFails
  BY <1>10 DEF SendInputFails, HalfInv
<1>11. CASE StoreDetached
  BY <1>11 DEF StoreDetached, HalfInv
<1>12. CASE AskStatus
  <2>1. UNCHANGED <<half, torn>> \/ (Tears("input") /\ half' \subseteq half \cup {"input"})
    BY <1>12 DEF AskStatus, CompletesFrame
  <2>. QED
    BY <2>1, TearsApart DEF HalfInv
<1>13. CASE PollSize
  BY <1>13 DEF PollSize, HalfInv
<1>14. CASE SendSize
  <2>1. UNCHANGED <<half, torn>> \/ (Tears("resizer") /\ half' \subseteq half \cup {"resizer"})
    BY <1>14 DEF SendSize, WritesHeader, CompletesFrame
  <2>. QED
    BY <2>1, TearsApart DEF HalfInv
<1>15. CASE SendSizeFails
  BY <1>15 DEF SendSizeFails, HalfInv
<1>16. CASE MasterAnswers
  BY <1>16 DEF MasterAnswers, Sends, HalfInv
<1>17. CASE MasterReads
  BY <1>17 DEF MasterReads, Sends, HalfInv
<1>18. CASE ConnectFails
  BY <1>18 DEF ConnectFails, HalfInv
<1>19. CASE InputEnds
  BY <1>19 DEF InputEnds, HalfInv
<1>20. CASE StaleReads
  BY <1>20 DEF StaleReads, HalfInv
<1>21. CASE PersonTypes
  BY <1>21 DEF PersonTypes, HalfInv
<1>22. CASE WindowChanges
  BY <1>22 DEF WindowChanges, HalfInv
<1>23. CASE MasterComplains
  BY <1>23 DEF MasterComplains, Sends, HalfInv
<1>24. CASE MasterSendsOutput
  BY <1>24 DEF MasterSendsOutput, Sends, HalfInv
<1>25. CASE MasterSendsExit
  BY <1>25 DEF MasterSendsExit, Sends, HalfInv
<1>26. CASE MasterCloses
  BY <1>26 DEF MasterCloses, HalfInv
<1>27. CASE MasterFails
  BY <1>27 DEF MasterFails, Sends, HalfInv
<1>28. CASE ClosesUnheard
  BY <1>28 DEF ClosesUnheard, HalfInv
<1>29. CASE UNCHANGED attachVars
  BY <1>29 DEF attachVars, HalfInv
<1>. QED
  BY <1>1, <1>2, <1>3, <1>4, <1>5, <1>6, <1>7, <1>8, <1>9, <1>10, <1>11,
     <1>12, <1>13, <1>14, <1>15, <1>16, <1>17, <1>18, <1>19, <1>20, <1>21,
     <1>22, <1>23, <1>24, <1>25, <1>26, <1>29,
     <1>27, <1>28
     DEF AttachNext, MainNext, InputNext, ResizeNext, MasterNext

LEMMA KeyNext == Types /\ SentInv /\ KeyInv /\ [AttachNext]_attachVars => KeyInv'
<1> SUFFICES ASSUME Types, SentInv, KeyInv, [AttachNext]_attachVars PROVE KeyInv'
  OBVIOUS
<1> USE DEF mainVars, consoleVars, inputVars, resizeVars, pipeVars, masterVars
<1>1. CASE Bridge
  <2>1. /\ UNCHANGED <<person, stdin, reading, detached>>
        /\ main = "connecting" /\ input' = "blocked"
    BY <1>1 DEF Bridge
  <2>2. ~detached
    BY <2>1 DEF KeyInv, SentInv
  <2>. QED
    BY <2>1, <2>2 DEF KeyInv
<1>2. CASE WriteFrame
  BY <1>2 DEF WriteFrame, KeyInv
<1>3. CASE ReadExit
  BY <1>3 DEF ReadExit, KeyInv
<1>4. CASE ReadStatus
  BY <1>4 DEF ReadStatus, KeyInv
<1>5. CASE IgnoreError
  BY <1>5 DEF IgnoreError, KeyInv
<1>6. CASE Retry
  <2>1. /\ UNCHANGED <<person, stdin>> /\ input' = "none" /\ ~detached'
        /\ reading' = NothingRead
    BY <1>6 DEF Retry
  <2>2. ~reading'.detach
    BY <2>1 DEF NothingRead
  <2>. QED
    BY <2>1, <2>2 DEF KeyInv
<1>7. CASE ReportError
  BY <1>7 DEF ReportError, KeyInv
<1>8. CASE ReadInput
  <2>1. /\ stdin # <<>> /\ stdin' = <<>> /\ reading' = Decoded(stdin)
        /\ input = "blocked" /\ input' = AfterRead(reading')
        /\ UNCHANGED <<person, detached>>
    BY <1>8 DEF ReadInput
  <2>2. /\ Decoded(stdin).text \in Nat
        /\ Decoded(stdin).text = 0 => Decoded(stdin).detach
        /\ Decoded(stdin).detach => person
    BY <2>1, DecodedIs DEF Types, KeyInv
  <2>3. ~detached
    BY <2>1 DEF KeyInv
  <2>4. input' \in {"storing", "asking"} => reading'.detach
    BY <2>1, <2>2 DEF AfterRead
  <2>5. \A i \in 1..Len(stdin') : stdin'[i] = "detach" => person'
    BY <2>1
  <2>. QED
    BY <2>1, <2>2, <2>3, <2>4, <2>5 DEF KeyInv
<1>9. CASE SendInput
  <2>1. /\ UNCHANGED <<person, stdin, reading, detached>>
        /\ input \in {"header", "payload"}
        /\ input' = "payload" \/ input' = AfterSend
    BY <1>9 DEF SendInput
  <2>2. input' \in {"storing", "asking"} => reading.detach
    BY <2>1 DEF AfterSend
  <2>3. ~detached
    BY <2>1 DEF KeyInv
  <2>. QED
    BY <2>1, <2>2, <2>3 DEF KeyInv
<1>10. CASE SendInputFails
  BY <1>10 DEF SendInputFails, KeyInv
<1>11. CASE StoreDetached
  BY <1>11 DEF StoreDetached, KeyInv
<1>12. CASE AskStatus
  BY <1>12 DEF AskStatus, KeyInv
<1>13. CASE PollSize
  BY <1>13 DEF PollSize, KeyInv
<1>14. CASE SendSize
  BY <1>14 DEF SendSize, KeyInv
<1>15. CASE SendSizeFails
  BY <1>15 DEF SendSizeFails, KeyInv
<1>16. CASE MasterAnswers
  BY <1>16 DEF MasterAnswers, Sends, KeyInv
<1>17. CASE MasterReads
  BY <1>17 DEF MasterReads, Sends, KeyInv
<1>18. CASE ConnectFails
  BY <1>18 DEF ConnectFails, KeyInv
<1>19. CASE InputEnds
  BY <1>19 DEF InputEnds, KeyInv
<1>20. CASE StaleReads
  <2>1. stdin' = <<>> /\ UNCHANGED <<person, reading, input, detached>>
    BY <1>20 DEF StaleReads
  <2>2. \A i \in 1..Len(stdin') : stdin'[i] = "detach" => person'
    BY <2>1
  <2>. QED
    BY <2>1, <2>2 DEF KeyInv
<1>21. CASE PersonTypes
  <2>1. PICK key \in {"text", "detach"} :
          stdin' = Append(stdin, key) /\ (key = "detach" => person)
    BY <1>21 DEF PersonTypes
  <2>2. stdin \in Seq({"text", "detach"})
    BY DEF Types
  <2>3. \A i \in 1..Len(stdin') : stdin'[i] = "detach" => person
    BY <2>1, <2>2, AppendProperties DEF KeyInv
  <2>. QED
    BY <1>21, <2>3 DEF PersonTypes, KeyInv
<1>22. CASE WindowChanges
  BY <1>22 DEF WindowChanges, KeyInv
<1>23. CASE MasterComplains
  BY <1>23 DEF MasterComplains, Sends, KeyInv
<1>24. CASE MasterSendsOutput
  BY <1>24 DEF MasterSendsOutput, Sends, KeyInv
<1>25. CASE MasterSendsExit
  BY <1>25 DEF MasterSendsExit, Sends, KeyInv
<1>26. CASE MasterCloses
  BY <1>26 DEF MasterCloses, KeyInv
<1>27. CASE MasterFails
  BY <1>27 DEF MasterFails, Sends, KeyInv
<1>28. CASE ClosesUnheard
  BY <1>28 DEF ClosesUnheard, KeyInv
<1>29. CASE UNCHANGED attachVars
  BY <1>29 DEF attachVars, KeyInv
<1>. QED
  BY <1>1, <1>2, <1>3, <1>4, <1>5, <1>6, <1>7, <1>8, <1>9, <1>10, <1>11,
     <1>12, <1>13, <1>14, <1>15, <1>16, <1>17, <1>18, <1>19, <1>20, <1>21,
     <1>22, <1>23, <1>24, <1>25, <1>26, <1>29,
     <1>27, <1>28
     DEF AttachNext, MainNext, InputNext, ResizeNext, MasterNext

-----------------------------------------------------------------------------
\* What is queued to the master.
LEMMA FramesAreGood ==
    ASSUME NEW n \in Nat
    PROVE  /\ Frame("input", n) \in FrameOf /\ GoodFrame(Frame("input", n))
           /\ Amount(Frame("input", n)) = n /\ Frame("input", n).kind = "input"
           /\ Frame("status", 0) \in FrameOf /\ GoodFrame(Frame("status", 0))
           /\ Amount(Frame("status", 0)) = 0 /\ Frame("status", 0).kind = "status"
           /\ \A s \in Sizes, k \in {"attach", "resize"} :
                /\ Frame(k, s) \in FrameOf /\ GoodFrame(Frame(k, s))
                /\ Amount(Frame(k, s)) = 0 /\ Frame(k, s).kind = k
BY DEF Frame, FrameOf, GoodFrame, Amount

LEMMA AppendSent ==
    ASSUME Types, SentInv, NEW g \in FrameOf, GoodFrame(g),
           main = "reading", main' = main, phase' = phase,
           toMaster' = toMaster \/ toMaster' = Append(toMaster, g)
    PROVE  SentInv'
<1>1. CASE toMaster' = toMaster
  BY <1>1 DEF SentInv
<1>2. CASE toMaster' = Append(toMaster, g)
  <2>1. toMaster \in Seq(FrameOf)
    BY DEF Types
  <2>2. \A i \in 1..Len(toMaster') : GoodFrame(toMaster'[i])
    <3>1. /\ Len(toMaster') = Len(toMaster) + 1 /\ Len(toMaster) \in Nat
          /\ \A i \in 1..Len(toMaster) : toMaster'[i] = toMaster[i]
          /\ toMaster'[Len(toMaster) + 1] = g
      BY <1>2, <2>1, AppendProperties
    <3>2. ASSUME NEW i \in 1..Len(toMaster') PROVE GoodFrame(toMaster'[i])
      <4>1. i \in 1..Len(toMaster) \/ i = Len(toMaster) + 1
        BY <3>1
      <4>. QED
        BY <3>1, <4>1 DEF SentInv
    <3>. QED
      BY <3>2
  <2>3. toMaster # <<>> => toMaster' # <<>> /\ Head(toMaster') = Head(toMaster)
    BY <1>2, <2>1
  <2>. QED
    BY <2>2, <2>3 DEF SentInv
<1>. QED
  BY <1>1, <1>2

LEMMA TailSent ==
    ASSUME Types, SentInv, toMaster # <<>>, toMaster' = Tail(toMaster),
           main' = "reading", phase' # "answering"
    PROVE  SentInv'
<1>1. toMaster \in Seq(FrameOf)
  BY DEF Types
<1>2. /\ Len(toMaster') = Len(toMaster) - 1 /\ Len(toMaster) \in Nat
      /\ \A i \in 1..Len(toMaster') : toMaster'[i] = toMaster[i + 1]
  BY <1>1, HeadTailProperties
<1>3. \A i \in 1..Len(toMaster') : i + 1 \in 1..Len(toMaster)
  BY <1>2
<1>. QED
  BY <1>2, <1>3 DEF SentInv

LEMMA SentNext == Types /\ SentInv /\ [AttachNext]_attachVars => SentInv'
<1> SUFFICES ASSUME Types, SentInv, [AttachNext]_attachVars PROVE SentInv'
  OBVIOUS
<1> USE DEF mainVars, consoleVars, inputVars, resizeVars, pipeVars, masterVars
<1>1. CASE Bridge
  <2>1. /\ main' = "reading"
        /\ toMaster' = <<Frame("attach", last)>>
    BY <1>1 DEF Bridge
  <2>2. GoodFrame(Frame("attach", last)) /\ Frame("attach", last).kind = "attach"
    BY FramesAreGood DEF Types
  <2> DEFINE g == Frame("attach", last)
  <2> HIDE DEF g
  <2>3. toMaster' = <<g>> /\ GoodFrame(g) /\ g.kind = "attach"
    BY <2>1, <2>2 DEF g
  <2>4. Len(toMaster') = 1 /\ toMaster'[1] = g /\ toMaster' # <<>> /\ Head(toMaster') = g
    BY <2>3
  <2>. QED
    BY <2>1, <2>3, <2>4 DEF SentInv
<1>2. CASE WriteFrame
  BY <1>2 DEF WriteFrame, SentInv, Live
<1>3. CASE ReadExit
  BY <1>3 DEF ReadExit, SentInv, Live
<1>4. CASE ReadStatus
  BY <1>4 DEF ReadStatus, SentInv, Live
<1>5. CASE IgnoreError
  BY <1>5 DEF IgnoreError, SentInv, Live
<1>6. CASE Retry
  <2>1. /\ main' = "connecting" /\ toMaster' = <<>> /\ socket' = <<>>
        /\ input' = "none" /\ got' = 0 /\ taken' = 0
    BY <1>6 DEF Retry
  <2>2. Len(toMaster') = 0
    BY <2>1
  <2>. QED
    BY <2>1, <2>2 DEF SentInv
<1>7. CASE ReportError
  BY <1>7 DEF ReportError, SentInv, Live
<1>8. CASE ReadInput
  BY <1>8 DEF ReadInput, SentInv, Live
<1>9. CASE SendInput
  <2>1. /\ main = "reading" /\ UNCHANGED <<main, phase>>
        /\ \/ toMaster' = toMaster
           \/ toMaster' = Append(toMaster, Frame("input", reading.text))
    BY <1>9 DEF SendInput, WritesHeader, CompletesFrame
  <2>2. reading.text \in Nat
    BY DEF Types
  <2>. QED
    BY <2>1, <2>2, AppendSent, FramesAreGood
<1>10. CASE SendInputFails
  BY <1>10 DEF SendInputFails, SentInv, Live
<1>11. CASE StoreDetached
  BY <1>11 DEF StoreDetached, SentInv, Live
<1>12. CASE AskStatus
  <2>1. /\ main = "reading" /\ UNCHANGED <<main, phase>>
        /\ toMaster' = toMaster \/ toMaster' = Append(toMaster, Frame("status", 0))
    BY <1>12 DEF AskStatus, CompletesFrame
  <2>. QED
    BY <2>1, AppendSent, FramesAreGood
<1>13. CASE PollSize
  BY <1>13 DEF PollSize, SentInv, Live
<1>14. CASE SendSize
  <2>1. /\ main = "reading" /\ UNCHANGED <<main, phase>>
        /\ toMaster' = toMaster \/ toMaster' = Append(toMaster, Frame("resize", last))
    BY <1>14 DEF SendSize, WritesHeader, CompletesFrame
  <2>2. last \in Sizes
    BY DEF Types
  <2>. QED
    BY <2>1, <2>2, AppendSent, FramesAreGood
<1>15. CASE SendSizeFails
  BY <1>15 DEF SendSizeFails, SentInv, Live
<1>16. CASE MasterAnswers
  <2>1. CASE answer = <<>>
    <3>1. /\ main = "reading" /\ phase = "answering" /\ phase' = "live"
          /\ toMaster' = Tail(toMaster) /\ main' = main
      BY <1>16, <2>1 DEF MasterAnswers, Sends
    <3>2. toMaster # <<>>
      BY <3>1 DEF SentInv
    <3>. QED
      BY <3>1, <3>2, TailSent
  <2>2. CASE answer # <<>>
    <3>1. /\ main' = "reading" /\ main = "reading" /\ phase = "answering"
          /\ UNCHANGED toMaster
      BY <1>16, <2>2 DEF MasterAnswers, Sends
    <3>. QED
      BY <3>1 DEF SentInv
  <2>. QED
    BY <2>1, <2>2
<1>17. CASE MasterReads
  BY <1>17, TailSent DEF MasterReads, Sends
<1>18. CASE ConnectFails
  BY <1>18 DEF ConnectFails, SentInv, Live
<1>19. CASE InputEnds
  BY <1>19 DEF InputEnds, SentInv, Live
<1>20. CASE StaleReads
  BY <1>20 DEF StaleReads, SentInv, Live
<1>21. CASE PersonTypes
  BY <1>21 DEF PersonTypes, SentInv, Live
<1>22. CASE WindowChanges
  BY <1>22 DEF WindowChanges, SentInv, Live
<1>23. CASE MasterComplains
  BY <1>23 DEF MasterComplains, Sends, SentInv, Live
<1>24. CASE MasterSendsOutput
  BY <1>24 DEF MasterSendsOutput, Sends, SentInv, Live
<1>25. CASE MasterSendsExit
  BY <1>25 DEF MasterSendsExit, Sends, SentInv, Live
<1>26. CASE MasterCloses
  BY <1>26 DEF MasterCloses, SentInv, Live
<1>27. CASE MasterFails
  BY <1>27 DEF MasterFails, Sends, SentInv, Live
<1>28. CASE ClosesUnheard
  BY <1>28 DEF ClosesUnheard, SentInv, Live
<1>29. CASE UNCHANGED attachVars
  BY <1>29 DEF attachVars, SentInv, Live
<1>. QED
  BY <1>1, <1>2, <1>3, <1>4, <1>5, <1>6, <1>7, <1>8, <1>9, <1>10, <1>11,
     <1>12, <1>13, <1>14, <1>15, <1>16, <1>17, <1>18, <1>19, <1>20, <1>21,
     <1>22, <1>23, <1>24, <1>25, <1>26, <1>29,
     <1>27, <1>28
     DEF AttachNext, MainNext, InputNext, ResizeNext, MasterNext

-----------------------------------------------------------------------------
\* When the master has answered a request for the status.
LEMMA NoNewAnswer ==
    ASSUME Types,
           \/ socket' = socket
           \/ socket # <<>> /\ socket' = Tail(socket)
           \/ \E x : x # "status" /\ x \in Frames /\ socket' = Append(socket, x),
           main' = "detached" => main = "detached" \/ (socket # <<>> /\ Head(socket) = "status")
    PROVE  Answered' => Answered
<1>1. socket \in Seq(Frames)
  BY DEF Types
<1>2. socket # <<>> => 1 \in 1..Len(socket) /\ Head(socket) = socket[1]
  BY <1>1
<1>3. main' = "detached" => Answered
  BY <1>2 DEF Answered
<1>4. ASSUME NEW i \in 1..Len(socket'), socket'[i] = "status" PROVE Answered
  <2>1. CASE socket' = socket
    BY <1>4, <2>1 DEF Answered
  <2>2. CASE socket # <<>> /\ socket' = Tail(socket)
    <3>1. /\ Len(socket') = Len(socket) - 1 /\ Len(socket) \in Nat
          /\ \A j \in 1..Len(socket') : socket'[j] = socket[j + 1]
      BY <1>1, <2>2, HeadTailProperties
    <3>2. i + 1 \in 1..Len(socket) /\ socket[i + 1] = "status"
      BY <1>4, <3>1
    <3>. QED
      BY <3>2 DEF Answered
  <2>3. ASSUME NEW x, x # "status", x \in Frames, socket' = Append(socket, x)
        PROVE  Answered
    <3>1. /\ Len(socket') = Len(socket) + 1 /\ Len(socket) \in Nat
          /\ \A j \in 1..Len(socket) : socket'[j] = socket[j]
          /\ socket'[Len(socket) + 1] = x
      BY <1>1, <2>3, AppendProperties
    <3>2. i \in 1..Len(socket)
      BY <1>4, <2>3, <3>1
    <3>. QED
      BY <1>4, <3>1, <3>2 DEF Answered
  <2>. QED
    BY <2>1, <2>2, <2>3
<1>. QED
  BY <1>3, <1>4 DEF Answered

\* A step that leaves the queue and what it brings alone.
LEMMA QuietPipe ==
    ASSUME Types, PipeInv, UNCHANGED <<toMaster, got, taken>>, torn => torn',
           Answered' => Answered, input = "done" => input' = "done",
           torn' \/ input' = "done" \/ Pending' = Pending
    PROVE  PipeInv'
<1>1. PICK f : /\ Counts(f, toMaster, got, taken)
               /\ ~torn /\ input # "done" => f[Len(toMaster)] + Pending = taken
  BY DEF PipeInv
<1>2. ~torn' /\ input' # "done" => f[Len(toMaster')] + Pending' = taken'
  BY <1>1
<1>3. \E g : /\ Counts(g, toMaster', got', taken')
             /\ ~torn' /\ input' # "done" => g[Len(toMaster')] + Pending' = taken'
  BY <1>1, <1>2
<1>4. Asked(toMaster') \/ Answered' => input' = "done"
  BY DEF PipeInv
<1>5. Answered' => got' = taken'
  BY DEF PipeInv
<1>. QED
  BY <1>3, <1>4, <1>5 DEF PipeInv

\* A step that adds a frame to it.
Adds(g) == toMaster' = Append(toMaster, g)

LEMMA AppendPipe ==
    ASSUME Types, PipeInv, NEW g \in FrameOf, GoodFrame(g),
           Adds(g), UNCHANGED <<got, taken>>, ~torn, ~torn',
           Answered' => Answered, input = "done" => input' = "done",
           g.kind = "status" => input = "asking" /\ input' = "done",
           Amount(g) # 0 => input # "done", Amount(g) <= Pending,
           input' # "done" => Pending' = Pending - Amount(g)
    PROVE  PipeInv'
<1>1. PICK f : /\ Counts(f, toMaster, got, taken)
               /\ input # "done" => f[Len(toMaster)] + Pending = taken
  BY DEF PipeInv
<1>2. /\ toMaster \in Seq(FrameOf) /\ taken \in Nat /\ Pending \in Nat
      /\ Len(toMaster) \in Nat
  BY DEF Types, Pending
<1> DEFINE n == f[Len(toMaster)]
<1>3. Amount(g) \in Nat /\ n \in Nat /\ n <= taken
  <2>1. Len(toMaster) \in 0..Len(toMaster)
    BY <1>2
  <2>2. f \in [0..Len(toMaster) -> Nat] /\ \A i \in 0..Len(toMaster) : f[i] <= taken
    BY <1>1 DEF Counts
  <2>. QED
    BY <2>1, <2>2 DEF Amount, GoodFrame
<1>4. input # "done" => n + Pending = taken
  BY <1>1
<1> HIDE DEF n
<1>5. n + Amount(g) <= taken
  <2>1. CASE Amount(g) = 0
    BY <1>3, <2>1
  <2>2. CASE Amount(g) # 0
    BY <1>2, <1>3, <1>4, <2>2
  <2>. QED
    BY <2>1, <2>2
<1>6. ASSUME g.kind = "status" PROVE n = taken
  <2>1. input = "asking"
    BY <1>6
  <2>2. Pending = 0
    BY <2>1 DEF Pending
  <2>3. n + Pending = taken
    <3>1. input # "done"
      BY <2>1
    <3>. QED
      BY <1>4, <3>1
  <2> HIDE DEF Pending
  <2>. QED
    BY <1>3, <2>2, <2>3
<1>7. PICK h : /\ Counts(h, toMaster', got, taken)
               /\ h[Len(toMaster')] = n + Amount(g)
  <2>1. Brings(g, f[Len(toMaster)], taken)
    BY <1>5, <1>6 DEF n, Brings
  <2>2. Counts(f, toMaster, got, taken) /\ toMaster \in Seq(FrameOf) /\ taken \in Nat
    BY <1>1, <1>2
  <2>3. \E h : /\ Counts(h, Append(toMaster, g), got, taken)
               /\ h[Len(Append(toMaster, g))] = f[Len(toMaster)] + Amount(g)
    BY <2>1, <2>2, CountsAppend, SMTT(20)
  <2>. QED
    BY <2>3 DEF n, Adds
<1>8. ASSUME input' # "done" PROVE h[Len(toMaster')] + Pending' = taken'
  <2>1. n + Pending = taken /\ Pending' = Pending - Amount(g) /\ taken' = taken
    BY <1>4, <1>8
  <2>2. h[Len(toMaster')] = n + Amount(g)
    BY <1>7
  <2>. QED
    BY <1>2, <1>3, <2>1, <2>2
<1>9. ASSUME input' # "done" PROVE ~Asked(toMaster') /\ ~Answered'
  <2>1. g.kind # "status" /\ ~Asked(toMaster) /\ ~Answered
    BY <1>9 DEF PipeInv
  <2>2. /\ Len(toMaster') = Len(toMaster) + 1
        /\ \A i \in 1..Len(toMaster) : toMaster'[i] = toMaster[i]
        /\ toMaster'[Len(toMaster) + 1] = g
    BY <1>2, AppendProperties DEF Adds
  <2>3. \A i \in 1..Len(toMaster') : toMaster'[i].kind # "status"
    <3> TAKE i \in 1..Len(toMaster')
    <3>1. i \in 1..Len(toMaster) \/ i = Len(toMaster) + 1
      BY <1>2, <2>2
    <3>. QED
      BY <2>1, <2>2, <3>1 DEF Asked
  <2>. QED
    BY <2>1, <2>3 DEF Asked
<1>10. Answered' => got' = taken'
  BY DEF PipeInv
<1>. QED
  BY <1>7, <1>8, <1>9, <1>10 DEF PipeInv

\* The master takes a frame off it, and answers a request for the status.
LEMMA TailPipe ==
    ASSUME Types, SentInv, PipeInv, toMaster # <<>>, toMaster' = Tail(toMaster),
           got' = got + Amount(Head(toMaster)), UNCHANGED <<taken, torn, input, reading>>,
           Answered' => Answered \/ Head(toMaster).kind = "status"
    PROVE  PipeInv'
<1>1. PICK f : /\ Counts(f, toMaster, got, taken)
               /\ ~torn /\ input # "done" => f[Len(toMaster)] + Pending = taken
  BY DEF PipeInv
<1>2. toMaster \in Seq(FrameOf) /\ Len(toMaster) \in Nat
  BY DEF Types
<1>3. 1 \in 1..Len(toMaster) /\ 1 \in 0..Len(toMaster) /\ Head(toMaster) = toMaster[1]
  BY <1>2
<1>4. f[1] = got' /\ \E h : /\ Counts(h, toMaster', got', taken)
                           /\ h[Len(toMaster')] = f[Len(toMaster)]
  BY <1>1, <1>2, CountsTail
<1>5. PICK h : /\ Counts(h, toMaster', got', taken)
               /\ h[Len(toMaster')] = f[Len(toMaster)]
  BY <1>4
<1>6. Pending' = Pending
  BY DEF Pending
<1>7. ~torn' /\ input' # "done" => h[Len(toMaster')] + Pending' = taken'
  BY <1>1, <1>5, <1>6
<1>8. Asked(toMaster') => Asked(toMaster)
  <2>1. /\ Len(toMaster') = Len(toMaster) - 1
        /\ \A i \in 1..Len(toMaster') : toMaster'[i] = toMaster[i + 1]
    BY <1>2, HeadTailProperties
  <2>2. \A i \in 1..Len(toMaster') : i + 1 \in 1..Len(toMaster)
    BY <1>2, <2>1
  <2>. QED
    BY <2>1, <2>2 DEF Asked
<1>9. Head(toMaster).kind = "status" => Asked(toMaster) /\ got' = taken
  <2>1. Head(toMaster).kind = "status" => f[1] = taken
    BY <1>1, <1>3 DEF Counts
  <2>. QED
    BY <1>3, <1>4, <2>1 DEF Asked
<1>10. Answered => got' = taken
  <2>1. got' \in Nat /\ got' <= taken
    <3>1. f \in [0..Len(toMaster) -> Nat] /\ f[1] <= taken
      BY <1>1, <1>3 DEF Counts
    <3>. QED
      BY <1>3, <1>4, <3>1
  <2>2. got \in Nat /\ taken \in Nat /\ Amount(Head(toMaster)) \in Nat
    <3>1. GoodFrame(Head(toMaster))
      BY <1>3 DEF SentInv
    <3>2. got \in Nat /\ taken \in Nat
      BY DEF Types
    <3>. QED
      BY <3>1, <3>2 DEF Amount, GoodFrame
  <2>3. Answered => got = taken
    BY DEF PipeInv
  <2>. QED
    BY <2>1, <2>2, <2>3
<1>11. Asked(toMaster') \/ Answered' => input' = "done"
  BY <1>8, <1>9 DEF PipeInv
<1>12. Answered' => got' = taken'
  BY <1>9, <1>10
<1>. QED
  BY <1>5, <1>7, <1>11, <1>12 DEF PipeInv

\* A step of somebody else, and one that ends the input thread.
LEMMA StillPipe ==
    ASSUME Types, PipeInv, UNCHANGED <<toMaster, got, taken, torn>>, Answered' => Answered,
           UNCHANGED <<input, reading>> \/ input' = "done"
    PROVE  PipeInv'
<1>1. input' = "done" \/ Pending' = Pending
  BY DEF Pending
<1>. QED
  BY <1>1, QuietPipe

\* The step of SendInput, SendSize and AskStatus that completes a frame: it is
\* queued unless the pipe is torn, and then it does not matter.
LEMMA CompletedPipe ==
    ASSUME Types, PipeInv, NEW g \in FrameOf, GoodFrame(g), NEW thread,
           CompletesFrame(thread, g), UNCHANGED <<got, taken, main, socket>>,
           input = "done" => input' = "done",
           g.kind = "status" => input = "asking" /\ input' = "done",
           Amount(g) # 0 => input # "done", Amount(g) <= Pending,
           input' # "done" => Pending' = Pending - Amount(g)
    PROVE  PipeInv'
<1>1. Answered' => Answered
  BY DEF Answered
<1>2. CASE torn'
  <2>1. UNCHANGED toMaster
    BY <1>2 DEF CompletesFrame
  <2>. QED
    BY <1>1, <1>2, <2>1, QuietPipe
<1>3. CASE ~torn'
  <2>1. Adds(g) /\ ~torn
    BY <1>3 DEF CompletesFrame, Tears, Adds
  <2>. QED
    BY <1>1, <1>3, <2>1, AppendPipe
<1>. QED
  BY <1>2, <1>3

\* A queue with nothing in it.
LEMMA CountsNone == \E f : Counts(f, <<>>, 0, 0) /\ f[Len(<<>>)] = 0
<1> DEFINE f == [i \in {0} |-> 0]
           none == <<>>
<1>1. f \in [{0} -> Nat] /\ f[0] = 0
  OBVIOUS
<1>2. Len(none) = 0 /\ 0..0 = {0} /\ 1..0 = {}
  OBVIOUS
<1> HIDE DEF f, none
<1>3. Counts(f, none, 0, 0)
  BY <1>1, <1>2 DEF Counts
<1>4. f[Len(none)] = 0
  BY <1>1, <1>2
<1>. QED
  BY <1>3, <1>4 DEF none

LEMMA PipeNext == Types /\ SentInv /\ PipeInv /\ [AttachNext]_attachVars => PipeInv'
<1> SUFFICES ASSUME Types, SentInv, PipeInv, [AttachNext]_attachVars PROVE PipeInv'
  OBVIOUS
<1> USE DEF mainVars, consoleVars, inputVars, resizeVars, pipeVars, masterVars
<1>1. CASE Bridge
  <2>1. /\ main = "connecting" /\ main' = "reading" /\ input' = "blocked"
        /\ toMaster' = <<Frame("attach", last)>>
        /\ UNCHANGED <<got, taken, socket, torn>>
    BY <1>1 DEF Bridge
  <2>2. toMaster = <<>> /\ socket = <<>> /\ input = "none" /\ got = 0 /\ taken = 0
    BY <2>1 DEF SentInv
  <2> DEFINE g == Frame("attach", last)
  <2>3. g \in FrameOf /\ GoodFrame(g) /\ Amount(g) = 0 /\ g.kind = "attach"
    BY FramesAreGood DEF Types
  <2>4. ~Answered'
    BY <2>1, <2>2 DEF Answered
  <2> DEFINE f == [i \in 0..1 |-> 0]
  <2> HIDE DEF g
  <2>5. toMaster' = <<g>>
    BY <2>1 DEF g
  <2>6. Len(toMaster') = 1 /\ toMaster'[1] = g
    BY <2>5
  <2>7. Pending' = 0
    BY <2>1 DEF Pending
  <2>8. Counts(f, toMaster', 0, 0) /\ f[1] = 0
    <3>1. f \in [0..1 -> Nat] /\ f[0] = 0 /\ f[1] = 0
      OBVIOUS
    <3> HIDE DEF f
    <3>2. 1..1 = {1} /\ 0..1 = {0, 1} /\ 1 - 1 = 0 /\ 0 + 0 = 0
      OBVIOUS
    <3>3. \A i \in 1..1 : f[i] = f[i - 1] + Amount(toMaster'[i]) /\ toMaster'[i].kind # "status"
      BY <2>3, <2>6, <3>1, <3>2
    <3>. QED
      BY <2>6, <3>1, <3>2, <3>3 DEF Counts
  <2>9. ~Asked(toMaster')
    BY <2>3, <2>6 DEF Asked
  <2> HIDE DEF f
  <2>10. f[Len(toMaster')] + Pending' = 0 /\ taken' = 0 /\ got' = 0
    BY <2>1, <2>2, <2>6, <2>7, <2>8
  <2>. QED
    BY <2>4, <2>8, <2>9, <2>10 DEF PipeInv
<1>2. CASE WriteFrame
  <2>1. /\ UNCHANGED <<toMaster, got, taken, torn, input, reading>>
        /\ socket # <<>> /\ socket' = Tail(socket)
    BY <1>2 DEF WriteFrame
  <2>2. main' # "detached"
    BY <1>2 DEF WriteFrame
  <2>3. main' = "detached" => main = "detached" \/ (socket # <<>> /\ Head(socket) = "status")
    BY <2>2
  <2>4. Answered' => Answered
    BY <2>1, <2>3, NoNewAnswer
  <2>. QED
    BY <2>1, <2>4, StillPipe
<1>3. CASE ReadExit
  <2>1. /\ UNCHANGED <<toMaster, got, taken, torn, input, reading, socket>>
        /\ main' = "detached" => main = "detached"
    BY <1>3 DEF ReadExit
  <2>2. Answered' => Answered
    BY <2>1 DEF Answered
  <2>. QED
    BY <2>1, <2>2, StillPipe
<1>4. CASE ReadStatus
  <2>1. /\ UNCHANGED <<toMaster, got, taken, torn, input, reading>>
        /\ socket # <<>> /\ socket' = Tail(socket)
    BY <1>4 DEF ReadStatus
  <2>2. socket # <<>> /\ Head(socket) = "status"
    BY <1>4 DEF ReadStatus
  <2>3. main' = "detached" => main = "detached" \/ (socket # <<>> /\ Head(socket) = "status")
    BY <2>2
  <2>4. Answered' => Answered
    BY <2>1, <2>3, NoNewAnswer
  <2>. QED
    BY <2>1, <2>4, StillPipe
<1>5. CASE IgnoreError
  <2>1. /\ UNCHANGED <<toMaster, got, taken, torn, input, reading>>
        /\ socket # <<>> /\ socket' = Tail(socket)
    BY <1>5 DEF IgnoreError
  <2>2. main' # "detached"
    BY <1>5 DEF IgnoreError
  <2>3. main' = "detached" => main = "detached" \/ (socket # <<>> /\ Head(socket) = "status")
    BY <2>2
  <2>4. Answered' => Answered
    BY <2>1, <2>3, NoNewAnswer
  <2>. QED
    BY <2>1, <2>4, StillPipe
<1>6. CASE Retry
  <2>1. /\ main' = "connecting" /\ toMaster' = <<>> /\ socket' = <<>>
        /\ input' = "none" /\ got' = 0 /\ taken' = 0
    BY <1>6 DEF Retry
  <2> DEFINE none == <<>>
  <2>2. toMaster' = none /\ got' = 0 /\ taken' = 0
    BY <2>1
  <2>3. PICK f : Counts(f, none, 0, 0) /\ f[Len(none)] = 0
    BY CountsNone
  <2>4. Pending' = 0 /\ ~Answered' /\ ~Asked(none)
    BY <2>1 DEF Pending, Answered, Asked
  <2> HIDE DEF none
  <2>5. f[Len(toMaster')] + Pending' = taken' /\ Counts(f, toMaster', got', taken')
    BY <2>2, <2>3, <2>4
  <2>6. ~Asked(toMaster')
    BY <2>2, <2>4
  <2>. QED
    BY <2>4, <2>5, <2>6 DEF PipeInv
<1>7. CASE ReportError
  <2>1. /\ UNCHANGED <<toMaster, got, taken, torn, input, reading, socket>>
        /\ main' = "detached" => main = "detached"
    BY <1>7 DEF ReportError
  <2>2. Answered' => Answered
    BY <2>1 DEF Answered
  <2>. QED
    BY <2>1, <2>2, StillPipe
<1>8. CASE ReadInput
  <2>1. /\ input = "blocked" /\ stdin # <<>> /\ reading' = Decoded(stdin)
        /\ taken' = taken + reading'.text /\ input' = AfterRead(reading')
        /\ UNCHANGED <<toMaster, got, torn, socket, main>>
    BY <1>8 DEF ReadInput
  <2>2. reading'.text \in Nat /\ taken \in Nat /\ toMaster \in Seq(FrameOf)
    BY <2>1, DecodedIs DEF Types
  <2>3. Pending = 0 /\ Pending' = reading'.text
    BY <2>1, <2>2 DEF Pending, AfterRead
  <2>4. ~Asked(toMaster) /\ ~Answered
    BY <2>1 DEF PipeInv
  <2>5. PICK f : /\ Counts(f, toMaster, got, taken)
                 /\ ~torn => f[Len(toMaster)] + Pending = taken
    BY <2>1 DEF PipeInv
  <2>6. taken' \in Nat /\ taken <= taken'
    BY <2>1, <2>2
  <2>7. Counts(f, toMaster', got', taken')
    <3>1. \A i \in 1..Len(toMaster) : toMaster[i].kind # "status"
      BY <2>4 DEF Asked
    <3>2. Counts(f, toMaster, got, taken')
      BY <2>2, <2>5, <2>6, <3>1, CountsMore
    <3>. QED
      BY <2>1, <3>2
  <2>8. ~torn' => f[Len(toMaster')] + Pending' = taken'
    <3>1. f[Len(toMaster)] \in Nat
      <4>1. Len(toMaster) \in 0..Len(toMaster)
        BY <2>2
      <4>. QED
        BY <2>5, <4>1 DEF Counts
    <3>. QED
      BY <2>1, <2>2, <2>3, <2>5, <3>1
  <2>9. ~Asked(toMaster') /\ ~Answered'
    BY <2>1, <2>4 DEF Answered
  <2>. QED
    BY <2>7, <2>8, <2>9 DEF PipeInv
<1>9. CASE SendInput
  <2>1. CASE input = "header"
    <3>1. /\ input' = "payload" /\ UNCHANGED <<toMaster, got, taken, reading, socket, main>>
          /\ torn' = (torn \/ half \ {"input"} # {})
      BY <1>9, <2>1 DEF SendInput, WritesHeader, Tears
    <3>2. (Answered' => Answered) /\ Pending' = Pending
      BY <2>1, <3>1 DEF Answered, Pending
    <3>. QED
      BY <2>1, <3>1, <3>2, QuietPipe
  <2>2. CASE input = "payload"
    <3> DEFINE g == Frame("input", reading.text)
    <3>1. /\ CompletesFrame("input", g) /\ UNCHANGED <<got, taken, main, socket>>
          /\ input' = AfterSend
      BY <1>9, <2>2 DEF SendInput
    <3>2. reading.text \in Nat
      BY DEF Types
    <3>3. g \in FrameOf /\ GoodFrame(g) /\ Amount(g) = reading.text /\ g.kind = "input"
      BY <3>2, FramesAreGood
    <3>4. Pending = reading.text /\ Pending' = 0
      BY <2>2, <3>1 DEF Pending, AfterSend
    <3> HIDE DEF g
    <3>5. Amount(g) <= Pending /\ Pending' = Pending - Amount(g) /\ g.kind # "status"
      BY <3>2, <3>3, <3>4
    <3>. QED
      BY <2>2, <3>1, <3>3, <3>5, CompletedPipe
  <2>. QED
    BY <1>9, <2>1, <2>2 DEF SendInput
<1>10. CASE SendInputFails
  <2>1. /\ UNCHANGED <<toMaster, got, taken, torn, reading, socket>>
        /\ input' = "done" /\ main' = main
    BY <1>10 DEF SendInputFails
  <2>2. Answered' => Answered
    BY <2>1 DEF Answered
  <2>. QED
    BY <2>1, <2>2, StillPipe
<1>11. CASE StoreDetached
  <2>1. /\ input = "storing" /\ input' = "asking"
        /\ UNCHANGED <<toMaster, got, taken, torn, socket, main>>
    BY <1>11 DEF StoreDetached
  <2>2. (Answered' => Answered) /\ Pending' = Pending
    BY <2>1 DEF Answered, Pending
  <2>. QED
    BY <2>1, <2>2, QuietPipe
<1>12. CASE AskStatus
  <2>1. /\ input = "asking" /\ input' = "done"
        /\ UNCHANGED <<got, taken, main, socket, reading>>
    BY <1>12 DEF AskStatus
  <2>2. CASE Open
    <3> DEFINE g == Frame("status", 0)
    <3>1. CompletesFrame("input", g)
      BY <1>12, <2>2 DEF AskStatus
    <3>2. g \in FrameOf /\ GoodFrame(g) /\ Amount(g) = 0
      BY FramesAreGood
    <3>3. Amount(g) <= Pending
      BY <2>1, <3>2 DEF Pending
    <3> HIDE DEF g
    <3>. QED
      BY <2>1, <3>1, <3>2, <3>3, CompletedPipe
  <2>3. CASE ~Open
    <3>1. UNCHANGED <<toMaster, torn>>
      BY <1>12, <2>3 DEF AskStatus
    <3>2. Answered' => Answered
      BY <2>1 DEF Answered
    <3>. QED
      BY <2>1, <3>1, <3>2, StillPipe
  <2>. QED
    BY <2>2, <2>3
<1>13. CASE PollSize
  <2>1. /\ UNCHANGED <<toMaster, got, taken, torn, input, reading, socket>>
        /\ main' = "detached" => main = "detached"
    BY <1>13 DEF PollSize
  <2>2. Answered' => Answered
    BY <2>1 DEF Answered
  <2>. QED
    BY <2>1, <2>2, StillPipe
<1>14. CASE SendSize
  <2>1. UNCHANGED <<got, taken, main, socket, input, reading>>
    BY <1>14 DEF SendSize
  <2>2. CASE resizer = "header"
    <3>1. UNCHANGED toMaster /\ torn' = (torn \/ half \ {"resizer"} # {})
      BY <1>14, <2>2 DEF SendSize, WritesHeader, Tears
    <3>2. (Answered' => Answered) /\ Pending' = Pending
      BY <2>1 DEF Answered, Pending
    <3>. QED
      BY <2>1, <3>1, <3>2, QuietPipe
  <2>3. CASE resizer = "payload"
    <3> DEFINE g == Frame("resize", last)
    <3>1. CompletesFrame("resizer", g)
      BY <1>14, <2>3 DEF SendSize
    <3>2. g \in FrameOf /\ GoodFrame(g) /\ Amount(g) = 0 /\ g.kind = "resize"
      BY FramesAreGood DEF Types
    <3>3. Pending \in Nat /\ Pending' = Pending
      BY <2>1 DEF Types, Pending
    <3> HIDE DEF g
    <3>4. Amount(g) <= Pending /\ Pending' = Pending - Amount(g) /\ g.kind # "status"
      BY <3>2, <3>3
    <3>. QED
      BY <2>1, <3>1, <3>2, <3>4, CompletedPipe
  <2>. QED
    BY <1>14, <2>2, <2>3 DEF SendSize
<1>15. CASE SendSizeFails
  <2>1. /\ UNCHANGED <<toMaster, got, taken, torn, input, reading, socket>>
        /\ main' = "detached" => main = "detached"
    BY <1>15 DEF SendSizeFails
  <2>2. Answered' => Answered
    BY <2>1 DEF Answered
  <2>. QED
    BY <2>1, <2>2, StillPipe
<1>16. CASE MasterAnswers
  <2>1. /\ main = "reading" /\ phase = "answering"
        /\ UNCHANGED <<taken, torn, input, reading, got, main>>
    BY <1>16 DEF MasterAnswers, Sends
  <2>2. CASE answer = <<>>
    <3>1. toMaster' = Tail(toMaster) /\ UNCHANGED socket
      BY <1>16, <2>2 DEF MasterAnswers, Sends
    <3>2. toMaster # <<>> /\ Head(toMaster).kind = "attach"
      BY <2>1 DEF SentInv
    <3>3. Amount(Head(toMaster)) = 0
      BY <3>2 DEF Amount
    <3>4. got' = got + 0
      BY <2>1 DEF Types
    <3>5. Answered' => Answered
      BY <2>1, <3>1 DEF Answered
    <3>. QED
      BY <2>1, <3>1, <3>2, <3>3, <3>4, <3>5, TailPipe
  <2>3. CASE answer # <<>> /\ socket' = socket
    <3>1. UNCHANGED toMaster
      BY <1>16, <2>3 DEF MasterAnswers, Sends
    <3>2. Answered' => Answered
      BY <2>1, <2>3 DEF Answered
    <3>. QED
      BY <2>1, <3>1, <3>2, StillPipe
  <2>4. CASE answer # <<>> /\ Head(answer) # "hangup" /\ socket' = Append(socket, Head(answer))
    <3>1. UNCHANGED toMaster
      BY <1>16, <2>4 DEF MasterAnswers, Sends
    <3>2. Head(answer) \in AnswerKinds
      BY <2>4 DEF Types
    <3>3. Head(answer) # "status" /\ Head(answer) \in Frames
      BY <2>4, <3>2 DEF AnswerKinds, Frames
    <3>4. \E x : x # "status" /\ x \in Frames /\ socket' = Append(socket, x)
      BY <2>4, <3>3
    <3>5. main' # "detached"
      BY <2>1
    <3>6. main' = "detached" => main = "detached" \/ (socket # <<>> /\ Head(socket) = "status")
      BY <3>5
    <3>7. Answered' => Answered
      BY <3>4, <3>6, NoNewAnswer
    <3>. QED
      BY <2>1, <3>1, <3>7, StillPipe
  <2>5. \/ answer = <<>>
        \/ answer # <<>> /\ socket' = socket
        \/ answer # <<>> /\ Head(answer) # "hangup" /\ socket' = Append(socket, Head(answer))
    BY <1>16 DEF MasterAnswers, Sends
  <2>. QED
    BY <2>2, <2>3, <2>4, <2>5
<1>17. CASE MasterReads
  <2>1. /\ toMaster # <<>> /\ toMaster' = Tail(toMaster)
        /\ got' = IF Head(toMaster).kind = "input" THEN got + Head(toMaster).n ELSE got
        /\ UNCHANGED <<taken, torn, input, reading, main>>
        /\ Head(toMaster).kind # "status" => socket' = socket
    BY <1>17 DEF MasterReads, Sends
  <2>2. got' = got + Amount(Head(toMaster))
    BY <2>1 DEF Amount, Types
  <2>3. Answered' => Answered \/ Head(toMaster).kind = "status"
    BY <2>1 DEF Answered
  <2>. QED
    BY <2>1, <2>2, <2>3, TailPipe
<1>18. CASE ConnectFails
  <2>1. /\ UNCHANGED <<toMaster, got, taken, torn, input, reading, socket>>
        /\ main' = "detached" => main = "detached"
    BY <1>18 DEF ConnectFails
  <2>2. Answered' => Answered
    BY <2>1 DEF Answered
  <2>. QED
    BY <2>1, <2>2, StillPipe
<1>19. CASE InputEnds
  <2>1. /\ UNCHANGED <<toMaster, got, taken, torn, reading, socket>>
        /\ input' = "done" /\ main' = main
    BY <1>19 DEF InputEnds
  <2>2. Answered' => Answered
    BY <2>1 DEF Answered
  <2>. QED
    BY <2>1, <2>2, StillPipe
<1>20. CASE StaleReads
  <2>1. /\ UNCHANGED <<toMaster, got, taken, torn, input, reading, socket>>
        /\ main' = "detached" => main = "detached"
    BY <1>20 DEF StaleReads
  <2>2. Answered' => Answered
    BY <2>1 DEF Answered
  <2>. QED
    BY <2>1, <2>2, StillPipe
<1>21. CASE PersonTypes
  <2>1. /\ UNCHANGED <<toMaster, got, taken, torn, input, reading, socket>>
        /\ main' = "detached" => main = "detached"
    BY <1>21 DEF PersonTypes
  <2>2. Answered' => Answered
    BY <2>1 DEF Answered
  <2>. QED
    BY <2>1, <2>2, StillPipe
<1>22. CASE WindowChanges
  <2>1. /\ UNCHANGED <<toMaster, got, taken, torn, input, reading, socket>>
        /\ main' = "detached" => main = "detached"
    BY <1>22 DEF WindowChanges
  <2>2. Answered' => Answered
    BY <2>1 DEF Answered
  <2>. QED
    BY <2>1, <2>2, StillPipe
<1>23. CASE MasterComplains
  <2>1. /\ UNCHANGED <<toMaster, got, taken, torn, input, reading, main>>
        /\ socket' = Append(socket, "legacy")
    BY <1>23 DEF MasterComplains, Sends
  <2>2. \E x : x # "status" /\ x \in Frames /\ socket' = Append(socket, x)
    BY <2>1 DEF Frames
  <2>3. main' # "detached"
    BY <1>23 DEF MasterComplains, Sends
  <2>4. main' = "detached" => main = "detached" \/ (socket # <<>> /\ Head(socket) = "status")
    BY <2>3
  <2>5. Answered' => Answered
    BY <2>2, <2>4, NoNewAnswer
  <2>. QED
    BY <2>1, <2>5, StillPipe
<1>24. CASE MasterSendsOutput
  <2>1. /\ UNCHANGED <<toMaster, got, taken, torn, input, reading, main>>
        /\ socket' = Append(socket, "output")
    BY <1>24 DEF MasterSendsOutput, Sends
  <2>2. \E x : x # "status" /\ x \in Frames /\ socket' = Append(socket, x)
    BY <2>1 DEF Frames
  <2>3. main' # "detached"
    BY <1>24 DEF MasterSendsOutput, Sends
  <2>4. main' = "detached" => main = "detached" \/ (socket # <<>> /\ Head(socket) = "status")
    BY <2>3
  <2>5. Answered' => Answered
    BY <2>2, <2>4, NoNewAnswer
  <2>. QED
    BY <2>1, <2>5, StillPipe
<1>25. CASE MasterSendsExit
  <2>1. /\ UNCHANGED <<toMaster, got, taken, torn, input, reading, main>>
        /\ socket' = Append(socket, "exit")
    BY <1>25 DEF MasterSendsExit, Sends
  <2>2. \E x : x # "status" /\ x \in Frames /\ socket' = Append(socket, x)
    BY <2>1 DEF Frames
  <2>3. main' # "detached"
    BY <1>25 DEF MasterSendsExit, Sends
  <2>4. main' = "detached" => main = "detached" \/ (socket # <<>> /\ Head(socket) = "status")
    BY <2>3
  <2>5. Answered' => Answered
    BY <2>2, <2>4, NoNewAnswer
  <2>. QED
    BY <2>1, <2>5, StillPipe
<1>26. CASE MasterCloses
  <2>1. /\ UNCHANGED <<toMaster, got, taken, torn, input, reading, socket>>
        /\ main' = "detached" => main = "detached"
    BY <1>26 DEF MasterCloses
  <2>2. Answered' => Answered
    BY <2>1 DEF Answered
  <2>. QED
    BY <2>1, <2>2, StillPipe
<1>27. CASE MasterFails
  <2>1. /\ UNCHANGED <<toMaster, got, taken, torn, input, reading, main>>
        /\ socket' = socket \/ socket' = Append(socket, "error")
        /\ main = "reading"
    BY <1>27 DEF MasterFails, Sends
  <2>2. \/ socket' = socket
        \/ \E x : x # "status" /\ x \in Frames /\ socket' = Append(socket, x)
    BY <2>1 DEF Frames
  <2>3. main' = "detached" => main = "detached" \/ (socket # <<>> /\ Head(socket) = "status")
    BY <2>1
  <2>4. Answered' => Answered
    BY <2>2, <2>3, NoNewAnswer
  <2>. QED
    BY <2>1, <2>4, StillPipe
<1>28. CASE ClosesUnheard
  <2>1. /\ UNCHANGED <<toMaster, got, taken, torn, input, reading, socket>>
        /\ main' = "detached" => main = "detached"
    BY <1>28 DEF ClosesUnheard
  <2>2. Answered' => Answered
    BY <2>1 DEF Answered
  <2>. QED
    BY <2>1, <2>2, StillPipe
<1>29. CASE UNCHANGED attachVars
  <2>1. /\ UNCHANGED <<toMaster, got, taken, torn, input, reading, socket>>
        /\ main' = "detached" => main = "detached"
    BY <1>29 DEF attachVars
  <2>2. Answered' => Answered
    BY <2>1 DEF Answered
  <2>. QED
    BY <2>1, <2>2, StillPipe
<1>. QED
  BY <1>1, <1>2, <1>3, <1>4, <1>5, <1>6, <1>7, <1>8, <1>9, <1>10, <1>11,
     <1>12, <1>13, <1>14, <1>15, <1>16, <1>17, <1>18, <1>19, <1>20, <1>21,
     <1>22, <1>23, <1>24, <1>25, <1>26, <1>29,
     <1>27, <1>28
     DEF AttachNext, MainNext, InputNext, ResizeNext, MasterNext

-----------------------------------------------------------------------------
LEMMA InvInit == AttachInit => SentInv /\ RetryInv /\ KeyInv /\ HalfInv /\ PipeInv
<1> SUFFICES ASSUME AttachInit PROVE SentInv /\ RetryInv /\ KeyInv /\ HalfInv /\ PipeInv
  OBVIOUS
<1>1. /\ main = "connecting" /\ toMaster = <<>> /\ socket = <<>> /\ input = "none"
      /\ got = 0 /\ taken = 0 /\ half = {} /\ stdin = <<>> /\ detached = FALSE
      /\ reading = NothingRead /\ attempt = 1 /\ written = {} /\ painted = FALSE
      /\ stale = FALSE
  BY DEF AttachInit
<1>2. SentInv
  <2>1. Len(toMaster) = 0
    BY <1>1
  <2>. QED
    BY <1>1, <2>1 DEF SentInv
<1>3. RetryInv
  BY <1>1 DEF RetryInv
<1>4. KeyInv
  <2>1. Len(stdin) = 0 /\ ~reading.detach
    BY <1>1 DEF NothingRead
  <2>. QED
    BY <1>1, <2>1 DEF KeyInv
<1>5. HalfInv
  BY <1>1 DEF HalfInv
<1>6. PipeInv
  <2> DEFINE none == <<>>
  <2>1. toMaster = none
    BY <1>1
  <2>2. PICK f : Counts(f, none, 0, 0) /\ f[Len(none)] = 0
    BY CountsNone
  <2>3. Pending = 0 /\ ~Answered /\ ~Asked(none)
    BY <1>1 DEF Pending, Answered, Asked
  <2> HIDE DEF none
  <2>4. f[Len(toMaster)] + Pending = taken /\ Counts(f, toMaster, got, taken)
    BY <1>1, <2>1, <2>2, <2>3
  <2>5. ~Asked(toMaster)
    BY <2>1, <2>3
  <2>. QED
    BY <2>3, <2>4, <2>5 DEF PipeInv
<1>. QED
  BY <1>2, <1>3, <1>4, <1>5, <1>6

\* The inductive invariant of the attach.
AttachInv == Types /\ SentInv /\ RetryInv /\ KeyInv /\ HalfInv /\ PipeInv

LEMMA AttachInvariant == AttachSpec => []AttachInv
<1>1. AttachInit => AttachInv
  BY TypesInit, InvInit DEF AttachInv
<1>2. AttachInv /\ [AttachNext]_attachVars => AttachInv'
  <2> SUFFICES ASSUME AttachInv, [AttachNext]_attachVars PROVE AttachInv'
    OBVIOUS
  <2>1. Types /\ SentInv /\ RetryInv /\ KeyInv /\ HalfInv /\ PipeInv
    BY DEF AttachInv
  <2>2. Types'
    BY <2>1, TypesNext
  <2>3. SentInv'
    BY <2>1, SentNext
  <2>4. RetryInv'
    BY <2>1, RetryNext
  <2>5. KeyInv'
    BY <2>1, KeyNext
  <2>6. HalfInv'
    BY <2>1, HalfNext
  <2>7. PipeInv'
    BY <2>1, PipeNext
  <2>. QED
    BY <2>2, <2>3, <2>4, <2>5, <2>6, <2>7 DEF AttachInv
<1>. QED
  BY <1>1, <1>2, PTL DEF AttachSpec

\* The loop, the two threads and the pipe keep their types; the master has not
\* received more than was read, and a pipe that is not torn has one frame begun
\* (bridge_terminal).
THEOREM AttachTypes == AttachSpec => []AttachTypeOK
<1>1. AttachInv => AttachTypeOK
  <2> SUFFICES ASSUME AttachInv PROVE AttachTypeOK
    OBVIOUS
  <2>1. Types /\ RetryInv /\ KeyInv /\ HalfInv /\ PipeInv
    BY DEF AttachInv
  <2>2. /\ main \in {"connecting", "reading", "finished", "detached", "failed"}
        /\ {person, replay, tolerant, painted, detached, stale, torn} \subseteq BOOLEAN
        /\ attempt \in {1, 2} /\ written \subseteq {1, 2} /\ {size, last} \subseteq Sizes
        /\ {typed, taken, got} \subseteq Nat
        /\ stdin \in Seq({"text", "detach"}) /\ Len(stdin) <= typed
        /\ input \in {"none", "blocked", "header", "payload", "storing", "asking", "done"}
    BY <2>1 DEF Types, Inputs
  <2>3. /\ reading \in [text : 0..typed, detach : BOOLEAN]
        /\ resizer \in {"none", "asleep", "header", "payload", "done"}
        /\ half \subseteq {"input", "resizer"}
        /\ phase \in {"answering", "live", "deaf", "ended", "closed"}
        /\ masterSize \in Sizes \cup {0}
    BY <2>1 DEF Types
  <2>4. /\ toMaster \in Seq([kind : {"attach", "input", "resize", "status"},
                             n : Sizes \cup Nat])
        /\ socket \in Seq({"output", "marker", "legacy", "error", "exit", "status"})
    BY <2>1 DEF Types, FrameOf, Frames
  <2>5. (painted <=> attempt \in written) /\ (stale => attempt = 2)
    BY <2>1 DEF RetryInv
  <2>6. detached => reading.detach /\ person
    BY <2>1 DEF KeyInv
  <2>7. ~torn => Cardinality(half) <= 1
    <3> SUFFICES ASSUME ~torn PROVE Cardinality(half) <= 1
      OBVIOUS
    <3>1. \A a, b \in half : a = b
      BY <2>1 DEF HalfInv
    <3>2. CASE half = {}
      BY <3>2, FS_EmptySet
    <3>3. CASE half # {}
      <4>1. PICK a \in half : TRUE
        BY <3>3
      <4>2. half = {a}
        BY <3>1, <4>1
      <4>. QED
        BY <4>2, FS_Singleton
    <3>. QED
      BY <3>2, <3>3
  <2>8. got <= taken
    <3>1. PICK f : Counts(f, toMaster, got, taken)
      BY <2>1 DEF PipeInv
    <3>2. 0 \in 0..Len(toMaster)
      BY <2>4
    <3>. QED
      BY <3>1, <3>2 DEF Counts
  <2>. QED
    BY <2>2, <2>3, <2>4, <2>5, <2>6, <2>7, <2>8 DEF AttachTypeOK
<1>. QED
  BY <1>1, AttachInvariant, PTL

\* An attach starts over only while the terminal has been sent nothing
\* (attach_command, attach_person, Attachment::ReplayRejected).
THEOREM StartsOverClean == AttachSpec => []RetryStartsClean
<1>1. AttachInv => RetryStartsClean
  BY DEF AttachInv, RetryInv, RetryStartsClean
<1>. QED
  BY <1>1, AttachInvariant, PTL

\* Whatever was typed ahead of the detach key has reached the master when the
\* attach ends as detached, however the frames of the two threads interleave:
\* the request for the status is queued behind it (bridge_terminal).
THEOREM InputIsKept == AttachSpec => []DetachKeepsInput
<1>1. AttachInv => DetachKeepsInput
  BY DEF AttachInv, PipeInv, Answered, DetachKeepsInput
<1>. QED
  BY <1>1, AttachInvariant, PTL

-----------------------------------------------------------------------------
\* The console's input, decoded.

\* What BodyEnd chooses.
EndsBody(s, i, e) ==
    /\ e \in i..(Len(s) + 1)
    /\ e - i <= MaxBody
    /\ \A j \in i..(e - 1) : s[j] \in BodyChars
    /\ e > Len(s) \/ e - i = MaxBody \/ s[e] \notin BodyChars

LEMMA BodyEndIs ==
    ASSUME NEW s \in Seq(Chars), NEW i \in 1..(Len(s) + 1)
    PROVE  /\ EndsBody(s, i, BodyEnd(s, i))
           /\ \A e : EndsBody(s, i, e) => e = BodyEnd(s, i)
<1> DEFINE n == Len(s)
           Stops == {e \in i..(n + 1) : e > n \/ e - i = MaxBody \/ s[e] \notin BodyChars}
<1>1. n \in Nat /\ MaxBody \in Nat /\ i \in Nat /\ i <= n + 1
  BY Win32InputAssumption
<1> HIDE DEF n
<1>2. n + 1 \in Stops /\ Stops \in SUBSET Nat
  BY <1>1
<1>3. PICK e \in Stops : \A k \in Stops : e <= k
  BY <1>2, LeastNatural
<1>4. \A j \in i..(e - 1) : s[j] \in BodyChars
  <2> SUFFICES ASSUME NEW j \in i..(e - 1), s[j] \notin BodyChars PROVE FALSE
    OBVIOUS
  <2>1. j \in Stops /\ j < e
    BY <1>1
  <2>. QED
    BY <1>1, <1>3, <2>1
<1>5. e - i <= MaxBody
  <2> SUFFICES ASSUME e - i > MaxBody PROVE FALSE
    BY <1>1
  <2>1. i + MaxBody \in Stops /\ i + MaxBody < e
    BY <1>1
  <2>2. e <= i + MaxBody /\ e \in Nat
    BY <1>2, <1>3, <2>1
  <2> HIDE DEF Stops
  <2>. QED
    BY <1>1, <2>1, <2>2
<1>6. EndsBody(s, i, e)
  BY <1>3, <1>4, <1>5 DEF EndsBody, n
<1>7. ASSUME NEW x, NEW y, EndsBody(s, i, x), EndsBody(s, i, y), x < y PROVE FALSE
  <2>1. /\ x \in i..(n + 1) /\ y \in i..(n + 1)
        /\ \A j \in i..(y - 1) : s[j] \in BodyChars
        /\ y - i <= MaxBody
        /\ x > n \/ x - i = MaxBody \/ s[x] \notin BodyChars
    BY <1>7 DEF EndsBody, n
  <2>. QED
    BY <1>1, <1>7, <2>1
<1>8. \A x, y : EndsBody(s, i, x) /\ EndsBody(s, i, y) => x = y
  <2> SUFFICES ASSUME NEW x, NEW y, EndsBody(s, i, x), EndsBody(s, i, y), x # y PROVE FALSE
    OBVIOUS
  <2>1. x \in Int /\ y \in Int
    BY <1>1 DEF EndsBody
  <2>2. x < y \/ y < x
    BY <2>1
  <2>. QED
    BY <1>7, <2>2
<1>9. EndsBody(s, i, BodyEnd(s, i))
  <2>1. \E x \in i..(Len(s) + 1) :
          /\ x - i <= MaxBody
          /\ \A j \in i..(x - 1) : s[j] \in BodyChars
          /\ x > Len(s) \/ x - i = MaxBody \/ s[x] \notin BodyChars
    BY <1>6 DEF EndsBody
  <2>. QED
    BY <2>1 DEF BodyEnd, EndsBody
<1>. QED
  BY <1>8, <1>9

Texts == Seq(Chars \cup {"char", "pair"})
Results == [out : Texts, high : BOOLEAN, rest : Seq(Chars)]

\* What decode_body returns; what does not parse is passed on as it is.
LEMMA DecodeIs ==
    ASSUME NEW body, NEW h \in BOOLEAN
    PROVE  /\ Decode(body, h).high \in BOOLEAN
           /\ Decode(body, h).text # <<"raw">> =>
                Decode(body, h).text \in Texts /\ SixNumbers(body)
<1> DEFINE event == IF SixNumbers(body) THEN body[Len(body)] ELSE "none"
           d == Decode(body, h)
<1>1. d = CASE event = "press"          -> [text |-> <<"char">>, high |-> FALSE]
            [] event = "release"        -> [text |-> <<>>, high |-> h]
            [] event = "high"           -> [text |-> <<>>, high |-> TRUE]
            [] event = "low" /\ h       -> [text |-> <<"pair">>, high |-> FALSE]
            [] OTHER                    -> [text |-> <<"raw">>, high |-> h]
  BY DEF Decode
<1>2. ~SixNumbers(body) => event = "none"
  OBVIOUS
<1> HIDE DEF event, d
<1>3. <<"char">> \in Texts /\ <<>> \in Texts /\ <<"pair">> \in Texts
  BY DEF Texts
<1>4. d \in [text : Texts \cup {<<"raw">>}, high : BOOLEAN]
  BY <1>1, <1>3
<1>5. event = "none" => d = [text |-> <<"raw">>, high |-> h]
  BY <1>1
<1>. QED
  BY <1>2, <1>4, <1>5 DEF d

\* A turn goes on, at most to behind the last character, or waits where it is.
IsTurn(s, i, h) ==
    /\ Turn(s, i, h).next \in i..(Len(s) + 1)
    /\ Turn(s, i, h).high \in BOOLEAN
    /\ Turn(s, i, h).text \in Texts

\* What the characters from the i-th on have to be for a turn to wait.
Waits(s, i) ==
    /\ i < Len(s) /\ s[i] = "esc" /\ s[i + 1] = "["
    /\ \A j \in (i + 2)..Len(s) : s[j] \in BodyChars
    /\ Len(s) + 1 - (i + 2) < MaxBody

\* The ways a turn can take, with the end of the body that starts there.
Starts(s, i) == s[i] = "esc" /\ i < Len(s) /\ s[i + 1] = "["

Parses(s, i, h, e) ==
    e <= Len(s) /\ s[e] = "_" /\ Decode(SubSeq(s, i + 2, e - 1), h).text # <<"raw">>

Literally(s, i, h) == [text |-> <<s[i]>>, next |-> i + 1, high |-> h]

LEMMA TurnIs ==
    ASSUME NEW s \in Seq(Chars), NEW i \in 1..Len(s), NEW h \in BOOLEAN,
           NEW e, Starts(s, i) => EndsBody(s, i + 2, e)
    PROVE  /\ ~Starts(s, i) => Turn(s, i, h) = Literally(s, i, h)
           /\ Starts(s, i) /\ Parses(s, i, h, e) =>
                Turn(s, i, h) = [text |-> Decode(SubSeq(s, i + 2, e - 1), h).text,
                                 next |-> e + 1,
                                 high |-> Decode(SubSeq(s, i + 2, e - 1), h).high]
           /\ Starts(s, i) /\ ~Parses(s, i, h, e)
              /\ e = Len(s) + 1 /\ e - (i + 2) < MaxBody =>
                Turn(s, i, h) = [text |-> <<>>, next |-> i, high |-> h]
           /\ Starts(s, i) /\ ~Parses(s, i, h, e)
              /\ ~(e = Len(s) + 1 /\ e - (i + 2) < MaxBody) =>
                Turn(s, i, h) = Literally(s, i, h)
<1>1. i \in Nat /\ Len(s) \in Nat /\ i <= Len(s)
  OBVIOUS
<1>2. CASE ~Starts(s, i)
  <2>1. s[i] # "esc" \/ i = Len(s) \/ s[i + 1] # "["
    BY <1>1, <1>2 DEF Starts
  <2>. QED
    BY <1>2, <2>1 DEF Turn, Literally
<1>3. CASE Starts(s, i)
  <2>1. ~(s[i] # "esc" \/ i = Len(s) \/ s[i + 1] # "[")
    BY <1>1, <1>3 DEF Starts
  <2>2. i + 2 \in 1..(Len(s) + 1)
    BY <1>1, <1>3 DEF Starts
  <2>3. e = BodyEnd(s, i + 2)
    BY <1>3, <2>2, BodyEndIs
  <2>4. Parses(s, i, h, e) =>
          Turn(s, i, h) = [text |-> Decode(SubSeq(s, i + 2, e - 1), h).text,
                           next |-> e + 1,
                           high |-> Decode(SubSeq(s, i + 2, e - 1), h).high]
    BY <2>1, <2>3 DEF Turn, Parses
  <2>5. ~Parses(s, i, h, e) /\ e = Len(s) + 1 /\ e - (i + 2) < MaxBody =>
          Turn(s, i, h) = [text |-> <<>>, next |-> i, high |-> h]
    BY <2>1, <2>3 DEF Turn, Parses
  <2>6. ~Parses(s, i, h, e) /\ ~(e = Len(s) + 1 /\ e - (i + 2) < MaxBody) =>
          Turn(s, i, h) = Literally(s, i, h)
    BY <2>1, <2>3 DEF Turn, Parses, Literally
  <2>. QED
    BY <1>3, <2>4, <2>5, <2>6
<1>. QED
  BY <1>2, <1>3

LEMMA TurnGoesOn ==
    ASSUME NEW s \in Seq(Chars), NEW i \in 1..Len(s), NEW h \in BOOLEAN
    PROVE  /\ IsTurn(s, i, h)
           /\ Turn(s, i, h).next = i => Waits(s, i)
<1> DEFINE e == BodyEnd(s, i + 2)
           d == Decode(SubSeq(s, i + 2, e - 1), h)
<1>1. i \in Nat /\ Len(s) \in Nat /\ 1 <= i /\ i <= Len(s)
  OBVIOUS
<1>2. Starts(s, i) => EndsBody(s, i + 2, e)
  <2> SUFFICES ASSUME Starts(s, i) PROVE EndsBody(s, i + 2, e)
    OBVIOUS
  <2>1. i + 2 \in 1..(Len(s) + 1)
    BY <1>1 DEF Starts
  <2>. QED
    BY <2>1, BodyEndIs
<1>3. d.high \in BOOLEAN /\ (d.text # <<"raw">> => d.text \in Texts)
  BY DecodeIs
<1> HIDE DEF e, d
<1>4. <<s[i]>> \in Texts /\ <<>> \in Texts
  <2>1. s[i] \in Chars
    BY <1>1
  <2>. QED
    BY <2>1 DEF Texts
<1>5. CASE Turn(s, i, h) = Literally(s, i, h)
  <2>1. /\ Turn(s, i, h).text = <<s[i]>> /\ Turn(s, i, h).next = i + 1
        /\ Turn(s, i, h).high = h
    BY <1>5 DEF Literally
  <2>2. i + 1 \in i..(Len(s) + 1) /\ i + 1 # i
    BY <1>1
  <2>. QED
    BY <1>4, <2>1, <2>2 DEF IsTurn
<1>6. CASE Starts(s, i) /\ Parses(s, i, h, e)
  <2>1. Turn(s, i, h) = [text |-> d.text, next |-> e + 1, high |-> d.high]
    BY <1>2, <1>6, TurnIs DEF d
  <2>2. Turn(s, i, h).text = d.text /\ Turn(s, i, h).next = e + 1 /\ Turn(s, i, h).high = d.high
    BY <2>1
  <2>3. d.text # <<"raw">> /\ e <= Len(s)
    BY <1>6 DEF Parses, d
  <2>4. e \in (i + 2)..(Len(s) + 1)
    BY <1>2, <1>6 DEF EndsBody
  <2>5. e + 1 \in i..(Len(s) + 1) /\ e + 1 # i
    BY <1>1, <2>3, <2>4
  <2>. QED
    BY <1>3, <2>2, <2>3, <2>5 DEF IsTurn
<1>7. CASE Starts(s, i) /\ ~Parses(s, i, h, e) /\ e = Len(s) + 1 /\ e - (i + 2) < MaxBody
  <2>1. Turn(s, i, h) = [text |-> <<>>, next |-> i, high |-> h]
    BY <1>2, <1>7, TurnIs
  <2>2. Turn(s, i, h).text = <<>> /\ Turn(s, i, h).next = i /\ Turn(s, i, h).high = h
    BY <2>1
  <2>3. i \in i..(Len(s) + 1)
    BY <1>1
  <2>4. Waits(s, i)
    <3>1. \A j \in (i + 2)..(e - 1) : s[j] \in BodyChars
      BY <1>2, <1>7 DEF EndsBody
    <3>2. e - 1 = Len(s)
      BY <1>1, <1>7
    <3>. QED
      BY <1>7, <3>1, <3>2 DEF Waits, Starts
  <2>. QED
    BY <1>4, <2>2, <2>3, <2>4 DEF IsTurn
<1>. QED
  BY <1>2, <1>5, <1>6, <1>7, TurnIs

\* The loop from each character on; f[i][h] is what it comes to.
Ends(h, rest) == [out |-> <<>>, high |-> h, rest |-> rest]

After(text, r) == [out |-> text \o r.out, high |-> r.high, rest |-> r.rest]

Goes(s, i, h, f) ==
    IF i > Len(s) THEN Ends(h, <<>>)
    ELSE IF Turn(s, i, h).next = i THEN Ends(h, SubSeq(s, i, Len(s)))
    ELSE After(Turn(s, i, h).text, f[Turn(s, i, h).next][Turn(s, i, h).high])

Loops(f, s) ==
    /\ f \in [1..(Len(s) + 1) -> [BOOLEAN -> Results]]
    /\ \A i \in 1..(Len(s) + 1) : \A h \in BOOLEAN : f[i][h] = Goes(s, i, h, f)

LEMMA AfterIs ==
    ASSUME NEW text \in Texts, NEW r \in Results
    PROVE  After(text, r) \in Results
<1>1. r.out \in Texts /\ text \o r.out \in Texts /\ r.high \in BOOLEAN /\ r.rest \in Seq(Chars)
  BY DEF Results, Texts
<1>. QED
  BY <1>1 DEF After, Results

LEMMA EndsIs ==
    ASSUME NEW h \in BOOLEAN, NEW rest \in Seq(Chars)
    PROVE  Ends(h, rest) \in Results
<1>1. <<>> \in Texts
  BY DEF Texts
<1>. QED
  BY <1>1 DEF Ends, Results

LEMMA GoesIs ==
    ASSUME NEW s \in Seq(Chars), NEW i \in 1..(Len(s) + 1), NEW h \in BOOLEAN,
           NEW f \in [1..(Len(s) + 1) -> [BOOLEAN -> Results]]
    PROVE  Goes(s, i, h, f) \in Results
<1>1. CASE i > Len(s)
  <2>1. <<>> \in Seq(Chars)
    OBVIOUS
  <2>. QED
    BY <1>1, <2>1, EndsIs DEF Goes
<1>2. CASE ~(i > Len(s))
  <2>1. i \in 1..Len(s) /\ i \in Nat /\ Len(s) \in Nat
    BY <1>2
  <2>2. IsTurn(s, i, h)
    BY <2>1, TurnGoesOn
  <2>3. SubSeq(s, i, Len(s)) \in Seq(Chars)
    BY <2>1
  <2>4. Turn(s, i, h).next \in 1..(Len(s) + 1)
    BY <2>1, <2>2 DEF IsTurn
  <2>5. f[Turn(s, i, h).next][Turn(s, i, h).high] \in Results
    BY <2>2, <2>4 DEF IsTurn
  <2>6. After(Turn(s, i, h).text, f[Turn(s, i, h).next][Turn(s, i, h).high]) \in Results
    BY <2>2, <2>5, AfterIs DEF IsTurn
  <2>7. Ends(h, SubSeq(s, i, Len(s))) \in Results
    BY <2>3, EndsIs
  <2>. QED
    BY <1>2, <2>6, <2>7 DEF Goes
<1>. QED
  BY <1>1, <1>2

\* What is equal behind i comes to the same at i.
LEMMA GoesAlike ==
    ASSUME NEW s \in Seq(Chars), NEW i \in 1..(Len(s) + 1), NEW h \in BOOLEAN,
           NEW f, NEW g, \A j \in (i + 1)..(Len(s) + 1) : f[j] = g[j]
    PROVE  Goes(s, i, h, f) = Goes(s, i, h, g)
<1>1. CASE i > Len(s)
  BY <1>1 DEF Goes
<1>2. CASE ~(i > Len(s))
  <2>1. i \in 1..Len(s) /\ i \in Nat /\ Len(s) \in Nat
    BY <1>2
  <2>2. IsTurn(s, i, h)
    BY <2>1, TurnGoesOn
  <2>3. CASE Turn(s, i, h).next = i
    BY <1>2, <2>3 DEF Goes
  <2>4. CASE Turn(s, i, h).next # i
    <3>1. Turn(s, i, h).next \in (i + 1)..(Len(s) + 1)
      BY <2>1, <2>2, <2>4 DEF IsTurn
    <3>2. f[Turn(s, i, h).next] = g[Turn(s, i, h).next]
      BY <3>1
    <3>. QED
      BY <1>2, <2>4, <3>2 DEF Goes
  <2>. QED
    BY <2>3, <2>4
<1>. QED
  BY <1>1, <1>2

LEMMA LoopExists ==
    ASSUME NEW s \in Seq(Chars)
    PROVE  \E f : Loops(f, s)
<1> DEFINE N == Len(s) + 1
           D == [BOOLEAN -> Results]
           body == [i \in 1..N |-> [f \in [1..N -> D] |-> [h \in BOOLEAN |-> Goes(s, i, h, f)]]]
<1>1. N \in Nat
  OBVIOUS
<1>2. \A i \in 1..N : \A f \in [1..N -> D] : [h \in BOOLEAN |-> Goes(s, i, h, f)] \in D
  BY GoesIs
<1>3. body \in [1..N -> [[1..N -> D] -> D]]
  BY <1>2
<1>4. LooksOn(body, N, D)
  <2> SUFFICES ASSUME NEW i \in 1..N, NEW f \in [1..N -> D], NEW g \in [1..N -> D],
                      \A j \in (i + 1)..N : f[j] = g[j]
               PROVE  body[i][f] = body[i][g]
    BY DEF LooksOn
  <2>1. \A h \in BOOLEAN : Goes(s, i, h, f) = Goes(s, i, h, g)
    BY GoesAlike
  <2> DEFINE Row(x) == [h \in BOOLEAN |-> Goes(s, i, h, x)]
  <2>2. Row(f) = Row(g)
    BY <2>1
  <2>3. \A x \in [1..N -> D] : body[i][x] = Row(x)
    <3> HIDE DEF N, D
    <3>. QED
      OBVIOUS
  <2> HIDE DEF body, Row
  <2>. QED
    BY <2>2, <2>3
<1>5. \E f0 : f0 \in [1..N -> D]
  <2>1. Ends(FALSE, <<>>) \in Results
    <3>1. <<>> \in Seq(Chars)
      OBVIOUS
    <3>. QED
      BY <3>1, EndsIs
  <2>2. [i \in 1..N |-> [h \in BOOLEAN |-> Ends(FALSE, <<>>)]] \in [1..N -> D]
    BY <2>1
  <2>. QED
    BY <2>2
<1>6. PICK f : f \in Descents(N, D, body)
  <2> HIDE DEF N, D, body
  <2>. QED
    BY <1>1, <1>3, <1>4, <1>5, DescentExists
<1>7. f \in [1..N -> D] /\ \A i \in 1..N : f[i] = body[i][f]
  <2> HIDE DEF body
  <2>. QED
    BY <1>6 DEF Descents
<1>8. \A i \in 1..N : \A h \in BOOLEAN : f[i][h] = Goes(s, i, h, f)
  BY <1>7
<1>. QED
  BY <1>7, <1>8 DEF Loops

\* A part of the input that reaches to its end.
TailOf(t, s, p) ==
    /\ s \in Seq(Chars) /\ t \in Seq(Chars) /\ p \in 0..Len(s)
    /\ Len(t) = Len(s) - p
    /\ \A i \in 1..Len(t) : t[i] = s[i + p]

LEMMA PartsAlike ==
    ASSUME NEW s, NEW t, NEW p, TailOf(t, s, p),
           NEW a \in 1..(Len(t) + 1), NEW b \in 0..Len(t),
           NEW aa, aa = a + p, NEW bb, bb = b + p
    PROVE  SubSeq(t, a, b) = SubSeq(s, aa, bb)
<1>1. /\ s \in Seq(Chars) /\ t \in Seq(Chars) /\ p \in Nat /\ p <= Len(s)
      /\ Len(t) = Len(s) - p /\ \A i \in 1..Len(t) : t[i] = s[i + p]
      /\ Len(t) \in Nat /\ Len(s) \in Nat
  BY DEF TailOf
<1> DEFINE x == SubSeq(t, a, b)
           y == SubSeq(s, aa, bb)
<1>2. x \in Seq(Chars) /\ Len(x) = (IF a <= b THEN b - a + 1 ELSE 0)
      /\ \A i \in 1..(b - a + 1) : x[i] = t[a + i - 1]
  BY <1>1
<1>3. y \in Seq(Chars) /\ Len(y) = (IF aa <= bb THEN bb - aa + 1 ELSE 0)
      /\ \A i \in 1..(bb - aa + 1) : y[i] = s[aa + i - 1]
  BY <1>1
<1>4. Len(x) = Len(y) /\ Len(x) \in Nat
  BY <1>1, <1>2, <1>3
<1> HIDE DEF x, y
<1>5. ASSUME NEW i \in 1..Len(x) PROVE x[i] = y[i]
  <2>1. i \in 1..(b - a + 1) /\ i \in 1..(bb - aa + 1)
        /\ a + i - 1 \in 1..Len(t) /\ (a + i - 1) + p = aa + i - 1
    BY <1>1, <1>2
  <2>2. x[i] = t[a + i - 1] /\ y[i] = s[aa + i - 1]
    BY <1>2, <1>3, <2>1
  <2>3. t[a + i - 1] = s[(a + i - 1) + p]
    BY <1>1, <2>1
  <2>. QED
    BY <2>1, <2>2, <2>3
<1>. QED
  BY <1>2, <1>3, <1>4, <1>5, SeqEqual DEF x, y

LEMMA TurnShift ==
    ASSUME NEW s, NEW t, NEW p, TailOf(t, s, p), NEW k \in 1..Len(t), NEW h \in BOOLEAN
    PROVE  /\ Turn(s, k + p, h).text = Turn(t, k, h).text
           /\ Turn(s, k + p, h).next = Turn(t, k, h).next + p
           /\ Turn(s, k + p, h).high = Turn(t, k, h).high
<1>1. s \in Seq(Chars) /\ t \in Seq(Chars)
  BY DEF TailOf
<1>2. p \in Nat /\ Len(t) = Len(s) - p
  BY <1>1 DEF TailOf
<1>3. Len(s) \in Nat /\ Len(t) \in Nat /\ k \in Nat /\ 1 <= k /\ k <= Len(t)
  BY <1>1
<1>4. k + p \in 1..Len(s)
  <2> DEFINE n == Len(t)
             m == Len(s)
  <2>1. m \in Nat /\ n \in Nat /\ k \in Nat /\ 1 <= k /\ k <= n /\ p \in Nat /\ n = m - p
    BY <1>2, <1>3
  <2> HIDE DEF n, m
  <2>2. k + p \in 1..m
    BY <2>1
  <2>. QED
    BY <2>2 DEF m
<1>5. /\ s \in Seq(Chars) /\ t \in Seq(Chars) /\ p \in Nat /\ Len(s) \in Nat
      /\ Len(t) = Len(s) - p /\ \A i \in 1..Len(t) : t[i] = s[i + p]
      /\ k \in Nat /\ k + p \in 1..Len(s) /\ 1 <= k /\ k <= Len(t) /\ Len(t) \in Nat
  BY <1>1, <1>2, <1>3, <1>4 DEF TailOf
<1>6. Starts(t, k) <=> Starts(s, k + p)
  <2>1. k < Len(t) <=> k + p < Len(s)
    BY <1>5
  <2>2. k < Len(t) => k + 1 \in 1..Len(t) /\ (k + 1) + p = (k + p) + 1
    BY <1>5
  <2>. QED
    BY <1>5, <2>1, <2>2 DEF Starts
<1> DEFINE e == BodyEnd(t, k + 2)
<1>7. Starts(t, k) => EndsBody(t, k + 2, e)
  <2> SUFFICES ASSUME Starts(t, k) PROVE EndsBody(t, k + 2, e)
    OBVIOUS
  <2>1. k + 2 \in 1..(Len(t) + 1)
    BY <1>5 DEF Starts
  <2>. QED
    BY <1>5, <2>1, BodyEndIs
<1> HIDE DEF e
<1>8. Starts(t, k) => EndsBody(s, k + p + 2, e + p) /\ e \in (k + 2)..(Len(t) + 1)
  <2> SUFFICES ASSUME Starts(t, k)
               PROVE  EndsBody(s, k + p + 2, e + p) /\ e \in (k + 2)..(Len(t) + 1)
    OBVIOUS
  <2>1. /\ e \in (k + 2)..(Len(t) + 1) /\ e - (k + 2) <= MaxBody
        /\ \A j \in (k + 2)..(e - 1) : t[j] \in BodyChars
        /\ e > Len(t) \/ e - (k + 2) = MaxBody \/ t[e] \notin BodyChars
    BY <1>7 DEF EndsBody
  <2>2. /\ e + p \in (k + p + 2)..(Len(s) + 1)
        /\ (e + p) - (k + p + 2) = e - (k + 2)
        /\ e + p > Len(s) <=> e > Len(t)
    BY <1>5, <2>1
  <2>3. ASSUME NEW j \in (k + p + 2)..((e + p) - 1) PROVE s[j] \in BodyChars
    <3>1. j - p \in (k + 2)..(e - 1) /\ j - p \in 1..Len(t) /\ (j - p) + p = j
      BY <1>5, <2>1
    <3>. QED
      BY <1>5, <2>1, <3>1
  <2>4. ~(e > Len(t)) => s[e + p] = t[e]
    BY <1>5, <2>1
  <2>. QED
    BY <2>1, <2>2, <2>3, <2>4 DEF EndsBody
<1>9. ASSUME Starts(t, k)
      PROVE  SubSeq(t, k + 2, e - 1) = SubSeq(s, k + p + 2, (e + p) - 1)
  <2> DEFINE a == k + 2
             b == e - 1
             aa == k + p + 2
             bb == (e + p) - 1
  <2>1. e \in (k + 2)..(Len(t) + 1)
    BY <1>8, <1>9
  <2>2. a \in 1..(Len(t) + 1) /\ b \in 0..Len(t) /\ aa = a + p /\ bb = b + p
    BY <1>2, <1>3, <2>1
  <2> HIDE DEF a, b, aa, bb
  <2>3. TailOf(t, s, p)
    OBVIOUS
  <2>4. SubSeq(t, a, b) = SubSeq(s, aa, bb)
    BY ONLY <2>2, <2>3, PartsAlike, SMTT(30)
  <2>. QED
    BY <2>4 DEF a, b, aa, bb
<1>10. Starts(t, k) => (Parses(t, k, h, e) <=> Parses(s, k + p, h, e + p))
  <2> SUFFICES ASSUME Starts(t, k) PROVE Parses(t, k, h, e) <=> Parses(s, k + p, h, e + p)
    OBVIOUS
  <2>1. e \in (k + 2)..(Len(t) + 1)
    BY <1>8
  <2>2. (e <= Len(t) <=> e + p <= Len(s)) /\ (e <= Len(t) => e \in 1..Len(t))
    BY <1>2, <1>3, <2>1
  <2>3. (e <= Len(t) <=> e + p <= Len(s)) /\ (e <= Len(t) => s[e + p] = t[e])
    BY <1>5, <2>2
  <2>. QED
    BY <1>9, <2>3 DEF Parses
<1>11. ASSUME Starts(t, k)
      PROVE  /\ e = Len(t) + 1 <=> e + p = Len(s) + 1
             /\ (e + p) - (k + p + 2) = e - (k + 2)
  <2> DEFINE a == Len(t)
             b == Len(s)
  <2>1. e \in Nat /\ a \in Nat /\ b \in Nat /\ p \in Nat /\ k \in Nat /\ a = b - p
    BY <1>5, <1>8, <1>11
  <2> HIDE DEF a, b
  <2>2. /\ e = a + 1 <=> e + p = b + 1
        /\ (e + p) - (k + p + 2) = e - (k + 2)
    BY <2>1
  <2>. QED
    BY <2>2 DEF a, b
<1>12. Literally(t, k, h).text = Literally(s, k + p, h).text
      /\ Literally(s, k + p, h).next = Literally(t, k, h).next + p
      /\ Literally(s, k + p, h).high = Literally(t, k, h).high
  <2>1. t[k] = s[k + p] /\ (k + p) + 1 = (k + 1) + p
    BY <1>5
  <2>. QED
    BY <2>1 DEF Literally
<1>13. CASE ~Starts(t, k)
  <2>1. Turn(t, k, h) = Literally(t, k, h)
    BY <1>5, <1>7, <1>13, TurnIs
  <2>2. Turn(s, k + p, h) = Literally(s, k + p, h)
    BY <1>5, <1>6, <1>13, TurnIs
  <2>. QED
    BY <1>12, <2>1, <2>2
<1>14. CASE Starts(t, k) /\ Parses(t, k, h, e)
  <2> DEFINE d == Decode(SubSeq(t, k + 2, e - 1), h)
             dd == Decode(SubSeq(s, k + p + 2, (e + p) - 1), h)
  <2>1. Turn(t, k, h) = [text |-> d.text, next |-> e + 1, high |-> d.high]
    BY <1>5, <1>7, <1>14, TurnIs
  <2>2. Turn(s, k + p, h) = [text |-> dd.text, next |-> (e + p) + 1, high |-> dd.high]
    BY <1>5, <1>6, <1>8, <1>10, <1>14, TurnIs
  <2>3. d = dd
    BY <1>9, <1>14
  <2>4. (e + p) + 1 = (e + 1) + p
    BY <1>5, <1>8, <1>14
  <2> HIDE DEF d, dd
  <2>. QED
    BY <2>1, <2>2, <2>3, <2>4
<1>15. CASE Starts(t, k) /\ ~Parses(t, k, h, e) /\ e = Len(t) + 1 /\ e - (k + 2) < MaxBody
  <2>1. Turn(t, k, h) = [text |-> <<>>, next |-> k, high |-> h]
    BY <1>5, <1>7, <1>15, TurnIs
  <2>2. Turn(s, k + p, h) = [text |-> <<>>, next |-> k + p, high |-> h]
    BY <1>5, <1>6, <1>8, <1>10, <1>11, <1>15, TurnIs
  <2>. QED
    BY <2>1, <2>2
<1>16. CASE Starts(t, k) /\ ~Parses(t, k, h, e) /\ ~(e = Len(t) + 1 /\ e - (k + 2) < MaxBody)
  <2>1. Turn(t, k, h) = Literally(t, k, h)
    BY <1>5, <1>7, <1>16, TurnIs
  <2>2. Turn(s, k + p, h) = Literally(s, k + p, h)
    BY <1>5, <1>6, <1>8, <1>10, <1>11, <1>16, TurnIs
  <2>. QED
    BY <1>12, <2>1, <2>2
<1>. QED
  BY <1>13, <1>14, <1>15, <1>16

\* The loop does the same on them, however much comes before.
LEMMA LoopShift ==
    ASSUME NEW s, NEW t, NEW p, TailOf(t, s, p), NEW f, NEW g, Loops(f, s), Loops(g, t)
    PROVE  \A k \in 1..(Len(t) + 1) : g[k] = f[k + p]
<1> DEFINE M == Len(t) + 1
           T == {k \in 1..M : g[k] = f[k + p]}
<1>1. /\ s \in Seq(Chars) /\ t \in Seq(Chars) /\ p \in Nat /\ Len(s) \in Nat
      /\ Len(t) = Len(s) - p /\ Len(t) \in Nat /\ M \in Nat
  BY DEF TailOf
<1>2. ASSUME NEW k \in 1..M, \A j \in (k + 1)..M : j \in T PROVE k \in T
  <2>1. k \in Nat /\ k + p \in 1..(Len(s) + 1) /\ (k > Len(t) <=> k + p > Len(s))
    BY <1>1
  <2>2. g[k] \in [BOOLEAN -> Results] /\ f[k + p] \in [BOOLEAN -> Results]
    BY <1>1, <2>1 DEF Loops
  <2>3. ASSUME NEW h \in BOOLEAN PROVE Goes(t, k, h, g) = Goes(s, k + p, h, f)
    <3>1. CASE k > Len(t)
      BY <2>1, <3>1 DEF Goes
    <3>2. CASE ~(k > Len(t))
      <4>1. k \in 1..Len(t)
        BY <1>1, <2>1, <3>2
      <4> DEFINE turn == Turn(t, k, h)
                 further == Turn(s, k + p, h)
      <4>2. further.text = turn.text /\ further.next = turn.next + p /\ further.high = turn.high
        BY <4>1, TurnShift
      <4>3. turn.next \in k..M /\ turn.high \in BOOLEAN
        BY <1>1, <4>1, TurnGoesOn DEF IsTurn
      <4> HIDE DEF turn, further
      <4>4. CASE turn.next = k
        <5>1. further.next = k + p
          BY <4>2, <4>4
        <5>2. SubSeq(t, k, Len(t)) = SubSeq(s, k + p, Len(s))
          <6> DEFINE b == Len(t)
                     aa == k + p
                     bb == Len(s)
          <6>1. k \in 1..(Len(t) + 1) /\ b \in 0..Len(t) /\ aa = k + p /\ bb = b + p
            BY <1>1, <4>1
          <6> HIDE DEF b, aa, bb
          <6>2. TailOf(t, s, p)
            OBVIOUS
          <6>3. SubSeq(t, k, b) = SubSeq(s, aa, bb)
            BY ONLY <6>1, <6>2, PartsAlike, SMTT(30)
          <6>. QED
            BY <6>3 DEF b, aa, bb
        <5>3. Goes(t, k, h, g) = Ends(h, SubSeq(t, k, Len(t)))
          BY <3>2, <4>4 DEF Goes, turn
        <5>4. Goes(s, k + p, h, f) = Ends(h, SubSeq(s, k + p, Len(s)))
          BY <2>1, <3>2, <5>1 DEF Goes, further
        <5>. QED
          BY <5>2, <5>3, <5>4
      <4>5. CASE turn.next # k
        <5>1. further.next # k + p
          BY <1>1, <2>1, <4>2, <4>3, <4>5
        <5>2. turn.next \in (k + 1)..M
          BY <2>1, <4>3, <4>5
        <5>3. g[turn.next] = f[further.next]
          BY <1>2, <4>2, <5>2
        <5>4. Goes(t, k, h, g) = After(turn.text, g[turn.next][turn.high])
          BY <3>2, <4>5 DEF Goes, turn
        <5>5. Goes(s, k + p, h, f) = After(further.text, f[further.next][further.high])
          BY <2>1, <3>2, <5>1 DEF Goes, further
        <5>. QED
          BY <4>2, <5>3, <5>4, <5>5
      <4>. QED
        BY <4>4, <4>5
    <3>. QED
      BY <3>1, <3>2
  <2>4. \A h \in BOOLEAN : g[k][h] = f[k + p][h]
    BY <2>1, <2>3 DEF Loops
  <2>. QED
    BY <2>2, <2>4
<1> HIDE DEF T
<1>3. 1..M \subseteq T
  BY <1>1, <1>2, DownFrom
<1>. QED
  BY <1>3 DEF T

LEMMA FeedIs ==
    ASSUME NEW s \in Seq(Chars), NEW f, Loops(f, s), NEW kept \in BOOLEAN
    PROVE  Feed(s, kept) = f[1][kept] /\ Feed(s, kept) \in Results
<1> DEFINE N == Len(s) + 1
           turns[i \in 1..N] == [h \in BOOLEAN |->
             IF i > Len(s) THEN [out |-> <<>>, high |-> h, rest |-> <<>>]
             ELSE LET turn == Turn(s, i, h)
                  IN  IF turn.next = i
                      THEN [out  |-> <<>>, high |-> h,
                            rest |-> SubSeq(s, i, Len(s))]
                      ELSE LET later == turns[turn.next][turn.high]
                           IN  [out  |-> turn.text \o later.out,
                                high |-> later.high, rest |-> later.rest]]
           Is(l) == l = [i \in 1..N |-> [h \in BOOLEAN |-> Goes(s, i, h, l)]]
<1>1. Feed(s, kept) = turns[1][kept]
  BY DEF Feed
<1>2. Is(f)
  <2>1. f \in [1..N -> [BOOLEAN -> Results]]
    BY DEF Loops
  <2>2. \A i \in 1..N : f[i] \in [BOOLEAN -> Results]
    BY <2>1
  <2>3. \A i \in 1..N : f[i] = [h \in BOOLEAN |-> Goes(s, i, h, f)]
    BY <2>2 DEF Loops
  <2> HIDE DEF N
  <2>. QED
    BY <2>1, <2>3
<1>3. Is(turns)
  BY <1>2 DEF Goes, Ends, After
<1> HIDE DEF turns
<1> DEFINE Row(i, l) == [h \in BOOLEAN |-> Goes(s, i, h, l)]
           T == {i \in 1..N : turns[i] = f[i]}
<1>4. \A i \in 1..N : turns[i] = Row(i, turns) /\ f[i] = Row(i, f)
  BY <1>2, <1>3
<1>5. ASSUME NEW i \in 1..N, \A j \in (i + 1)..N : turns[j] = f[j]
      PROVE  Row(i, turns) = Row(i, f)
  <2>1. \A h \in BOOLEAN : Goes(s, i, h, turns) = Goes(s, i, h, f)
    BY <1>5, GoesAlike
  <2>. QED
    BY <2>1
<1> HIDE DEF Row
<1>6. ASSUME NEW i \in 1..N, \A j \in (i + 1)..N : j \in T PROVE i \in T
  BY <1>4, <1>5, <1>6
<1>7. 1..N \subseteq T
  <2>1. N \in Nat
    OBVIOUS
  <2> HIDE DEF N, T
  <2>. QED
    BY <1>6, <2>1, DownFrom
<1>8. 1 \in 1..N /\ f \in [1..N -> [BOOLEAN -> Results]]
  BY DEF Loops
<1>. QED
  BY <1>1, <1>7, <1>8

\* What comes behind the input does not change a turn that need not wait for it.
LEMMA TurnExtends ==
    ASSUME NEW x \in Seq(Chars), NEW d \in Seq(Chars), NEW i \in 1..Len(x), NEW h \in BOOLEAN,
           Turn(x, i, h).next # i,
           ~Parts(x, d)
    PROVE  Turn(x \o d, i, h) = Turn(x, i, h)
<1> DEFINE u == x \o d
           n == Len(x)
           e == BodyEnd(x, i + 2)
<1>1. /\ u \in Seq(Chars) /\ Len(u) = n + Len(d) /\ n \in Nat /\ Len(d) \in Nat
      /\ \A j \in 1..n : u[j] = x[j]
      /\ d # <<>> => Len(d) > 0 /\ u[n + 1] = d[1]
      /\ d = <<>> => Len(d) = 0
      /\ i \in 1..n /\ i \in Nat /\ i \in 1..Len(u)
  OBVIOUS
<1>2. \A a \in 1..(n + 1) : \A b \in 0..n : SubSeq(u, a, b) = SubSeq(x, a, b)
  OBVIOUS
<1>3. Starts(x, i) => EndsBody(x, i + 2, e)
  <2> SUFFICES ASSUME Starts(x, i) PROVE EndsBody(x, i + 2, e)
    OBVIOUS
  <2>1. i + 2 \in 1..(n + 1)
    BY <1>1 DEF Starts
  <2>. QED
    BY <2>1, BodyEndIs
<1>4. n = Len(x)
  OBVIOUS
<1> HIDE DEF u, n, e
<1>5. Literally(u, i, h) = Literally(x, i, h)
  BY <1>1 DEF Literally
<1>6. CASE ~Starts(x, i)
  <2>1. ~Starts(u, i)
    <3>1. CASE i = n
      <4>1. ~(x[i] = "esc" /\ d # <<>> /\ d[1] = "[")
        <5>1. x # <<>> /\ i = Len(x)
          BY <1>1, <1>4, <3>1
        <5>. QED
          BY <5>1 DEF Parts
      <4>2. CASE d = <<>>
        BY <1>1, <3>1, <4>2 DEF Starts
      <4>3. CASE d # <<>>
        BY <1>1, <3>1, <4>1, <4>3 DEF Starts
      <4>. QED
        BY <4>2, <4>3
    <3>2. CASE i # n
      <4>1. i < n /\ i + 1 \in 1..n
        BY <1>1, <3>2
      <4>. QED
        BY <1>1, <1>6, <4>1 DEF Starts, n
    <3>. QED
      BY <3>1, <3>2
  <2>2. Turn(u, i, h) = Literally(u, i, h)
    BY <1>1, <2>1, TurnIs
  <2>3. Turn(x, i, h) = Literally(x, i, h)
    BY <1>3, <1>6, TurnIs
  <2>. QED
    BY <1>5, <2>2, <2>3 DEF u
<1>7. CASE Starts(x, i)
  <2>1. /\ e \in (i + 2)..(n + 1) /\ e - (i + 2) <= MaxBody
        /\ \A j \in (i + 2)..(e - 1) : x[j] \in BodyChars
        /\ e > n \/ e - (i + 2) = MaxBody \/ x[e] \notin BodyChars
    BY <1>3, <1>7 DEF EndsBody, n
  <2>2. i < n /\ i + 1 \in 1..n /\ Starts(u, i)
    BY <1>1, <1>7 DEF Starts, n
  <2>3. \A j \in (i + 2)..(e - 1) : u[j] \in BodyChars
    <3>1. \A j \in (i + 2)..(e - 1) : j \in 1..n
      BY <1>1, <2>1
    <3>. QED
      BY <1>1, <2>1, <3>1
  <2>4. SubSeq(u, i + 2, e - 1) = SubSeq(x, i + 2, e - 1)
    <3>1. i + 2 \in 1..(n + 1) /\ e - 1 \in 0..n
      BY <1>1, <2>1, <2>2
    <3>. QED
      BY <1>2, <3>1
  <2>5. CASE e <= n
    <3>1. e \in 1..n /\ u[e] = x[e] /\ e \in Nat
      BY <1>1, <2>1, <2>5
    <3>2. EndsBody(u, i + 2, e)
      <4>1. e \in (i + 2)..(Len(u) + 1) /\ ~(e > n)
        BY <1>1, <2>1, <2>5
      <4>. QED
        BY <2>1, <2>3, <3>1, <4>1 DEF EndsBody
    <3>3. Parses(u, i, h, e) <=> Parses(x, i, h, e)
      <4>1. e <= Len(u) /\ e <= Len(x)
        BY <1>4, <1>1, <2>5, <3>1
      <4>. QED
        BY <2>4, <3>1, <4>1 DEF Parses
    <3>4. e # n + 1 /\ e # Len(u) + 1
      BY <1>1, <2>5, <3>1
    <3>5. CASE Parses(x, i, h, e)
      <4> DEFINE c == Decode(SubSeq(x, i + 2, e - 1), h)
                 cc == Decode(SubSeq(u, i + 2, e - 1), h)
      <4>1. Turn(x, i, h) = [text |-> c.text, next |-> e + 1, high |-> c.high]
        BY <1>3, <1>7, <3>5, TurnIs
      <4>2. Turn(u, i, h) = [text |-> cc.text, next |-> e + 1, high |-> cc.high]
        BY <1>1, <2>2, <3>2, <3>3, <3>5, TurnIs
      <4>3. c = cc
        BY <2>4
      <4> HIDE DEF c, cc
      <4>. QED
        BY <4>1, <4>2, <4>3 DEF u
    <3>6. CASE ~Parses(x, i, h, e)
      <4>1. Turn(x, i, h) = Literally(x, i, h)
        BY <1>3, <1>7, <3>4, <3>6, TurnIs DEF n
      <4>2. Turn(u, i, h) = Literally(u, i, h)
        BY <1>1, <2>2, <3>2, <3>3, <3>4, <3>6, TurnIs
      <4>. QED
        BY <1>5, <4>1, <4>2 DEF u
    <3>. QED
      BY <3>5, <3>6
  <2>6. CASE e = n + 1
    <3>1. ~Parses(x, i, h, e)
      <4>1. ~(e <= Len(x))
        BY <1>4, <1>1, <2>6
      <4>. QED
        BY <4>1 DEF Parses
    <3>2. ~(e - (i + 2) < MaxBody)
      <4> SUFFICES ASSUME e - (i + 2) < MaxBody PROVE FALSE
        OBVIOUS
      <4>1. Turn(x, i, h) = [text |-> <<>>, next |-> i, high |-> h]
        BY <1>3, <1>7, <2>6, <3>1, TurnIs DEF n
      <4>. QED
        BY <4>1
    <3>3. e - (i + 2) = MaxBody /\ MaxBody \in Nat
      BY <1>1, <2>1, <3>2, Win32InputAssumption
    <3>4. Turn(x, i, h) = Literally(x, i, h)
      BY <1>3, <1>7, <3>1, <3>2, TurnIs
    <3>5. EndsBody(u, i + 2, e)
      <4>1. e \in (i + 2)..(Len(u) + 1)
        BY <1>1, <2>1
      <4>. QED
        BY <2>1, <2>3, <3>3, <4>1 DEF EndsBody
    <3>6. ~Parses(u, i, h, e)
      <4> SUFFICES ASSUME Parses(u, i, h, e) PROVE FALSE
        OBVIOUS
      <4>1. e <= Len(u) /\ u[e] = "_"
        BY DEF Parses
      <4>2. d[1] = "_"
        <5>1. Len(d) # 0
          <6> DEFINE k == Len(d)
                     m == Len(u)
          <6>1. m = n + k /\ n \in Nat /\ k \in Nat /\ n + 1 <= m
            BY <1>1, <2>6, <4>1
          <6> HIDE DEF k, m
          <6>2. k # 0
            BY <6>1
          <6>. QED
            BY <6>2 DEF k
        <5>. QED
          BY <1>1, <2>6, <4>1, <5>1
      <4>3. SixNumbers(SubSeq(x, i + 2, e - 1))
        BY <2>4, DecodeIs DEF Parses
      <4>4. Full(x)
        <5> DEFINE k == Len(x) - MaxBody
        <5>1. k = i + 1 /\ k > 1 /\ k - 1 = i /\ k + 1 = i + 2 /\ e - 1 = Len(x)
          BY <1>1, <1>4, <2>1, <2>2, <2>6, <3>3
        <5>2. x[i] = "esc" /\ x[i + 1] = "["
          BY <1>7 DEF Starts
        <5> HIDE DEF k
        <5>3. x[k - 1] = "esc" /\ x[k] = "[" /\ SixNumbers(SubSeq(x, k + 1, Len(x)))
          BY <4>3, <5>1, <5>2
        <5>. QED
          BY <5>1, <5>3 DEF Full, k
      <4>. QED
        BY <4>2, <4>4 DEF Parts
    <3>7. Turn(u, i, h) = Literally(u, i, h)
      BY <1>1, <2>2, <3>2, <3>5, <3>6, TurnIs
    <3>. QED
      BY <1>5, <3>4, <3>7 DEF u
  <2>7. e <= n \/ e = n + 1
    BY <1>1, <2>1
  <2>. QED
    BY <2>5, <2>6, <2>7
<1>. QED
  BY <1>6, <1>7

LEMMA BehindIs ==
    ASSUME NEW q \in Seq(Chars), NEW d \in Seq(Chars)
    PROVE  /\ q \o d \in Seq(Chars) /\ Len(q \o d) = Len(q) + Len(d)
           /\ \A j \in 1..Len(q) : (q \o d)[j] = q[j]
           /\ \A j \in 1..Len(d) : (q \o d)[Len(q) + j] = d[j]
OBVIOUS

\* What is typed next goes on from what is left.
LEMMA LoopJoins ==
    ASSUME NEW x \in Seq(Chars), NEW d \in Seq(Chars),
           ~Parts(x, d),
           NEW f, Loops(f, x), NEW u, Loops(u, x \o d)
    PROVE  \A i \in 1..(Len(x) + 1) : \A h \in BOOLEAN :
             u[i][h] = After(f[i][h].out, Feed(f[i][h].rest \o d, f[i][h].high))
<1> DEFINE n == Len(x)
           y == x \o d
           Joins(i) == \A h \in BOOLEAN :
             u[i][h] = After(f[i][h].out, Feed(f[i][h].rest \o d, f[i][h].high))
           T == {i \in 1..(n + 1) : Joins(i)}
<1>1. /\ y \in Seq(Chars) /\ Len(y) = n + Len(d) /\ n \in Nat /\ Len(d) \in Nat
      /\ n = Len(x)
  OBVIOUS
<1>2. ASSUME NEW q \in Seq(Chars), NEW i \in 1..(n + 1), TailOf(q, y, i - 1), NEW h \in BOOLEAN
      PROVE  /\ Feed(q, h) = u[i][h] /\ Feed(q, h) \in Results
  <2>1. PICK g : Loops(g, q)
    BY LoopExists
  <2>2. 1 \in 1..(Len(q) + 1) /\ 1 + (i - 1) = i
    BY <1>1
  <2>3. g[1] = u[1 + (i - 1)]
    BY <1>2, <2>1, <2>2, LoopShift
  <2>. QED
    BY <2>1, <2>2, <2>3, FeedIs
<1>3. ASSUME NEW r \in Results PROVE After(<<>>, r) = r
  <2>1. r = [out |-> r.out, high |-> r.high, rest |-> r.rest] /\ r.out \in Texts
    BY DEF Results
  <2>2. <<>> \o r.out = r.out
    BY <2>1 DEF Texts
  <2>. QED
    BY <2>1, <2>2 DEF After
<1>4. ASSUME NEW a \in Texts, NEW b \in Texts, NEW r \in Results
      PROVE  After(a \o b, r) = After(a, After(b, r))
  <2>1. r.out \in Texts
    BY DEF Results
  <2>2. (a \o b) \o r.out = a \o (b \o r.out)
    <3> DEFINE S == Chars \cup {"char", "pair"}
               c == r.out
    <3>1. a \in Seq(S) /\ b \in Seq(S) /\ c \in Seq(S)
      BY <2>1 DEF Texts
    <3> HIDE DEF S, c
    <3>2. (a \o b) \o c = a \o (b \o c)
      BY <3>1, ConcatAssociative, SMTT(30)
    <3>. QED
      BY <3>2 DEF c
  <2>. QED
    BY <2>2 DEF After
<1>5. n + 1 \in T
  <2> SUFFICES ASSUME NEW h \in BOOLEAN
               PROVE  u[n + 1][h] = After(f[n + 1][h].out, Feed(f[n + 1][h].rest \o d, f[n + 1][h].high))
    BY <1>1
  <2>1. f[n + 1][h] = Ends(h, <<>>)
    BY <1>1 DEF Loops, Goes
  <2>2. f[n + 1][h].out = <<>> /\ f[n + 1][h].high = h /\ f[n + 1][h].rest \o d = d
    BY <2>1 DEF Ends
  <2>3. TailOf(d, y, (n + 1) - 1)
    <3>1. /\ (n + 1) - 1 = n /\ n \in 0..Len(y) /\ Len(d) = Len(y) - n
          /\ \A j \in 1..Len(d) : d[j] = y[j + n]
      BY <1>1
    <3>. QED
      BY <1>1, <3>1 DEF TailOf
  <2>4. Feed(d, h) = u[n + 1][h] /\ Feed(d, h) \in Results
    <3>1. n + 1 \in 1..(n + 1)
      BY <1>1
    <3>. QED
      BY <1>2, <2>3, <3>1
  <2>. QED
    BY <1>3, <2>2, <2>4
<1>6. ASSUME NEW i \in 1..n, \A j \in (i + 1)..(n + 1) : j \in T
      PROVE  i \in T
  <2> SUFFICES ASSUME NEW h \in BOOLEAN
               PROVE  u[i][h] = After(f[i][h].out, Feed(f[i][h].rest \o d, f[i][h].high))
    BY <1>1
  <2>1. i \in 1..(n + 1) /\ i \in 1..Len(x) /\ i \in 1..Len(y) /\ ~(i > Len(x)) /\ ~(i > Len(y))
        /\ i \in Nat /\ i \in 1..(Len(y) + 1)
    BY <1>1
  <2> DEFINE turn == Turn(x, i, h)
  <2>2. f[i][h] = Goes(x, i, h, f) /\ u[i][h] = Goes(y, i, h, u)
    BY <1>1, <2>1 DEF Loops
  <2>3. CASE turn.next = i
    <3> DEFINE q == SubSeq(x, i, n)
    <3>1. f[i][h] = Ends(h, q)
      BY <1>1, <2>1, <2>2, <2>3 DEF Goes
    <3>2. f[i][h].out = <<>> /\ f[i][h].high = h /\ f[i][h].rest = q
      BY <3>1 DEF Ends
    <3>3. TailOf(q \o d, y, i - 1) /\ q \o d \in Seq(Chars)
      <4>1. q \in Seq(Chars) /\ Len(q) = n - i + 1 /\ \A j \in 1..(n - i + 1) : q[j] = x[i + j - 1]
        BY <1>1, <2>1
      <4> HIDE DEF q
      <4>2. /\ q \o d \in Seq(Chars) /\ Len(q \o d) = Len(q) + Len(d)
            /\ \A j \in 1..Len(q) : (q \o d)[j] = q[j]
            /\ \A j \in 1..Len(d) : (q \o d)[Len(q) + j] = d[j]
        BY <4>1, BehindIs
      <4>3. /\ \A j \in 1..n : y[j] = x[j]
            /\ \A j \in 1..Len(d) : y[n + j] = d[j]
        BY <1>1
      <4> HIDE DEF y
      <4>4. ASSUME NEW j \in 1..Len(q \o d) PROVE (q \o d)[j] = y[j + (i - 1)]
        <5>1. CASE j <= Len(q)
          <6>1. j \in 1..Len(q) /\ i + j - 1 \in 1..n /\ j + (i - 1) = i + j - 1
            BY <1>1, <2>1, <4>1, <4>2, <5>1
          <6>. QED
            BY <4>1, <4>2, <4>3, <6>1
        <5>2. CASE j > Len(q)
          <6> DEFINE m == j - Len(q)
          <6>1. m \in 1..Len(d) /\ j = Len(q) + m /\ j + (i - 1) = n + m
            BY <1>1, <2>1, <4>1, <4>2, <5>2
          <6> HIDE DEF m
          <6>. QED
            BY <4>2, <4>3, <6>1
        <5>. QED
          BY <1>1, <4>1, <4>2, <5>1, <5>2
      <4>5. Len(q \o d) = Len(y) - (i - 1) /\ i - 1 \in 0..Len(y)
        <5> DEFINE a == Len(q)
                   b == Len(d)
                   c == Len(q \o d)
                   m == Len(y)
        <5>1. /\ c = a + b /\ a = n - i + 1 /\ m = n + b
              /\ b \in Nat /\ n \in Nat /\ i \in Nat /\ 1 <= i /\ i <= n
          BY <1>1, <2>1, <4>1, <4>2
        <5> HIDE DEF a, b, c, m
        <5>2. c = m - (i - 1) /\ i - 1 \in 0..m
          BY <5>1
        <5>. QED
          BY <5>2 DEF c, m
      <4>. QED
        BY <1>1, <4>2, <4>4, <4>5 DEF TailOf
    <3>4. Feed(q \o d, h) = u[i][h] /\ Feed(q \o d, h) \in Results
      BY <1>2, <2>1, <3>3
    <3>. QED
      BY <1>3, <3>2, <3>4
  <2>4. CASE turn.next # i
    <3>1. Turn(y, i, h) = turn
      BY <2>1, <2>4, TurnExtends
    <3>2. turn.next \in (i + 1)..(n + 1) /\ turn.high \in BOOLEAN /\ turn.text \in Texts
      <4>1. IsTurn(x, i, h)
        BY <2>1, TurnGoesOn
      <4>2. turn.next \in i..(n + 1)
        BY <4>1 DEF IsTurn
      <4> HIDE DEF turn
      <4>3. turn.next \in (i + 1)..(n + 1)
        BY <1>1, <2>1, <2>4, <4>2
      <4>. QED
        BY <4>1, <4>3 DEF IsTurn, turn
    <3> DEFINE later == f[turn.next][turn.high]
    <3>3. f[i][h] = After(turn.text, later)
      BY <1>1, <2>1, <2>2, <2>4 DEF Goes
    <3>4. u[i][h] = After(turn.text, u[turn.next][turn.high])
      BY <2>1, <2>2, <2>4, <3>1 DEF Goes
    <3> HIDE DEF turn
    <3>5. later \in Results
      <4>1. f \in [1..(n + 1) -> [BOOLEAN -> Results]] /\ turn.next \in 1..(n + 1)
        BY <1>1, <2>1, <3>2 DEF Loops
      <4>. QED
        BY <3>2, <4>1
    <3>6. u[turn.next][turn.high] = After(later.out, Feed(later.rest \o d, later.high))
      BY <1>6, <3>2
    <3>7. Feed(later.rest \o d, later.high) \in Results
      <4>1. later.rest \o d \in Seq(Chars) /\ later.high \in BOOLEAN
        BY <3>5 DEF Results
      <4>2. PICK g : Loops(g, later.rest \o d)
        BY <4>1, LoopExists
      <4>. QED
        BY <4>1, <4>2, FeedIs
    <3> HIDE DEF later
    <3>8. /\ f[i][h].out = turn.text \o later.out /\ f[i][h].high = later.high
          /\ f[i][h].rest = later.rest
      <4>1. /\ After(turn.text, later).out = turn.text \o later.out
            /\ After(turn.text, later).high = later.high
            /\ After(turn.text, later).rest = later.rest
        BY DEF After
      <4>. QED
        BY <3>3, <4>1
    <3>9. later.out \in Texts
      BY <3>5 DEF Results
    <3>. QED
      BY <1>4, <3>2, <3>4, <3>6, <3>7, <3>8, <3>9
  <2>. QED
    BY <2>3, <2>4
<1> HIDE DEF T
<1>7. \A i \in 1..(n + 1) : (\A j \in (i + 1)..(n + 1) : j \in T) => i \in T
  <2> SUFFICES ASSUME NEW i \in 1..(n + 1), \A j \in (i + 1)..(n + 1) : j \in T
               PROVE  i \in T
    OBVIOUS
  <2>1. i = n + 1 \/ i \in 1..n
    BY <1>1
  <2>. QED
    BY <1>5, <1>6, <2>1
<1>8. 1..(n + 1) \subseteq T
  <2>1. n + 1 \in Nat
    BY <1>1
  <2> HIDE DEF n
  <2>. QED
    BY <1>7, <2>1, DownFrom
<1>. QED
  BY <1>8 DEF T

\* What is left starts a sequence.
Left(rest) ==
    rest # <<>> =>
      /\ Len(rest) >= 2 /\ rest[1] = "esc" /\ rest[2] = "["
      /\ \A i \in 3..Len(rest) : rest[i] \in BodyChars
      /\ Len(rest) - 2 < MaxBody

LEMMA LoopLeaves ==
    ASSUME NEW s \in Seq(Chars), NEW f, Loops(f, s)
    PROVE  \A i \in 1..(Len(s) + 1) : \A h \in BOOLEAN : Left(f[i][h].rest)
<1> DEFINE n == Len(s)
           T == {i \in 1..(n + 1) : \A h \in BOOLEAN : Left(f[i][h].rest)}
<1>1. n \in Nat /\ n = Len(s)
  OBVIOUS
<1>2. ASSUME NEW i \in 1..(n + 1), \A j \in (i + 1)..(n + 1) : j \in T
      PROVE  i \in T
  <2> SUFFICES ASSUME NEW h \in BOOLEAN PROVE Left(f[i][h].rest)
    BY <1>1
  <2>1. f[i][h] = Goes(s, i, h, f)
    BY <1>1 DEF Loops
  <2>2. CASE i > n
    <3>1. f[i][h].rest = <<>>
      BY <1>1, <2>1, <2>2 DEF Goes, Ends
    <3>. QED
      BY <3>1 DEF Left
  <2>3. CASE ~(i > n)
    <3>1. i \in 1..n /\ i \in Nat /\ ~(i > Len(s))
      BY <1>1, <2>3
    <3>2. IsTurn(s, i, h) /\ (Turn(s, i, h).next = i => Waits(s, i))
      BY <3>1, TurnGoesOn
    <3>3. CASE Turn(s, i, h).next = i
      <4> DEFINE q == SubSeq(s, i, n)
      <4>1. f[i][h].rest = q
        BY <1>1, <2>1, <3>1, <3>3 DEF Goes, Ends
      <4>2. Len(q) = n - i + 1 /\ \A j \in 1..(n - i + 1) : q[j] = s[i + j - 1]
        BY <1>1, <3>1
      <4>3. /\ i < n /\ s[i] = "esc" /\ s[i + 1] = "["
            /\ \A j \in (i + 2)..n : s[j] \in BodyChars
            /\ n + 1 - (i + 2) < MaxBody
        BY <3>2, <3>3 DEF Waits
      <4> HIDE DEF q
      <4>4. Len(q) >= 2 /\ q[1] = s[i] /\ q[2] = s[i + 1] /\ Len(q) - 2 < MaxBody
        BY <1>1, <3>1, <4>2, <4>3, Win32InputAssumption
      <4>5. ASSUME NEW j \in 3..Len(q) PROVE q[j] \in BodyChars
        <5>1. j \in 1..(n - i + 1) /\ i + j - 1 \in (i + 2)..n
          BY <1>1, <3>1, <4>2, <4>3
        <5>. QED
          BY <4>2, <4>3, <5>1
      <4>6. Left(q)
        BY <4>3, <4>4, <4>5 DEF Left
      <4>. QED
        BY <4>1, <4>6
    <3>4. CASE Turn(s, i, h).next # i
      <4> DEFINE turn == Turn(s, i, h)
                 later == f[turn.next][turn.high]
      <4>1. f[i][h] = After(turn.text, later)
        BY <1>1, <2>1, <3>1, <3>4 DEF Goes
      <4>2. turn.next \in i..(n + 1) /\ turn.high \in BOOLEAN /\ turn.next # i
        BY <3>2, <3>4 DEF IsTurn
      <4> HIDE DEF turn
      <4>3. turn.next \in (i + 1)..(n + 1)
        BY <1>1, <3>1, <4>2
      <4>4. Left(later.rest)
        BY <1>2, <4>2, <4>3
      <4> HIDE DEF later
      <4>5. After(turn.text, later).rest = later.rest
        BY DEF After
      <4>. QED
        BY <4>1, <4>4, <4>5
    <3>. QED
      BY <3>3, <3>4
  <2>. QED
    BY <2>2, <2>3
<1> HIDE DEF T
<1>3. 1..(n + 1) \subseteq T
  <2>1. n + 1 \in Nat
    BY <1>1
  <2> HIDE DEF n
  <2>. QED
    BY <1>2, <2>1, DownFrom
<1>. QED
  BY <1>3 DEF T

\* Of a read: what it comes to is a result, its rest starts a sequence, and
\* another read goes on from it.
LEMMA FeedGoesOn ==
    ASSUME NEW s \in Seq(Chars), NEW d \in Seq(Chars), NEW h \in BOOLEAN
    PROVE  /\ Feed(s, h) \in Results
           /\ Left(Feed(s, h).rest)
           /\ ~Parts(s, d) =>
                Feed(s \o d, h) =
                  After(Feed(s, h).out, Feed(Feed(s, h).rest \o d, Feed(s, h).high))
<1>1. PICK f : Loops(f, s)
  BY LoopExists
<1>2. 1 \in 1..(Len(s) + 1) /\ s \o d \in Seq(Chars)
  OBVIOUS
<1>3. PICK u : Loops(u, s \o d)
  BY <1>2, LoopExists
<1>4. Feed(s, h) = f[1][h] /\ Feed(s, h) \in Results /\ Feed(s \o d, h) = u[1][h]
  BY <1>1, <1>2, <1>3, FeedIs
<1>5. Left(f[1][h].rest)
  BY <1>1, <1>2, LoopLeaves
<1>6. ASSUME ~Parts(s, d)
      PROVE  u[1][h] = After(f[1][h].out, Feed(f[1][h].rest \o d, f[1][h].high))
  BY <1>1, <1>2, <1>3, <1>6, LoopJoins
<1>. QED
  BY <1>4, <1>5, <1>6

-----------------------------------------------------------------------------
\* The decoder.
DecoderInv ==
    /\ pending \in Seq(Chars) /\ received \in Seq(Chars) /\ output \in Texts
    /\ {high, first, parted} \subseteq BOOLEAN
    /\ Left(pending)
    /\ CutsDoNotMatter

LEMMA DecoderStep ==
    ASSUME DecoderInv, DecoderNext
    PROVE  DecoderInv'
<1>1. PICK n \in 1..MaxRead : \E data \in [1..n -> Chars] : Read(data)
  BY DEF DecoderNext
<1>2. PICK data \in [1..n -> Chars] : Read(data)
  BY <1>1
<1>3. n \in Nat /\ data \in Seq(Chars) /\ data # <<>>
  <2>1. n \in Nat /\ n >= 1
    BY <1>1
  <2>2. data \in Seq(Chars) /\ Len(data) = n
    BY <2>1
  <2>. QED
    BY <2>1, <2>2
<1> DEFINE fed == Feed(pending \o data, high)
           whole == Feed(received, first)
<1>4. /\ pending' = fed.rest /\ high' = fed.high /\ output' = output \o fed.out
      /\ received' = received \o data /\ parted' = (parted \/ Parts(received, data)) /\ first' = first
  BY <1>2 DEF Read
<1>5. /\ pending \in Seq(Chars) /\ received \in Seq(Chars) /\ output \in Texts
      /\ high \in BOOLEAN /\ first \in BOOLEAN /\ parted \in BOOLEAN
  BY DEF DecoderInv
<1>6. pending \o data \in Seq(Chars) /\ received \o data \in Seq(Chars)
  BY <1>3, <1>5
<1>7. fed \in Results /\ Left(fed.rest)
  BY <1>3, <1>5, <1>6, FeedGoesOn
<1>8. /\ fed.rest \in Seq(Chars) /\ fed.high \in BOOLEAN /\ fed.out \in Texts
      /\ output \o fed.out \in Texts
  BY <1>5, <1>7 DEF Results, Texts
<1>9. parted' \in BOOLEAN
  BY <1>4, <1>5 DEF Parts
<1>10. CutsDoNotMatter'
  <2> SUFFICES ASSUME ~parted'
               PROVE  /\ output' = Feed(received', first').out
                      /\ high' = Feed(received', first').high
                      /\ pending' = Feed(received', first').rest
    BY DEF CutsDoNotMatter
  <2>1. ~parted /\ ~Parts(received, data)
    BY <1>4
  <2>2. output = whole.out /\ high = whole.high /\ pending = whole.rest
    BY <2>1 DEF DecoderInv, CutsDoNotMatter
  <2>3. Feed(received \o data, first) = After(whole.out, Feed(whole.rest \o data, whole.high))
    BY <1>3, <1>5, <2>1, FeedGoesOn
  <2> HIDE DEF whole
  <2>4. Feed(received', first') = After(output, fed)
    BY <1>4, <2>2, <2>3
  <2> HIDE DEF fed
  <2>5. /\ After(output, fed).out = output \o fed.out
        /\ After(output, fed).high = fed.high
        /\ After(output, fed).rest = fed.rest
    BY DEF After
  <2>. QED
    BY <1>4, <2>4, <2>5
<1> HIDE DEF fed
<1>. QED
  BY <1>4, <1>5, <1>6, <1>7, <1>8, <1>9, <1>10 DEF DecoderInv

LEMMA DecoderStart == DecoderInit => DecoderInv
<1> SUFFICES ASSUME DecoderInit PROVE DecoderInv
  OBVIOUS
<1>1. <<>> \in Seq(Chars) /\ <<>> \in Texts
  BY DEF Texts
<1>2. PICK f : Loops(f, <<>>)
  BY <1>1, LoopExists
<1>3. high \in BOOLEAN /\ first = high /\ received = <<>> /\ pending = <<>> /\ output = <<>>
      /\ parted = FALSE
  BY DEF DecoderInit
<1>4. Feed(<<>>, high) = f[1][high]
  BY <1>1, <1>2, <1>3, FeedIs
<1>5. f[1][high] = Ends(high, <<>>)
  <2>1. Len(<<>>) = 0 /\ 1 \in 1..(Len(<<>>) + 1) /\ 1 > Len(<<>>)
    OBVIOUS
  <2>. QED
    BY <1>2, <1>3, <2>1 DEF Loops, Goes
<1>6. CutsDoNotMatter
  BY <1>3, <1>4, <1>5 DEF CutsDoNotMatter, Ends
<1>. QED
  BY <1>1, <1>3, <1>6 DEF DecoderInv, Left

\* However the console's input is cut, but between an ESC and its [ and between a
\* body of the greatest length and its _, the shell is sent the same
\* (Win32InputDecoder::feed), for input and bodies of any length.
THEOREM DecodesWhole == DecoderSpec => []CutsDoNotMatter
<1>1. DecoderInv /\ UNCHANGED decoderVars => DecoderInv'
  BY DEF DecoderInv, decoderVars, CutsDoNotMatter
<1>2. DecoderInv => CutsDoNotMatter
  BY DEF DecoderInv
<1>. QED
  BY <1>1, <1>2, DecoderStart, DecoderStep, PTL DEF DecoderSpec

\* Nothing is kept back that starts no sequence (Win32InputDecoder::feed).
THEOREM SequencesWait == DecoderSpec => []OnlySequencesWait
<1>1. DecoderInv /\ UNCHANGED decoderVars => DecoderInv'
  BY DEF DecoderInv, decoderVars, CutsDoNotMatter
<1>2. DecoderInv => OnlySequencesWait
  BY DEF DecoderInv, OnlySequencesWait, Left
<1>. QED
  BY <1>1, <1>2, DecoderStart, DecoderStep, PTL DEF DecoderSpec

-----------------------------------------------------------------------------
\* The output without ConPTY's reports.

\* The semicolon of a report from a to b, between digits.
Divides(s, a, b, m) ==
    /\ m \in Nat /\ a + 2 <= m /\ m <= b - 2
    /\ s[m] = ";"
    /\ \A k \in Nat : a < k /\ k < b /\ k # m => s[k] = "digit"

\* A report, by the positions of its first and its last character.
ReportAt(s, a, b) ==
    /\ a \in Nat /\ b \in Nat /\ 1 <= a /\ b <= Len(s)
    /\ s[a] = "csi8" /\ s[b] = "t"
    /\ \E m : Divides(s, a, b, m)

LEMMA ReportIs ==
    ASSUME NEW s \in Seq(TextChars), NEW a \in 1..Len(s), NEW b \in 1..Len(s)
    PROVE  <<a, b>> \in Reports(s) <=> ReportAt(s, a, b)
<1> DEFINE n == Len(s)
           r == SubSeq(s, a, b)
           l == Len(r)
<1>1. n \in Nat /\ a \in Nat /\ b \in Nat /\ 1 <= a /\ a <= n /\ 1 <= b /\ b <= n
  OBVIOUS
<1>2. <<a, b>> \in Reports(s) <=> b - a >= 4 /\ IsReport(r)
  BY DEF Reports
<1>3. ASSUME b - a >= 4
      PROVE  /\ l = b - a + 1
             /\ \A k \in 1..l : r[k] = s[a + k - 1]
  BY <1>1, <1>3
<1> HIDE DEF r, l
<1>4. ASSUME b - a >= 4, IsReport(r) PROVE ReportAt(s, a, b)
  <2>1. PICK m \in 3..(l - 2) :
          r[m] = ";" /\ \A k \in (2..(l - 1)) \ {m} : r[k] = "digit"
    BY <1>4 DEF IsReport, l
  <2>2. l = b - a + 1 /\ r[1] = "csi8" /\ r[l] = "t"
    BY <1>3, <1>4 DEF IsReport, l
  <2>3. l \in Nat /\ m \in Nat /\ 3 <= m /\ m <= l - 2
    <3>1. l = b - a + 1 /\ b - a >= 4
      BY <1>4, <2>2
    <3>2. l \in Nat
      BY <1>1, <3>1
    <3>. QED
      BY <3>2
  <2>4. s[a] = "csi8" /\ s[b] = "t"
    <3>1. 1 \in 1..l /\ l \in 1..l /\ a + 1 - 1 = a /\ a + l - 1 = b
      BY <1>1, <2>2, <2>3
    <3>. QED
      BY <1>3, <1>4, <2>2, <3>1
  <2> DEFINE p == a + m - 1
  <2>5. p \in Nat /\ a + 2 <= p /\ p <= b - 2 /\ m \in 1..l
    BY <1>1, <2>2, <2>3
  <2>6. s[p] = ";"
    BY <1>3, <1>4, <2>1, <2>5
  <2>7. ASSUME NEW k \in Nat, a < k, k < b, k # p PROVE s[k] = "digit"
    <3> DEFINE j == k - a + 1
    <3>1. j \in 2..(l - 1) /\ j # m /\ j \in 1..l /\ a + j - 1 = k
      BY <1>1, <2>2, <2>3, <2>7
    <3> HIDE DEF j
    <3>2. r[j] = "digit" /\ r[j] = s[a + j - 1]
      BY <1>3, <1>4, <2>1, <3>1
    <3>. QED
      BY <3>1, <3>2
  <2> HIDE DEF p
  <2>8. Divides(s, a, b, p)
    BY <2>5, <2>6, <2>7 DEF Divides
  <2>. QED
    BY <1>1, <2>4, <2>8 DEF ReportAt, n
<1>5. ASSUME ReportAt(s, a, b) PROVE b - a >= 4 /\ IsReport(r)
  <2>1. PICK p : Divides(s, a, b, p)
    BY <1>5 DEF ReportAt
  <2>2. s[p] = ";" /\ \A k \in Nat : a < k /\ k < b /\ k # p => s[k] = "digit"
    BY <2>1 DEF Divides
  <2>3. p \in Nat /\ a + 2 <= p /\ p <= b - 2
    BY <2>1 DEF Divides
  <2>4. s[a] = "csi8" /\ s[b] = "t"
    BY <1>5 DEF ReportAt
  <2>5. b - a >= 4
    BY <1>1, <2>3
  <2>6. l = b - a + 1 /\ \A k \in 1..l : r[k] = s[a + k - 1]
    BY <1>3, <2>5
  <2>7. l = b - a + 1 /\ l \in Nat /\ l >= 5
    <3>1. l = b - a + 1
      BY <2>6
    <3>. QED
      BY <1>1, <2>5, <3>1
  <2>8. r[1] = "csi8" /\ r[l] = "t" /\ l >= 5 /\ l \in Nat
    <3>1. 1 \in 1..l /\ l \in 1..l /\ a + 1 - 1 = a /\ a + l - 1 = b
      BY <1>1, <2>7
    <3>. QED
      BY <2>4, <2>6, <2>7, <3>1
  <2> DEFINE m == p - a + 1
  <2>9. m \in 3..(l - 2) /\ m \in 1..l /\ a + m - 1 = p
    BY <1>1, <2>3, <2>7
  <2>10. ASSUME NEW k \in (2..(l - 1)) \ {m} PROVE r[k] = "digit"
    <3> DEFINE j == a + k - 1
    <3>1. k \in 1..l /\ j \in Nat /\ a < j /\ j < b /\ j # p
      BY <1>1, <2>3, <2>7
    <3>2. r[k] = s[j]
      BY <2>6, <3>1
    <3> HIDE DEF j
    <3>. QED
      BY <2>2, <3>1, <3>2
  <2> HIDE DEF m
  <2>11. r[m] = ";"
    BY <2>2, <2>6, <2>9
  <2>. QED
    BY <2>5, <2>8, <2>9, <2>10, <2>11 DEF IsReport, l
<1>. QED
  BY <1>2, <1>4, <1>5

\* What is inside of a report, and where it ends.
LEMMA ReportHas ==
    ASSUME NEW s, NEW a, NEW b, ReportAt(s, a, b)
    PROVE  /\ a \in Nat /\ b \in Nat /\ 1 <= a /\ a + 4 <= b /\ b <= Len(s)
           /\ s[a] = "csi8" /\ s[b] = "t"
           /\ \A k \in Nat : a < k /\ k < b => s[k] \in {"digit", ";"}
<1>1. PICK m : Divides(s, a, b, m)
  BY DEF ReportAt
<1>2. a \in Nat /\ b \in Nat /\ 1 <= a /\ b <= Len(s) /\ s[a] = "csi8" /\ s[b] = "t"
  BY DEF ReportAt
<1>3. m \in Nat /\ a + 2 <= m /\ m <= b - 2
  BY <1>1 DEF Divides
<1>4. a \in Nat /\ b \in Nat
  BY <1>2
<1>5. a + 4 <= b
  BY <1>3, <1>4
<1>6. \A k \in Nat : a < k /\ k < b => s[k] \in {"digit", ";"}
  BY <1>1 DEF Divides
<1>. QED
  BY <1>2, <1>5, <1>6

\* Two reports have no character in common.
LEMMA ReportsApart ==
    ASSUME NEW s, NEW a, NEW b, NEW c, NEW d,
           ReportAt(s, a, b), ReportAt(s, c, d), a <= c, c <= b
    PROVE  a = c /\ b = d
<1>1. a \in Nat /\ b \in Nat /\ c \in Nat /\ d \in Nat /\ a + 4 <= b /\ c + 4 <= d
  BY ReportHas
<1>2. /\ s[b] = "t" /\ s[c] = "csi8" /\ s[d] = "t"
      /\ \A k \in Nat : a < k /\ k < b => s[k] \in {"digit", ";"}
      /\ \A k \in Nat : c < k /\ k < d => s[k] \in {"digit", ";"}
  BY ReportHas
<1>3. a = c
  <2> SUFFICES ASSUME a # c PROVE FALSE
    OBVIOUS
  <2>1. c = b \/ (a < c /\ c < b)
    BY <1>1
  <2>. QED
    BY <1>1, <1>2, <2>1
<1>4. b = d
  <2> SUFFICES ASSUME b # d PROVE FALSE
    OBVIOUS
  <2>1. (c < b /\ b < d) \/ (a < d /\ d < b)
    BY <1>1, <1>3
  <2>. QED
    BY <1>1, <1>2, <2>1
<1>. QED
  BY <1>3, <1>4

\* What AfterDigits chooses.
Digits(s, i, j) ==
    /\ j \in i..(Len(s) + 1)
    /\ \A k \in i..(j - 1) : s[k] = "digit"
    /\ j > Len(s) \/ s[j] # "digit"

LEMMA AfterDigitsIs ==
    ASSUME NEW s \in Seq(TextChars), NEW i \in 1..(Len(s) + 1)
    PROVE  /\ Digits(s, i, AfterDigits(s, i))
           /\ \A j : Digits(s, i, j) => j = AfterDigits(s, i)
<1> DEFINE n == Len(s)
           Stops == {j \in i..(n + 1) : j > n \/ s[j] # "digit"}
<1>1. n \in Nat /\ i \in Nat /\ i <= n + 1
  OBVIOUS
<1> HIDE DEF n
<1>2. n + 1 \in Stops /\ Stops \in SUBSET Nat
  BY <1>1
<1>3. PICK e \in Stops : \A k \in Stops : e <= k
  BY <1>2, LeastNatural
<1>4. \A k \in i..(e - 1) : s[k] = "digit"
  <2> SUFFICES ASSUME NEW k \in i..(e - 1), s[k] # "digit" PROVE FALSE
    OBVIOUS
  <2>1. k \in Stops /\ k < e
    BY <1>1
  <2>. QED
    BY <1>1, <1>3, <2>1
<1>5. Digits(s, i, e)
  BY <1>3, <1>4 DEF Digits, n
<1>6. ASSUME NEW x, NEW y, Digits(s, i, x), Digits(s, i, y), x < y PROVE FALSE
  <2>1. /\ x \in i..(n + 1) /\ y \in i..(n + 1)
        /\ \A j \in i..(y - 1) : s[j] = "digit"
        /\ x > n \/ s[x] # "digit"
    BY <1>6 DEF Digits, n
  <2>. QED
    BY <1>1, <1>6, <2>1
<1>7. \A x, y : Digits(s, i, x) /\ Digits(s, i, y) => x = y
  <2> SUFFICES ASSUME NEW x, NEW y, Digits(s, i, x), Digits(s, i, y), x # y PROVE FALSE
    OBVIOUS
  <2>1. x \in Int /\ y \in Int
    BY <1>1 DEF Digits
  <2>2. x < y \/ y < x
    BY <2>1
  <2>. QED
    BY <1>6, <2>2
<1>8. Digits(s, i, AfterDigits(s, i))
  BY <1>5 DEF Digits, AfterDigits
<1>. QED
  BY <1>7, <1>8

\* Behind the report that starts at i, or i if none does.
Behind(s, i, x) ==
    \/ x = i /\ \A b : ~ReportAt(s, i, b)
    \/ x \in Nat /\ i < x /\ ReportAt(s, i, x - 1)

LEMMA AfterReportIs ==
    ASSUME NEW s \in Seq(TextChars), NEW i \in 1..Len(s)
    PROVE  /\ Behind(s, i, AfterReport(s, i))
           /\ \A x : Behind(s, i, x) => x = AfterReport(s, i)
<1> DEFINE n == Len(s)
           rows == AfterDigits(s, i + 1)
           cols == AfterDigits(s, rows + 1)
           Whole == /\ HasAt(s, i, "csi8")
                    /\ rows > i + 1 /\ HasAt(s, rows, ";")
                    /\ cols > rows + 1 /\ HasAt(s, cols, "t")
<1>1. AfterReport(s, i) = IF Whole THEN cols + 1 ELSE i
  BY DEF AfterReport
<1>2. n \in Nat /\ i \in Nat /\ 1 <= i /\ i <= n /\ i + 1 \in 1..(n + 1)
  OBVIOUS
<1>3. Digits(s, i + 1, rows) /\ \A j : Digits(s, i + 1, j) => j = rows
  BY <1>2, AfterDigitsIs
<1> HIDE DEF rows
<1>4. ASSUME rows \in Nat, rows <= n
      PROVE  Digits(s, rows + 1, cols) /\ \A j : Digits(s, rows + 1, j) => j = cols
  <2>1. rows + 1 \in 1..(n + 1)
    BY <1>2, <1>4
  <2>. QED
    BY <2>1, AfterDigitsIs
<1> HIDE DEF cols, n
<1>5. rows \in Nat /\ i + 1 <= rows
  BY <1>2, <1>3 DEF Digits
<1>6. ASSUME Whole PROVE cols \in Nat /\ i < cols /\ ReportAt(s, i, cols)
  <2>1. s[rows] = ";" /\ s[i] = "csi8" /\ s[cols] = "t"
    BY <1>6 DEF HasAt
  <2>2. rows > i + 1 /\ rows <= n /\ cols > rows + 1 /\ cols <= n
    BY <1>6 DEF HasAt, n
  <2>3. Digits(s, rows + 1, cols)
    BY <1>4, <1>5, <2>2
  <2>4. cols \in Nat
    BY <1>5, <2>3 DEF Digits
  <2>5. i + 2 <= rows /\ rows <= cols - 2 /\ i < cols
    BY <1>2, <1>5, <2>2, <2>4
  <2>6. ASSUME NEW k \in Nat, i < k, k < cols, k # rows PROVE s[k] = "digit"
    <3>1. k \in (i + 1)..(rows - 1) \/ k \in (rows + 1)..(cols - 1)
      BY <1>2, <1>5, <2>4, <2>6
    <3>. QED
      BY <1>3, <2>3, <3>1 DEF Digits
  <2>7. Divides(s, i, cols, rows)
    BY <1>5, <2>1, <2>5, <2>6 DEF Divides
  <2>. QED
    BY <1>2, <2>1, <2>2, <2>4, <2>5, <2>7 DEF ReportAt, n
<1>7. ASSUME NEW b, ReportAt(s, i, b) PROVE Whole /\ b = cols /\ b \in Nat /\ i < b
  <2>1. s[i] = "csi8" /\ s[b] = "t"
    BY <1>7, ReportHas
  <2>2. b \in Nat /\ i + 4 <= b /\ b <= n
    BY <1>7, ReportHas DEF n
  <2>3. PICK m : Divides(s, i, b, m)
    BY <1>7 DEF ReportAt
  <2>4. s[m] = ";"
    BY <2>3 DEF Divides
  <2>5. m \in Nat /\ i + 2 <= m /\ m <= b - 2
    BY <2>3 DEF Divides
  <2>6. m \in (i + 1)..(n + 1) /\ m <= n
    BY <1>2, <2>2, <2>5
  <2>7. ASSUME NEW k \in (i + 1)..(m - 1) PROVE s[k] = "digit"
    <3>1. k \in Nat /\ i < k /\ k < b /\ k # m
      BY <1>2, <2>2, <2>5
    <3>. QED
      BY <2>3, <3>1 DEF Divides
  <2>8. m = rows
    <3>1. Digits(s, i + 1, m)
      BY <2>6, <2>7, <2>4 DEF Digits, n
    <3>. QED
      BY <1>3, <3>1
  <2>9. ASSUME NEW k \in (m + 1)..(b - 1) PROVE s[k] = "digit"
    <3>1. k \in Nat /\ i < k /\ k < b /\ k # m
      BY <1>2, <2>2, <2>5
    <3>. QED
      BY <2>3, <3>1 DEF Divides
  <2>10. b \in (m + 1)..(n + 1)
    BY <1>2, <2>2, <2>5
  <2>11. b = cols
    <3>1. Digits(s, m + 1, b)
      BY <2>1, <2>9, <2>10 DEF Digits, n
    <3>. QED
      BY <1>4, <1>5, <2>6, <2>8, <3>1
  <2>12. i <= n /\ m > i + 1 /\ b > m + 1
    BY <1>2, <2>2, <2>5
  <2>13. Whole
    BY <2>1, <2>2, <2>6, <2>8, <2>11, <2>12, <2>4 DEF HasAt, n
  <2>14. i < b
    BY <1>2, <2>2
  <2>. QED
    BY <2>2, <2>11, <2>13, <2>14
<1>8. CASE Whole
  <2>1. cols \in Nat /\ i < cols /\ ReportAt(s, i, cols) /\ AfterReport(s, i) = cols + 1
    BY <1>1, <1>6, <1>8
  <2> HIDE DEF Whole
  <2>2. cols + 1 \in Nat /\ i < cols + 1 /\ (cols + 1) - 1 = cols
    BY <1>2, <2>1
  <2>3. Behind(s, i, cols + 1)
    BY <2>1, <2>2 DEF Behind
  <2>4. ASSUME NEW x, Behind(s, i, x) PROVE x = cols + 1
    <3>1. x \in Nat /\ ReportAt(s, i, x - 1)
      BY <2>1, <2>4 DEF Behind
    <3>2. x - 1 = cols
      BY <1>7, <3>1
    <3>. QED
      BY <2>1, <3>1, <3>2
  <2>. QED
    BY <2>1, <2>3, <2>4
<1>9. CASE ~Whole
  <2>1. AfterReport(s, i) = i /\ \A b : ~ReportAt(s, i, b)
    BY <1>1, <1>7, <1>9
  <2>. QED
    BY <2>1 DEF Behind
<1>. QED
  BY <1>8, <1>9

LEMMA NextIs ==
    ASSUME NEW s \in Seq(TextChars), NEW i \in 1..Len(s)
    PROVE  AfterReport(s, i) \in i..(Len(s) + 1)
<1> DEFINE x == AfterReport(s, i)
           n == Len(s)
<1>1. Behind(s, i, x)
  BY AfterReportIs
<1>2. n \in Nat /\ i \in Nat /\ i <= n
  OBVIOUS
<1> HIDE DEF x
<1>3. CASE x = i
  <2> HIDE DEF n
  <2>. QED
    BY <1>2, <1>3 DEF x
<1>4. CASE x \in Nat /\ i < x /\ ReportAt(s, i, x - 1)
  <2>1. x - 1 <= n
    BY <1>4, ReportHas
  <2>2. x \in Nat /\ i < x
    BY <1>4
  <2> HIDE DEF n
  <2>3. x \in i..(n + 1)
    BY <1>2, <2>1, <2>2
  <2>. QED
    BY <2>3 DEF n, x
<1>. QED
  BY <1>1, <1>3, <1>4 DEF Behind

\* What strip_resize_reports keeps from the i-th character on, of what it keeps
\* from any later one on.
Rest(s, i, f) ==
    IF i > Len(s) THEN <<>>
    ELSE IF AfterReport(s, i) > i THEN f[AfterReport(s, i)]
    ELSE <<s[i]>> \o f[i + 1]

Strips(f, s) ==
    /\ f \in [1..(Len(s) + 1) -> Seq(TextChars)]
    /\ \A i \in 1..(Len(s) + 1) : f[i] = Rest(s, i, f)

LEMMA RestIs ==
    ASSUME NEW s \in Seq(TextChars), NEW i \in 1..(Len(s) + 1),
           NEW f \in [1..(Len(s) + 1) -> Seq(TextChars)]
    PROVE  Rest(s, i, f) \in Seq(TextChars)
<1>1. CASE i > Len(s)
  BY <1>1 DEF Rest
<1>2. CASE ~(i > Len(s))
  <2>1. i \in 1..Len(s)
    BY <1>2
  <2>2. AfterReport(s, i) \in 1..(Len(s) + 1) /\ i + 1 \in 1..(Len(s) + 1)
    BY <2>1, NextIs
  <2>3. f[AfterReport(s, i)] \in Seq(TextChars) /\ f[i + 1] \in Seq(TextChars)
    BY <2>2
  <2>4. <<s[i]>> \in Seq(TextChars)
    BY <2>1
  <2>5. <<s[i]>> \o f[i + 1] \in Seq(TextChars)
    BY <2>3, <2>4
  <2>. QED
    BY <1>2, <2>3, <2>5 DEF Rest
<1>. QED
  BY <1>1, <1>2

LEMMA RestAlike ==
    ASSUME NEW s \in Seq(TextChars), NEW i \in 1..(Len(s) + 1), NEW f, NEW g,
           \A j \in (i + 1)..(Len(s) + 1) : f[j] = g[j]
    PROVE  Rest(s, i, f) = Rest(s, i, g)
<1>1. CASE i > Len(s)
  BY <1>1 DEF Rest
<1>2. CASE ~(i > Len(s))
  <2>1. i \in 1..Len(s)
    BY <1>2
  <2> DEFINE x == AfterReport(s, i)
  <2>2. x \in i..(Len(s) + 1)
    BY <2>1, NextIs
  <2> HIDE DEF x
  <2>3. x > i => f[x] = g[x]
    BY <2>1, <2>2
  <2>4. f[i + 1] = g[i + 1]
    BY <2>1
  <2>. QED
    BY <1>2, <2>3, <2>4 DEF Rest, x
<1>. QED
  BY <1>1, <1>2

LEMMA StripsExists ==
    ASSUME NEW s \in Seq(TextChars)
    PROVE  \E f : Strips(f, s)
<1> DEFINE N == Len(s) + 1
           D == Seq(TextChars)
           body == [i \in 1..N |-> [f \in [1..N -> D] |-> Rest(s, i, f)]]
<1>1. N \in Nat
  OBVIOUS
<1>2. \A i \in 1..N : \A f \in [1..N -> D] : Rest(s, i, f) \in D
  BY RestIs
<1>3. body \in [1..N -> [[1..N -> D] -> D]]
  BY <1>2
<1>4. LooksOn(body, N, D)
  <2> SUFFICES ASSUME NEW i \in 1..N, NEW f \in [1..N -> D], NEW g \in [1..N -> D],
                      \A j \in (i + 1)..N : f[j] = g[j]
               PROVE  body[i][f] = body[i][g]
    BY DEF LooksOn
  <2>1. Rest(s, i, f) = Rest(s, i, g)
    BY RestAlike
  <2> HIDE DEF N, D
  <2>. QED
    BY <2>1
<1>5. \E f0 : f0 \in [1..N -> D]
  <2>1. <<>> \in D
    OBVIOUS
  <2> HIDE DEF N, D
  <2>2. [i \in 1..N |-> <<>>] \in [1..N -> D]
    BY <2>1
  <2>. QED
    BY <2>2
<1>6. PICK f : f \in Descents(N, D, body)
  <2> HIDE DEF N, D, body
  <2>. QED
    BY <1>1, <1>3, <1>4, <1>5, DescentExists
<1>7. f \in [1..N -> D] /\ \A i \in 1..N : f[i] = body[i][f]
  <2> HIDE DEF body
  <2>. QED
    BY <1>6 DEF Descents
<1>8. \A i \in 1..N : f[i] = Rest(s, i, f)
  BY <1>7
<1>. QED
  BY <1>7, <1>8 DEF Strips

\* The loop computes what any such function holds at the first character.
LEMMA StripIs ==
    ASSUME NEW s \in Seq(TextChars), NEW f, Strips(f, s)
    PROVE  Strip(s) = f[1] /\ Strip(s) \in Seq(TextChars)
<1> DEFINE N == Len(s) + 1
           from[i \in 1..N] ==
             IF i > Len(s) THEN <<>>
             ELSE LET next == AfterReport(s, i)
                  IN  IF next > i THEN from[next] ELSE <<s[i]>> \o from[i + 1]
           Is(l) == l = [i \in 1..N |-> Rest(s, i, l)]
<1>1. Strip(s) = from[1]
  BY DEF Strip
<1>2. Is(f)
  <2>1. f \in [1..N -> Seq(TextChars)] /\ \A i \in 1..N : f[i] = Rest(s, i, f)
    BY DEF Strips
  <2> HIDE DEF N
  <2>. QED
    BY <2>1
<1>3. Is(from)
  BY <1>2 DEF Rest
<1> HIDE DEF from
<1> DEFINE T == {i \in 1..N : from[i] = f[i]}
<1>4. \A i \in 1..N : from[i] = Rest(s, i, from) /\ f[i] = Rest(s, i, f)
  BY <1>2, <1>3
<1>5. ASSUME NEW i \in 1..N, \A j \in (i + 1)..N : j \in T PROVE i \in T
  <2>1. \A j \in (i + 1)..N : from[j] = f[j]
    BY <1>5
  <2>2. Rest(s, i, from) = Rest(s, i, f)
    BY <2>1, RestAlike
  <2>. QED
    BY <1>4, <2>2
<1>6. 1..N \subseteq T
  <2>1. N \in Nat
    OBVIOUS
  <2> HIDE DEF N, T
  <2>. QED
    BY <1>5, <2>1, DownFrom
<1>7. 1 \in 1..N /\ f[1] \in Seq(TextChars)
  BY DEF Strips
<1>. QED
  BY <1>1, <1>6, <1>7

\* What Without keeps of the first characters.
Stays(s, i) == \A a, b : ReportAt(s, a, b) => ~(a <= i /\ i <= b)

Keeps(g, s) ==
    /\ g \in [0..Len(s) -> Seq(TextChars)]
    /\ g[0] = <<>>
    /\ \A i \in 1..Len(s) :
         g[i] = IF Stays(s, i) THEN Append(g[i - 1], s[i]) ELSE g[i - 1]

LEMMA StaysIs ==
    ASSUME NEW s \in Seq(TextChars), NEW i \in 1..Len(s)
    PROVE  (\A r \in Reports(s) : i \notin r[1]..r[2]) <=> Stays(s, i)
<1>1. ASSUME \A r \in Reports(s) : i \notin r[1]..r[2],
             NEW a, NEW b, ReportAt(s, a, b), a <= i, i <= b
      PROVE  FALSE
  <2>1. a \in Nat /\ b \in Nat /\ 1 <= a /\ a + 4 <= b /\ b <= Len(s)
    BY <1>1, ReportHas
  <2>2. a \in 1..Len(s) /\ b \in 1..Len(s) /\ i \in a..b
    BY <1>1, <2>1
  <2>3. <<a, b>> \in Reports(s)
    BY <1>1, <2>2, ReportIs
  <2> HIDE DEF Reports
  <2>4. <<a, b>>[1] = a /\ <<a, b>>[2] = b
    OBVIOUS
  <2>5. i \notin <<a, b>>[1]..<<a, b>>[2]
    BY <1>1, <2>3
  <2>. QED
    BY <2>2, <2>4, <2>5
<1>2. ASSUME Stays(s, i), NEW r \in Reports(s), i \in r[1]..r[2]
      PROVE  FALSE
  <2>1. PICK a \in 1..Len(s), b \in 1..Len(s) : r = <<a, b>>
    BY DEF Reports
  <2>2. ReportAt(s, a, b)
    BY <2>1, ReportIs
  <2>3. r[1] = a /\ r[2] = b
    BY <2>1
  <2>4. a <= i /\ i <= b
    BY <1>2, <2>1, <2>3
  <2>. QED
    BY <1>2, <2>2, <2>4 DEF Stays
<1>. QED
  BY <1>1, <1>2 DEF Stays

LEMMA KeepsExists ==
    ASSUME NEW s \in Seq(TextChars)
    PROVE  \E g : Keeps(g, s)
<1> DEFINE N == Len(s)
           D == Seq(TextChars)
           step == [i \in 1..N |-> [x \in D |-> IF Stays(s, i) THEN Append(x, s[i]) ELSE x]]
<1>1. N \in Nat /\ <<>> \in D
  OBVIOUS
<1>2. \A i \in 1..N : \A x \in D : Append(x, s[i]) \in D
  BY AppendProperties
<1> HIDE DEF D
<1>3. step \in [1..N -> [D -> D]]
  BY <1>2
<1>4. PICK g : g \in Recursions(N, D, <<>>, step)
  <2> HIDE DEF N, step
  <2>. QED
    BY <1>1, <1>3, RecursionExists
<1>5. g \in [0..N -> D] /\ g[0] = <<>> /\ \A i \in 1..N : g[i] = step[i][g[i - 1]]
  <2> HIDE DEF N, step
  <2>. QED
    BY <1>4 DEF Recursions
<1>6. ASSUME NEW i \in 1..N
      PROVE  g[i] = IF Stays(s, i) THEN Append(g[i - 1], s[i]) ELSE g[i - 1]
  <2>1. g[i - 1] \in D
    BY <1>1, <1>5
  <2>. QED
    BY <1>5, <2>1
<1>. QED
  BY <1>5, <1>6 DEF Keeps, D

LEMMA WithoutIs ==
    ASSUME NEW s \in Seq(TextChars), NEW g, Keeps(g, s)
    PROVE  Without(s) = g[Len(s)]
<1> DEFINE N == Len(s)
           reports == Reports(s)
           keep(i) == \A r \in reports : i \notin r[1]..r[2]
           kept[i \in 0..N] ==
             IF i = 0 THEN <<>>
             ELSE IF keep(i) THEN Append(kept[i - 1], s[i]) ELSE kept[i - 1]
           NextKept(l, i) ==
             IF i = 0 THEN <<>>
             ELSE IF keep(i) THEN Append(l[i - 1], s[i]) ELSE l[i - 1]
           Is(l) == l = [i \in 0..N |-> NextKept(l, i)]
<1>1. Without(s) = kept[N]
  BY DEF Without
<1>2. N \in Nat
  OBVIOUS
<1>3. g \in [0..N -> Seq(TextChars)] /\ g[0] = <<>>
      /\ \A i \in 1..N : g[i] = IF Stays(s, i) THEN Append(g[i - 1], s[i]) ELSE g[i - 1]
  BY DEF Keeps
<1>4. \A i \in 1..N : keep(i) <=> Stays(s, i)
  BY StaysIs
<1> HIDE DEF keep
<1>5. ASSUME NEW i \in 0..N PROVE g[i] = NextKept(g, i)
  <2>1. CASE i = 0
    BY <1>3, <2>1
  <2>2. CASE i # 0
    <3>1. i \in 1..N
      BY <1>2, <2>2
    <3>. QED
      BY <1>3, <1>4, <2>2, <3>1
  <2>. QED
    BY <2>1, <2>2
<1>6. Is(g)
  <2> HIDE DEF NextKept, N
  <2>. QED
    BY <1>3, <1>5
<1>7. Is(kept)
  BY <1>6
<1> HIDE DEF kept
<1>8. \A i \in 0..N : kept[i] = NextKept(kept, i)
  <2> HIDE DEF NextKept
  <2>. QED
    BY <1>7
<1> DEFINE T == {i \in 0..N : kept[i] = g[i]}
<1>9. 0 \in T
  BY <1>2, <1>3, <1>8
<1>10. ASSUME NEW i \in 1..N, i - 1 \in T PROVE i \in T
  <2>1. i \in 0..N /\ kept[i - 1] = g[i - 1] /\ i # 0
    BY <1>2, <1>10
  <2>2. NextKept(kept, i) = NextKept(g, i)
    BY <2>1
  <2>. QED
    BY <1>5, <1>8, <2>1, <2>2
<1>11. 0..N \subseteq T
  <2> HIDE DEF N, T
  <2>. QED
    BY <1>2, <1>9, <1>10, UpTo
<1>. QED
  BY <1>1, <1>2, <1>11

LEMMA Regroup ==
    \A a, b, c \in Seq(TextChars) : (a \o b) \o c = a \o (b \o c)
BY ConcatAssociative

\* Behind the first character of a report.
Inside(s, i) == \E a, b : ReportAt(s, a, b) /\ a < i /\ i <= b

\* The loop goes on behind a report, or at the next character if none starts here;
\* neither is inside of a report.
LEMMA GoesOn ==
    ASSUME NEW s \in Seq(TextChars), NEW i \in 1..Len(s), ~Inside(s, i),
           NEW x, x = AfterReport(s, i)
    PROVE  /\ x > i => /\ x \in (i + 1)..(Len(s) + 1) /\ ~Inside(s, x)
                       /\ \A k \in i..(x - 1) : ~Stays(s, k)
           /\ ~(x > i) => /\ Stays(s, i) /\ ~Inside(s, i + 1)
<1>1. Behind(s, i, x) /\ x \in i..(Len(s) + 1)
  BY AfterReportIs, NextIs
<1>2. i \in Nat /\ x \in Nat
  BY <1>1
<1>3. ASSUME x > i
      PROVE  /\ x \in (i + 1)..(Len(s) + 1) /\ ~Inside(s, x)
             /\ \A k \in i..(x - 1) : ~Stays(s, k)
  <2>1. ReportAt(s, i, x - 1)
    BY <1>1, <1>2, <1>3 DEF Behind
  <2>2. ASSUME NEW a, NEW b, ReportAt(s, a, b), a < x, x <= b PROVE FALSE
    <3>1. a \in Nat /\ b \in Nat
      BY <2>2, ReportHas
    <3>2. CASE a <= i
      <4>1. i <= b
        BY <1>2, <1>3, <2>2, <3>1
      <4>2. b = x - 1
        BY <2>1, <2>2, <3>2, <4>1, ReportsApart
      <4>. QED
        BY <1>2, <2>2, <3>1, <4>2
    <3>3. CASE i <= a
      <4>1. a <= x - 1
        BY <1>2, <2>2, <3>1
      <4>2. b = x - 1
        BY <2>1, <2>2, <3>3, <4>1, ReportsApart
      <4>. QED
        BY <1>2, <2>2, <3>1, <4>2
    <3>. QED
      BY <1>2, <3>1, <3>2, <3>3
  <2>3. ASSUME NEW k \in i..(x - 1) PROVE ~Stays(s, k)
    <3>1. i <= k /\ k <= x - 1
      BY <1>2
    <3>. QED
      BY <2>1, <3>1 DEF Stays
  <2>4. x \in (i + 1)..(Len(s) + 1)
    BY <1>1, <1>2, <1>3
  <2>. QED
    BY <2>2, <2>3, <2>4 DEF Inside
<1>4. ASSUME ~(x > i) PROVE Stays(s, i) /\ ~Inside(s, i + 1)
  <2>1. \A b : ~ReportAt(s, i, b)
    BY <1>1, <1>2, <1>4 DEF Behind
  <2>2. ASSUME NEW a, NEW b, ReportAt(s, a, b), a <= i, i <= b PROVE FALSE
    <3>1. a \in Nat /\ b \in Nat
      BY <2>2, ReportHas
    <3>2. a # i
      BY <2>1, <2>2
    <3>3. a < i
      BY <1>2, <2>2, <3>1, <3>2
    <3>. QED
      BY <2>2, <3>3 DEF Inside
  <2>3. ASSUME NEW a, NEW b, ReportAt(s, a, b), a < i + 1, i + 1 <= b PROVE FALSE
    <3>1. a \in Nat /\ b \in Nat
      BY <2>3, ReportHas
    <3>2. a <= i /\ i <= b
      BY <1>2, <2>3, <3>1
    <3>. QED
      BY <2>2, <2>3, <3>2
  <2>. QED
    BY <2>2, <2>3 DEF Stays, Inside
<1>. QED
  BY <1>3, <1>4

\* Exactly the reports are taken out of one read.
LEMMA StripsReports ==
    ASSUME NEW s \in Seq(TextChars)
    PROVE  Strip(s) = Without(s)
<1> DEFINE n == Len(s)
<1>1. PICK f : Strips(f, s)
  BY StripsExists
<1>2. PICK g : Keeps(g, s)
  BY KeepsExists
<1>3. n \in Nat
  OBVIOUS
<1>4. f \in [1..(n + 1) -> Seq(TextChars)] /\ \A i \in 1..(n + 1) : f[i] = Rest(s, i, f)
  BY <1>1 DEF Strips
<1>5. /\ g \in [0..n -> Seq(TextChars)] /\ g[0] = <<>>
      /\ \A i \in 1..n :
           g[i] = IF Stays(s, i) THEN Append(g[i - 1], s[i]) ELSE g[i - 1]
  BY <1>2 DEF Keeps
<1> DEFINE Joins(i) == ~Inside(s, i) => g[n] = g[i - 1] \o f[i]
           T == {i \in 1..(n + 1) : Joins(i)}
<1>6. n + 1 \in T
  <2>1. n + 1 \in 1..(n + 1) /\ n + 1 > Len(s) /\ (n + 1) - 1 = n /\ n \in 0..n
    BY <1>3
  <2>2. f[n + 1] = <<>>
    BY <1>4, <2>1 DEF Rest
  <2>3. g[n] \in Seq(TextChars)
    BY <1>5, <2>1
  <2>4. g[n] \o <<>> = g[n]
    BY <2>3
  <2> HIDE DEF n
  <2>5. Joins(n + 1)
    BY <2>1, <2>2, <2>4
  <2>. QED
    BY <2>1, <2>5
<1>7. ASSUME NEW i \in 1..n, \A j \in (i + 1)..(n + 1) : j \in T PROVE i \in T
  <2>1. i \in 1..(n + 1)
    BY <1>3
  <2> SUFFICES ASSUME ~Inside(s, i) PROVE g[n] = g[i - 1] \o f[i]
    BY <2>1
  <2> DEFINE x == AfterReport(s, i)
  <2>2. /\ x > i => /\ x \in (i + 1)..(n + 1) /\ ~Inside(s, x)
                    /\ \A k \in i..(x - 1) : ~Stays(s, k)
        /\ ~(x > i) => /\ Stays(s, i) /\ ~Inside(s, i + 1)
    BY GoesOn
  <2>3. f[i] = IF x > i THEN f[x] ELSE <<s[i]>> \o f[i + 1]
    <3>1. i \in 1..(n + 1) /\ ~(i > Len(s))
      BY <1>3
    <3>. QED
      BY <1>4, <3>1 DEF Rest
  <2> HIDE DEF x
  <2>4. CASE x > i
    <3>1. x \in T /\ x \in (i + 1)..(n + 1)
      BY <1>7, <2>2, <2>4
    <3>2. g[n] = g[x - 1] \o f[x]
      BY <2>2, <2>4, <3>1
    <3>3. g[x - 1] = g[i - 1]
      <4> DEFINE m == x - i
                 L == {k \in 0..m : g[(i - 1) + k] = g[i - 1]}
      <4>1. m \in Nat /\ (i - 1) + m = x - 1 /\ (i - 1) + 0 = i - 1
        BY <1>3, <3>1
      <4>2. 0 \in L
        BY <4>1
      <4>3. ASSUME NEW k \in 1..m, k - 1 \in L PROVE k \in L
        <5> DEFINE q == (i - 1) + k
        <5>1. q \in 1..n /\ q \in i..(x - 1) /\ q - 1 = (i - 1) + (k - 1) /\ k \in 0..m
          BY <1>3, <3>1, <4>1
        <5>2. g[(i - 1) + (k - 1)] = g[i - 1]
          BY <4>3
        <5> HIDE DEF q
        <5>3. g[q] = g[q - 1]
          BY <1>5, <2>2, <2>4, <5>1
        <5>. QED
          BY <5>1, <5>2, <5>3 DEF q
      <4>4. 0..m \subseteq L
        <5> HIDE DEF m, L
        <5>. QED
          BY <4>1, <4>2, <4>3, UpTo
      <4>5. m \in 0..m
        BY <4>1
      <4>. QED
        BY <4>1, <4>4, <4>5
    <3>. QED
      BY <2>3, <2>4, <3>2, <3>3
  <2>5. CASE ~(x > i)
    <3>1. i + 1 \in 1..(n + 1) /\ (i + 1) - 1 = i /\ i - 1 \in 0..n
          /\ i + 1 \in (i + 1)..(n + 1)
      BY <1>3
    <3>2. i + 1 \in T
      BY <1>7, <3>1
    <3>3. g[n] = g[i] \o f[i + 1]
      BY <2>2, <2>5, <3>1, <3>2
    <3>4. g[i] = Append(g[i - 1], s[i])
      BY <1>5, <2>2, <2>5
    <3> DEFINE a == g[i - 1]
               b == f[i + 1]
               c == s[i]
    <3>5. a \in Seq(TextChars) /\ b \in Seq(TextChars) /\ c \in TextChars
      <4>1. a \in Seq(TextChars)
        BY <1>5, <3>1
      <4>2. b \in Seq(TextChars)
        BY <1>4, <3>1
      <4>3. c \in TextChars
        OBVIOUS
      <4>. QED
        BY <4>1, <4>2, <4>3
    <3> HIDE DEF a, b, c, n
    <3>6. Append(a, c) \o b = a \o (<<c>> \o b)
      <4>1. Append(a, c) = a \o <<c>> /\ <<c>> \in Seq(TextChars)
        BY <3>5
      <4>2. (a \o <<c>>) \o b = a \o (<<c>> \o b)
        BY <3>5, <4>1, Regroup
      <4>. QED
        BY <4>1, <4>2
    <3>. QED
      BY <2>3, <2>5, <3>3, <3>4, <3>6 DEF a, b, c
  <2>. QED
    BY <2>4, <2>5
<1>8. ASSUME NEW i \in 1..(n + 1), \A j \in (i + 1)..(n + 1) : j \in T PROVE i \in T
  <2>1. i = n + 1 \/ i \in 1..n
    BY <1>3
  <2>. QED
    BY <1>6, <1>7, <1>8, <2>1
<1>9. 1..(n + 1) \subseteq T
  <2>1. n + 1 \in Nat
    BY <1>3
  <2> HIDE DEF n, T
  <2>. QED
    BY <1>8, <2>1, DownFrom
<1>10. ~Inside(s, 1)
  <2> SUFFICES ASSUME NEW a, NEW b, ReportAt(s, a, b), a < 1 PROVE FALSE
    BY DEF Inside
  <2>1. a \in Nat /\ 1 <= a
    BY ReportHas
  <2>. QED
    BY <2>1
<1>11. g[n] = g[0] \o f[1]
  <2>1. 1 \in 1..(n + 1) /\ 1 - 1 = 0
    BY <1>3
  <2> HIDE DEF n
  <2>. QED
    BY <1>9, <1>10, <2>1
<1>12. g[0] \o f[1] = f[1]
  <2>1. f[1] \in Seq(TextChars)
    BY <1>3, <1>4
  <2>. QED
    BY <1>5, <2>1
<1>13. Strip(s) = f[1] /\ Without(s) = g[n]
  BY <1>1, <1>2, StripIs, WithoutIs
<1>. QED
  BY <1>11, <1>12, <1>13

\* t is the part of s behind its first p characters, up to some later one.
PartOf(t, s, p) ==
    /\ s \in Seq(TextChars) /\ t \in Seq(TextChars) /\ p \in Nat
    /\ p + Len(t) <= Len(s)
    /\ \A i \in Nat : 1 <= i /\ i <= Len(t) => t[i] = s[i + p]

LEMMA ReportMoves ==
    ASSUME NEW s, NEW t, NEW p, PartOf(t, s, p),
           NEW a \in Nat, NEW b \in Nat, 1 <= a, b <= Len(t)
    PROVE  ReportAt(t, a, b) <=> ReportAt(s, a + p, b + p)
<1> DEFINE n == Len(t)
           m == Len(s)
<1>1. n \in Nat /\ m \in Nat /\ p \in Nat /\ p + n <= m /\ b <= n
  BY DEF PartOf
<1>2. \A i \in Nat : 1 <= i /\ i <= n => t[i] = s[i + p]
  BY DEF PartOf
<1>3. ReportAt(t, a, b) => b <= n /\ a + 4 <= b
  BY ReportHas
<1>4. ReportAt(s, a + p, b + p) => a + p + 4 <= b + p
  BY ReportHas
<1> HIDE DEF n, m
<1>5. a + p \in Nat /\ b + p \in Nat /\ 1 <= a + p /\ b + p <= m
  BY <1>1
<1>6. ASSUME a + 4 <= b
      PROVE  t[a] = s[a + p] /\ t[b] = s[b + p]
  <2>1. a <= n /\ 1 <= b
    BY <1>1, <1>6
  <2>. QED
    BY <1>1, <1>2, <2>1
<1>7. ASSUME NEW k \in Nat, Divides(t, a, b, k) PROVE Divides(s, a + p, b + p, k + p)
  <2>1. a + 2 <= k /\ k <= b - 2
    BY <1>7 DEF Divides
  <2>2. t[k] = ";"
    BY <1>7 DEF Divides
  <2>3. 1 <= k /\ k <= n /\ k + p \in Nat /\ (a + p) + 2 <= k + p /\ k + p <= (b + p) - 2
    BY <1>1, <2>1
  <2>4. s[k + p] = ";"
    BY <1>2, <2>2, <2>3
  <2>5. ASSUME NEW j \in Nat, a + p < j, j < b + p, j # k + p PROVE s[j] = "digit"
    <3> DEFINE i == j - p
    <3>1. i \in Nat /\ a < i /\ i < b /\ i # k /\ 1 <= i /\ i <= n /\ i + p = j
      BY <1>1, <2>5
    <3> HIDE DEF i
    <3>2. t[i] = "digit"
      BY <1>7, <3>1 DEF Divides
    <3>. QED
      BY <1>2, <3>1, <3>2
  <2>. QED
    BY <2>3, <2>4, <2>5 DEF Divides
<1>8. ASSUME NEW q \in Nat, Divides(s, a + p, b + p, q)
      PROVE  \E k : Divides(t, a, b, k)
  <2> DEFINE k == q - p
  <2>1. (a + p) + 2 <= q /\ q <= (b + p) - 2
    BY <1>8 DEF Divides
  <2>2. s[q] = ";"
    BY <1>8 DEF Divides
  <2>3. k \in Nat /\ 1 <= k /\ k <= n /\ a + 2 <= k /\ k <= b - 2 /\ k + p = q
    BY <1>1, <2>1
  <2> HIDE DEF k
  <2>4. t[k] = ";"
    BY <1>2, <2>2, <2>3
  <2>5. ASSUME NEW i \in Nat, a < i, i < b, i # k PROVE t[i] = "digit"
    <3>1. i + p \in Nat /\ a + p < i + p /\ i + p < b + p /\ i + p # q /\ 1 <= i /\ i <= n
      BY <1>1, <2>3, <2>5
    <3>2. s[i + p] = "digit"
      BY <1>8, <3>1 DEF Divides
    <3>. QED
      BY <1>2, <3>1, <3>2
  <2>6. Divides(t, a, b, k)
    BY <2>3, <2>4, <2>5 DEF Divides
  <2>. QED
    BY <2>6
<1>9. ASSUME ReportAt(t, a, b) PROVE ReportAt(s, a + p, b + p)
  <2>1. PICK k : Divides(t, a, b, k)
    BY <1>9 DEF ReportAt
  <2>2. Divides(s, a + p, b + p, k + p)
    BY <1>7, <2>1 DEF Divides
  <2>3. t[a] = "csi8" /\ t[b] = "t"
    BY <1>9 DEF ReportAt
  <2>4. s[a + p] = "csi8" /\ s[b + p] = "t"
    BY <1>3, <1>6, <1>9, <2>3
  <2>. QED
    BY <1>5, <2>2, <2>4 DEF ReportAt, m
<1>10. ASSUME ReportAt(s, a + p, b + p) PROVE ReportAt(t, a, b)
  <2>1. PICK q : Divides(s, a + p, b + p, q)
    BY <1>10 DEF ReportAt
  <2>2. \E k : Divides(t, a, b, k)
    BY <1>8, <2>1 DEF Divides
  <2>3. s[a + p] = "csi8" /\ s[b + p] = "t"
    BY <1>10 DEF ReportAt
  <2>4. a + 4 <= b
    BY <1>1, <1>4, <1>10
  <2>5. t[a] = "csi8" /\ t[b] = "t"
    BY <1>6, <2>3, <2>4
  <2>. QED
    BY <2>2, <2>5 DEF ReportAt
<1>. QED
  BY <1>9, <1>10

\* So does where the loop goes on, if no report reaches behind the part.
LEMMA NextMoves ==
    ASSUME NEW s, NEW t, NEW p, PartOf(t, s, p), NEW i \in 1..Len(t),
           \A c : ReportAt(s, i + p, c) => c <= p + Len(t)
    PROVE  AfterReport(s, i + p) = AfterReport(t, i) + p
<1> DEFINE n == Len(t)
           m == Len(s)
           x == AfterReport(t, i)
<1>1. n \in Nat /\ m \in Nat /\ p \in Nat /\ p + n <= m /\ i \in Nat /\ 1 <= i /\ i <= n
  BY DEF PartOf
<1>2. s \in Seq(TextChars) /\ t \in Seq(TextChars)
  BY DEF PartOf
<1>3. Behind(t, i, x)
  BY <1>2, AfterReportIs
<1> HIDE DEF x
<1>4. i + p \in 1..Len(s)
  BY <1>1
<1>5. Behind(s, i + p, x + p)
  <2>1. CASE x = i /\ \A b : ~ReportAt(t, i, b)
    <3>1. ASSUME NEW c, ReportAt(s, i + p, c) PROVE FALSE
      <4> DEFINE b == c - p
      <4>1. c \in Nat /\ (i + p) + 4 <= c /\ c <= p + n
        BY <3>1, ReportHas
      <4> HIDE DEF n
      <4>2. b \in Nat /\ b <= n /\ b + p = c
        BY <1>1, <4>1
      <4> HIDE DEF b
      <4>3. ReportAt(t, i, b)
        BY <1>1, <3>1, <4>2, ReportMoves DEF n
      <4>. QED
        BY <2>1, <4>3
    <3>. QED
      BY <2>1, <3>1 DEF Behind
  <2>2. CASE x \in Nat /\ i < x /\ ReportAt(t, i, x - 1)
    <3> DEFINE b == x - 1
    <3>1. b \in Nat /\ b <= n
      BY <2>2, ReportHas
    <3>2. x \in Nat /\ i < x
      BY <2>2
    <3> HIDE DEF n
    <3>3. x + p \in Nat /\ i + p < x + p /\ b + p = (x + p) - 1
      BY <1>1, <3>2
    <3>4. ReportAt(t, i, b)
      BY <2>2
    <3> HIDE DEF b
    <3>5. ReportAt(s, i + p, b + p)
      BY <1>1, <3>1, <3>4, ReportMoves DEF n
    <3>. QED
      BY <3>3, <3>5 DEF Behind
  <2>. QED
    BY <1>3, <2>1, <2>2 DEF Behind
<1>. QED
  BY <1>2, <1>4, <1>5, AfterReportIs DEF x

\* The loop over the end of a text does what it does over that end alone.
LEMMA StripShift ==
    ASSUME NEW s, NEW t, NEW p, PartOf(t, s, p), p + Len(t) = Len(s),
           NEW f, Strips(f, t), NEW u, Strips(u, s)
    PROVE  \A i \in 1..(Len(t) + 1) : u[i + p] = f[i]
<1> DEFINE n == Len(t)
           m == Len(s)
           T == {i \in 1..(n + 1) : u[i + p] = f[i]}
<1>1. n \in Nat /\ m \in Nat /\ p \in Nat /\ p + n = m
  BY DEF PartOf
<1>2. s \in Seq(TextChars) /\ t \in Seq(TextChars)
  BY DEF PartOf
<1>3. \A i \in Nat : 1 <= i /\ i <= n => t[i] = s[i + p]
  BY DEF PartOf
<1>4. \A i \in 1..(n + 1) : f[i] = Rest(t, i, f)
  BY DEF Strips
<1>5. \A i \in 1..(m + 1) : u[i] = Rest(s, i, u)
  BY DEF Strips
<1>6. ASSUME NEW i \in 1..(n + 1), \A j \in (i + 1)..(n + 1) : j \in T
      PROVE  u[i + p] = f[i]
  <2>1. CASE i = n + 1
    <3>1. i + p \in 1..(m + 1) /\ i + p > m /\ i > n
      BY <1>1, <2>1
    <3>. QED
      BY <1>4, <1>5, <3>1 DEF Rest
  <2>2. CASE i # n + 1
    <3> DEFINE x == AfterReport(t, i)
               y == AfterReport(s, i + p)
    <3>1. /\ i \in 1..n /\ ~(i > n) /\ i + p \in 1..m /\ i + p \in 1..(m + 1) /\ ~(i + p > m)
          /\ i \in Nat /\ 1 <= i /\ i <= n
      BY <1>1, <2>2
    <3>2. x \in i..(n + 1)
      BY <1>2, <3>1, NextIs
    <3>3. y = x + p
      <4>1. ASSUME NEW c, ReportAt(s, i + p, c) PROVE c <= p + n
        <5>1. c <= m
          BY <4>1, ReportHas
        <5>. QED
          BY <1>1, <5>1
      <4>. QED
        BY <3>1, <4>1, NextMoves
    <3>4. f[i] = IF x > i THEN f[x] ELSE <<t[i]>> \o f[i + 1]
      BY <1>4, <3>1 DEF Rest
    <3>5. u[i + p] = IF y > i + p THEN u[y] ELSE <<s[i + p]>> \o u[(i + p) + 1]
      BY <1>5, <3>1 DEF Rest
    <3> HIDE DEF x, y
    <3>6. CASE x > i
      <4>1. x \in (i + 1)..(n + 1) /\ y > i + p
        BY <1>1, <3>1, <3>2, <3>3, <3>6
      <4>2. u[x + p] = f[x]
        BY <1>6, <4>1
      <4>. QED
        BY <3>3, <3>4, <3>5, <3>6, <4>1, <4>2
    <3>7. CASE ~(x > i)
      <4>1. i + 1 \in (i + 1)..(n + 1) /\ ~(y > i + p) /\ (i + p) + 1 = (i + 1) + p
        BY <1>1, <3>1, <3>2, <3>3, <3>7
      <4>2. u[(i + 1) + p] = f[i + 1]
        BY <1>6, <4>1
      <4>3. t[i] = s[i + p]
        BY <1>3, <3>1
      <4>. QED
        BY <3>4, <3>5, <3>7, <4>1, <4>2, <4>3
    <3>. QED
      BY <3>6, <3>7
  <2>. QED
    BY <2>1, <2>2
<1>7. 1..(n + 1) \subseteq T
  <2>1. n + 1 \in Nat
    BY <1>1
  <2>2. ASSUME NEW i \in 1..(n + 1), \A j \in (i + 1)..(n + 1) : j \in T PROVE i \in T
    BY <1>6, <2>2
  <2> HIDE DEF n, T
  <2>. QED
    BY <2>1, <2>2, DownFrom
<1>. QED
  BY <1>7

\* A cut that is not inside of a report makes no difference.
LEMMA StripJoins ==
    ASSUME NEW a \in Seq(TextChars), NEW b \in Seq(TextChars),
           \A c, d : ReportAt(a \o b, c, d) => ~(c <= Len(a) /\ Len(a) < d)
    PROVE  Strip(a \o b) = Strip(a) \o Strip(b)
<1> DEFINE n == Len(a)
           y == a \o b
           z == Strip(b)
<1>1. PICK f : Strips(f, a)
  BY StripsExists
<1>2. PICK h : Strips(h, b)
  BY StripsExists
<1>3. n \in Nat /\ Len(b) \in Nat /\ y \in Seq(TextChars) /\ Len(y) = n + Len(b)
  BY ConcatProperties
<1>4. PICK u : Strips(u, y)
  BY <1>3, StripsExists
<1>5. PartOf(a, y, 0) /\ PartOf(b, y, n)
  <2>1. \A i \in 1..Len(y) : y[i] = IF i <= n THEN a[i] ELSE b[i - n]
    BY ConcatProperties
  <2> HIDE DEF y
  <2>2. ASSUME NEW i \in Nat, 1 <= i, i <= n PROVE a[i] = y[i + 0]
    <3>1. i \in 1..Len(y) /\ i + 0 = i
      BY <1>3, <2>2
    <3>. QED
      BY <2>1, <2>2, <3>1
  <2>3. ASSUME NEW i \in Nat, 1 <= i, i <= Len(b) PROVE b[i] = y[i + n]
    <3>1. i + n \in 1..Len(y) /\ ~(i + n <= n) /\ (i + n) - n = i
      BY <1>3, <2>3
    <3>. QED
      BY <2>1, <3>1
  <2>4. 0 + n <= Len(y) /\ n + Len(b) <= Len(y)
    BY <1>3
  <2>. QED
    BY <1>3, <2>2, <2>3, <2>4 DEF PartOf
<1>6. Strip(a) = f[1] /\ Strip(y) = u[1] /\ z = h[1] /\ z \in Seq(TextChars)
  BY <1>1, <1>2, <1>3, <1>4, StripIs
<1>7. u[n + 1] = z
  <2>1. 1 \in 1..(Len(b) + 1) /\ 1 + n = n + 1
    BY <1>3
  <2>2. PartOf(b, y, n) /\ n + Len(b) = Len(y)
    BY <1>3, <1>5
  <2> HIDE DEF n, y, z
  <2>3. \A i \in 1..(Len(b) + 1) : u[i + n] = h[i]
    BY <1>2, <1>4, <2>2, StripShift
  <2>. QED
    BY <1>6, <2>1, <2>3
<1>8. f \in [1..(n + 1) -> Seq(TextChars)] /\ \A i \in 1..(n + 1) : f[i] = Rest(a, i, f)
  BY <1>1 DEF Strips
<1>9. \A i \in 1..(Len(y) + 1) : u[i] = Rest(y, i, u)
  BY <1>4 DEF Strips
<1>10. \A c, d : ReportAt(y, c, d) => ~(c <= n /\ n < d)
  OBVIOUS
<1> HIDE DEF y, z
<1> DEFINE Joins(i) == u[i] = f[i] \o z
           T == {i \in 1..(n + 1) : Joins(i)}
<1>11. ASSUME NEW i \in 1..(n + 1), \A j \in (i + 1)..(n + 1) : j \in T
       PROVE  Joins(i)
  <2>1. CASE i = n + 1
    <3>1. f[n + 1] = <<>>
      <4>1. n + 1 \in 1..(n + 1) /\ n + 1 > n
        BY <1>3
      <4>. QED
        BY <1>8, <4>1 DEF Rest
    <3>2. <<>> \o z = z
      BY <1>6
    <3>. QED
      BY <1>7, <2>1, <3>1, <3>2
  <2>2. CASE i # n + 1
    <3> DEFINE x == AfterReport(a, i)
    <3>1. /\ i \in 1..n /\ ~(i > n) /\ i \in 1..(Len(y) + 1) /\ ~(i > Len(y))
          /\ i \in Nat /\ 1 <= i /\ i <= n
      BY <1>3, <2>2
    <3>2. x \in i..(n + 1)
      BY <3>1, NextIs
    <3>3. AfterReport(y, i) = x
      <4>1. i + 0 = i /\ x + 0 = x
        BY <3>1, <3>2
      <4>2. ASSUME NEW c, ReportAt(y, i + 0, c) PROVE c <= 0 + n
        <5>1. c \in Nat
          BY <4>2, ReportHas
        <5>2. ~(n < c)
          BY <1>10, <3>1, <4>1, <4>2
        <5>. QED
          BY <1>3, <5>1, <5>2
      <4>3. AfterReport(y, i + 0) = x + 0
        BY <1>5, <3>1, <4>2, NextMoves
      <4>. QED
        BY <4>1, <4>3
    <3>4. f[i] = IF x > i THEN f[x] ELSE <<a[i]>> \o f[i + 1]
      BY <1>8, <3>1 DEF Rest
    <3>5. u[i] = IF x > i THEN u[x] ELSE <<y[i]>> \o u[i + 1]
      BY <1>9, <3>1, <3>3 DEF Rest
    <3> HIDE DEF x
    <3>6. CASE x > i
      <4>1. x \in (i + 1)..(n + 1)
        BY <3>1, <3>2, <3>6
      <4>2. Joins(x)
        BY <1>11, <4>1
      <4>. QED
        BY <3>4, <3>5, <3>6, <4>2
    <3>7. CASE ~(x > i)
      <4>1. i + 1 \in (i + 1)..(n + 1) /\ i + 1 \in 1..(n + 1) /\ i + 0 = i
        BY <1>3, <3>1
      <4>2. u[i + 1] = f[i + 1] \o z
        BY <1>11, <4>1
      <4>3. a[i] = y[i]
        BY <1>5, <3>1, <4>1 DEF PartOf
      <4> DEFINE v == <<a[i]>>
                 w == f[i + 1]
      <4>4. v \in Seq(TextChars)
        BY <3>1
      <4>5. w \in Seq(TextChars)
        BY <1>8, <4>1
      <4>6. f[i] = v \o w /\ u[i] = v \o (w \o z)
        BY <3>4, <3>5, <3>7, <4>2, <4>3
      <4>7. z \in Seq(TextChars)
        BY <1>6
      <4> HIDE DEF v, w
      <4>8. (v \o w) \o z = v \o (w \o z)
        BY ONLY <4>4, <4>5, <4>7, Regroup, ZenonT(60)
      <4>9. f[i] \o z = (v \o w) \o z
        BY ONLY <4>6
      <4>10. u[i] = f[i] \o z
        BY ONLY <4>6, <4>8, <4>9, Zenon
      <4>. QED
        BY <4>10
    <3>. QED
      BY <3>6, <3>7
  <2>. QED
    BY <2>1, <2>2
<1>12. 1..(n + 1) \subseteq T
  <2>1. n + 1 \in Nat
    BY <1>3
  <2>2. ASSUME NEW i \in 1..(n + 1), \A j \in (i + 1)..(n + 1) : j \in T PROVE i \in T
    BY <1>11, <2>2
  <2> HIDE DEF n, T
  <2>. QED
    BY <2>1, <2>2, DownFrom
<1>13. u[1] = f[1] \o z
  <2>1. 1 \in 1..(n + 1)
    BY <1>3
  <2>. QED
    BY <1>12, <2>1
<1>. QED
  BY <1>6, <1>13 DEF y, z

-----------------------------------------------------------------------------
\* The reader thread.
NoCutInside == \A a, b : ReportAt(wrote, a, b) => \A cut \in cuts : ~(a <= cut /\ cut < b)

OutputInv ==
    /\ wrote \in Seq(TextChars)
    /\ cuts \subseteq Nat
    /\ wrote # <<>> => Len(wrote) \in cuts
    /\ NoCutInside => shown = Strip(wrote)

LEMMA OutputStep ==
    ASSUME OutputInv, OutputNext
    PROVE  OutputInv'
<1>1. PICK n \in 1..(MaxText - Len(wrote)) : \E data \in [1..n -> TextChars] : ReadOutput(data)
  BY DEF OutputNext
<1>2. PICK data \in [1..n -> TextChars] : ReadOutput(data)
  BY <1>1
<1>3. data \in Seq(TextChars) /\ wrote \in Seq(TextChars)
  <2>1. n \in Nat
    BY <1>1
  <2>. QED
    BY <2>1 DEF OutputInv
<1>4. wrote' = wrote \o data /\ cuts' = cuts \cup {Len(wrote')} /\ shown' = shown \o Strip(data)
  BY <1>2 DEF ReadOutput
<1> DEFINE y == wrote \o data
           m == Len(wrote)
<1>5. y \in Seq(TextChars) /\ Len(y) = m + Len(data) /\ m \in Nat /\ Len(data) \in Nat
  BY <1>3, ConcatProperties
<1>6. PartOf(wrote, y, 0)
  <2>1. \A i \in 1..Len(y) : y[i] = IF i <= m THEN wrote[i] ELSE data[i - m]
    BY <1>3, ConcatProperties
  <2> HIDE DEF y
  <2>2. ASSUME NEW i \in Nat, 1 <= i, i <= m PROVE wrote[i] = y[i + 0]
    <3>1. i \in 1..Len(y) /\ i + 0 = i
      BY <1>5, <2>2
    <3>. QED
      BY <2>1, <2>2, <3>1
  <2>3. 0 + m <= Len(y)
    BY <1>5
  <2>. QED
    BY <1>3, <1>5, <2>2, <2>3 DEF PartOf
<1> HIDE DEF y
<1>7. ASSUME NoCutInside' PROVE shown' = Strip(y)
  <2>1. \A a, b : ReportAt(y, a, b) => \A cut \in cuts : ~(a <= cut /\ cut < b)
    BY <1>4, <1>7 DEF NoCutInside, y
  <2>2. NoCutInside
    <3> SUFFICES ASSUME NEW a, NEW b, ReportAt(wrote, a, b), NEW cut \in cuts,
                        a <= cut, cut < b
                 PROVE  FALSE
      BY DEF NoCutInside
    <3>1. a \in Nat /\ b \in Nat /\ 1 <= a /\ b <= m
      BY ReportHas
    <3>2. ReportAt(y, a + 0, b + 0)
      BY <1>6, <3>1, ReportMoves
    <3>3. a + 0 = a /\ b + 0 = b
      BY <3>1
    <3>. QED
      BY <2>1, <3>2, <3>3
  <2>3. shown = Strip(wrote)
    BY <2>2 DEF OutputInv
  <2>4. ASSUME NEW c, NEW d, ReportAt(y, c, d), c <= m, m < d PROVE FALSE
    <3>1. c \in Nat /\ 1 <= c
      BY <2>4, ReportHas
    <3>2. m # 0
      BY <1>5, <2>4, <3>1
    <3>3. wrote # <<>>
      BY <3>2
    <3>4. m \in cuts
      BY <3>3 DEF OutputInv
    <3>. QED
      BY <2>1, <2>4, <3>4
  <2>5. Strip(y) = Strip(wrote) \o Strip(data)
    BY <1>3, <2>4, StripJoins DEF y
  <2>. QED
    BY <1>4, <2>3, <2>5
<1>8. NoCutInside' => shown' = Strip(wrote')
  BY <1>4, <1>7 DEF y
<1>9. wrote' \in Seq(TextChars) /\ Len(wrote') \in cuts' /\ Len(wrote') \in Nat
  BY <1>4, <1>5 DEF y
<1>. QED
  BY <1>4, <1>8, <1>9 DEF OutputInv

LEMMA OutputStart == OutputInit => OutputInv
<1> SUFFICES ASSUME OutputInit PROVE OutputInv
  OBVIOUS
<1>1. wrote = <<>> /\ shown = <<>> /\ cuts = {} /\ <<>> \in Seq(TextChars)
  BY DEF OutputInit
<1>2. PICK f : Strips(f, <<>>)
  BY <1>1, StripsExists
<1>3. Strip(<<>>) = f[1]
  BY <1>1, <1>2, StripIs
<1>4. f[1] = <<>>
  <2>1. Len(<<>>) = 0 /\ 1 \in 1..(Len(<<>>) + 1) /\ 1 > Len(<<>>)
    OBVIOUS
  <2>. QED
    BY <1>2, <2>1 DEF Strips, Rest
<1>. QED
  BY <1>1, <1>3, <1>4 DEF OutputInv

\* Reports as the property counts them.
LEMMA CutsAsCounted ==
    ASSUME OutputInv
    PROVE  OnlyReportsAreDropped
<1>1. wrote \in Seq(TextChars)
  BY DEF OutputInv
<1> SUFFICES ASSUME \A r \in Reports(wrote) : \A cut \in cuts : cut \notin r[1]..(r[2] - 1)
             PROVE  shown = Without(wrote)
  BY DEF OnlyReportsAreDropped
<1>2. NoCutInside
  <2> SUFFICES ASSUME NEW a, NEW b, ReportAt(wrote, a, b), NEW cut \in cuts,
                      a <= cut, cut < b
               PROVE  FALSE
    BY DEF NoCutInside
  <2>1. a \in Nat /\ b \in Nat /\ 1 <= a /\ a + 4 <= b /\ b <= Len(wrote)
    BY ReportHas
  <2>2. cut \in a..(b - 1)
    BY <2>1 DEF OutputInv
  <2>3. <<a, b>> \in Reports(wrote)
    BY <1>1, <2>1, ReportIs
  <2>4. <<a, b>>[1] = a /\ <<a, b>>[2] = b
    OBVIOUS
  <2>. QED
    BY <2>2, <2>3, <2>4
<1>3. shown = Strip(wrote)
  BY <1>2 DEF OutputInv
<1>. QED
  BY <1>1, <1>3, StripsReports

\* Whole reports are dropped from the output and nothing else is, wherever it is
\* cut, but inside of a report (strip_resize_reports), for output of any length.
THEOREM DropsReports == OutputSpec => []OnlyReportsAreDropped
<1>1. OutputInv /\ UNCHANGED outputVars => OutputInv'
  BY DEF OutputInv, NoCutInside, outputVars
<1>. QED
  BY <1>1, OutputStart, OutputStep, CutsAsCounted, PTL DEF OutputSpec
=============================================================================
