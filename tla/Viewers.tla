------------------------------- MODULE Viewers -------------------------------
(***************************************************************************)
(* Whose size the session's terminal has (main.rs, Viewers) and how a size *)
(* gets from a client to the PTY and to the server-side screen (unix.rs    *)
(* and windows.rs: attached_at, resized_to, input_from, remove_client,     *)
(* resize). The thread of each connection decides under the viewers mutex, *)
(* and applies what it decided after releasing it.                         *)
(*                                                                         *)
(* On Unix `resize` measures the PTY, sets it and resizes the screen in    *)
(* three critical sections; on Windows it holds the size mutex throughout. *)
(* `build` says which, and never changes.                                  *)
(***************************************************************************)
EXTENDS Integers, Sequences, FiniteSets, SequencesExt

CONSTANTS
    Conns,       \* connections, each attached once
    Sizes,       \* terminal sizes clients have
    FirstSize,   \* the size the PTY was opened with
    MaxEvents    \* bound: frames the clients send between them

ASSUME ViewersAssumption ==
    /\ IsFiniteSet(Conns)
    /\ FirstSize \in Sizes
    /\ MaxEvents \in Nat

VARIABLES
    build,      \* whose `resize` it is, of unix.rs or of windows.rs
    recent,     \* Viewers::recent, the client in use last
    pty,        \* the size of the PTY
    screen,     \* the size of History's parser
    sizing,     \* who holds the size mutex, if anyone (Windows)
    pc,         \* the thread of each connection
    want,       \* the size its `resize` applies
    told,       \* history: the size each client last reported
    used,       \* history: when each client last attached or typed
    events,     \* history: frames sent so far
    unsettled,  \* history: the last size to apply came while another was applied,
                \* or could not be applied
    overlapped  \* history: some size came while another was applied

threadVars == <<pc, want>>
historyVars == <<told, used, events, unsettled, overlapped>>
vars == <<build, recent, pty, screen, sizing, threadVars, historyVars>>

\* In `resize`: before the PTY is measured, once it has been found at another
\* size or at the same one, and once it has been set.
Applying == {"measuring", "changing", "repeating", "syncing"}
Entry == [id : Conns, size : Sizes]

-----------------------------------------------------------------------------
\* Viewers, whose client in use is the last entry.
IsActive(r, k) == r # <<>> /\ Last(r).id = k

\* Where the client is in the list.
PlacesOf(r, k) == {i \in DOMAIN r : r[i].id = k}

\* Vec::retain: entry by entry, the others are kept in their order.
Without(r, k) ==
    LET kept[n \in 0..Len(r)] ==
          IF n = 0 THEN <<>>
          ELSE IF r[n].id = k THEN kept[n - 1] ELSE Append(kept[n - 1], r[n])
    IN  kept[Len(r)]

\* A mutant: a client that attaches again is listed again.
AttachedAgain(r, k, s) ==
    [recent |-> Append(r, [id |-> k, size |-> s]), apply |-> {s}]

\* What a call of Viewers leaves, and the size to apply: one, or none.
Attached(r, k, s) ==
    [recent |-> Append(Without(r, k), [id |-> k, size |-> s]), apply |-> {s}]

\* A mutant: the size of a client that is not in use is not noted.
ResizedIfActive(r, k, s) ==
    IF IsActive(r, k)
    THEN [recent |-> Append(Without(r, k), [id |-> k, size |-> s]),
          apply  |-> {s}]
    ELSE [recent |-> r, apply |-> {}]

Resized(r, k, s) ==
    [recent |-> [i \in DOMAIN r |-> IF r[i].id = k THEN [r[i] EXCEPT !.size = s]
                                                   ELSE r[i]],
     apply  |-> IF IsActive(r, k) THEN {s} ELSE {}]

Typed(r, k) ==
    IF IsActive(r, k) \/ PlacesOf(r, k) = {}
    THEN [recent |-> r, apply |-> {}]
    ELSE LET i == Min(PlacesOf(r, k))
         IN  [recent |-> Append(RemoveAt(r, i), r[i]), apply |-> {r[i].size}]

\* A mutant: the size is left as it is when the client in use leaves.
LeftAsItIs(r, k) == [recent |-> Without(r, k), apply |-> {}]

Left(r, k) ==
    [recent |-> Without(r, k),
     apply  |-> IF IsActive(r, k) /\ Without(r, k) # <<>>
                THEN {Last(Without(r, k)).size} ELSE {}]

-----------------------------------------------------------------------------
Init ==
    /\ build \in {"unix", "windows"}
    /\ recent = <<>>
    /\ pty = FirstSize
    /\ screen = FirstSize
    /\ sizing = {}
    /\ pc = [k \in Conns |-> "new"]
    /\ want = [k \in Conns |-> FirstSize]
    /\ told = [k \in Conns |-> FirstSize]
    /\ used = [k \in Conns |-> 0]
    /\ events = 0
    /\ unsettled = FALSE
    /\ overlapped = FALSE

\* The thread of k calls Viewers, and goes on to `resize` if there is a size to
\* apply. Otherwise, and afterwards, it waits for the next frame, or is gone.
Rest(k, r) == IF PlacesOf(r, k) = {} THEN "gone" ELSE "idle"

Decide(k, viewers) ==
    /\ recent' = viewers.recent
    /\ IF viewers.apply = {}
       THEN /\ pc' = [pc EXCEPT ![k] = Rest(k, viewers.recent)]
            /\ UNCHANGED <<want, unsettled, overlapped>>
       ELSE /\ pc' = [pc EXCEPT ![k] = "measuring"]
            /\ \E s \in viewers.apply : want' = [want EXCEPT ![k] = s]
            /\ unsettled' = \E j \in Conns \ {k} : pc[j] \in Applying
            /\ overlapped' = (overlapped \/ unsettled')
    /\ UNCHANGED <<build, pty, screen, sizing>>

\* FRAME_ATTACH, the first one and any later one.
Attach(k, s) ==
    /\ pc[k] \in {"new", "idle"}
    /\ events < MaxEvents
    /\ Decide(k, Attached(recent, k, s))
    /\ told' = [told EXCEPT ![k] = s]
    /\ used' = [used EXCEPT ![k] = events + 1]
    /\ events' = events + 1

\* FRAME_RESIZE.
Resize(k, s) ==
    /\ pc[k] = "idle"
    /\ events < MaxEvents
    /\ Decide(k, Resized(recent, k, s))
    /\ told' = [told EXCEPT ![k] = s]
    /\ events' = events + 1
    /\ UNCHANGED used

\* FRAME_INPUT.
Input(k) ==
    /\ pc[k] = "idle"
    /\ events < MaxEvents
    /\ Decide(k, Typed(recent, k))
    /\ used' = [used EXCEPT ![k] = events + 1]
    /\ events' = events + 1
    /\ UNCHANGED told

\* remove_client, when the socket has ended or a size could not be applied.
Leave(k) ==
    /\ pc[k] \in {"idle", "failed"}
    /\ Decide(k, Left(recent, k))
    /\ UNCHANGED <<told, used, events>>

-----------------------------------------------------------------------------
\* `resize`, by the thread of k.

\* A mutant of the Windows build: the size mutex is held to compare only.
MeasureUnlocked(k) ==
    /\ pc[k] = "measuring"
    /\ pc' = [pc EXCEPT ![k] = IF pty # want[k] THEN "changing"
                                                ELSE Rest(k, recent)]
    /\ UNCHANGED <<build, recent, pty, screen, sizing, want, historyVars>>

\* The PTY is measured, which may fail; on Windows the size mutex is taken first,
\* and a size the console has already ends it.
Measure(k) ==
    /\ pc[k] = "measuring"
    /\ IF build = "windows"
       THEN /\ sizing = {}
            /\ IF pty # want[k]
               THEN /\ sizing' = {k}
                    /\ pc' = [pc EXCEPT ![k] = "changing"]
               ELSE /\ pc' = [pc EXCEPT ![k] = Rest(k, recent)]
                    /\ UNCHANGED sizing
       ELSE /\ \/ pc' = [pc EXCEPT ![k] = "changing"]
               \/ pty = want[k] /\ pc' = [pc EXCEPT ![k] = "repeating"]
            /\ UNCHANGED sizing
    /\ UNCHANGED <<build, recent, pty, screen, want, historyVars>>

\* The PTY is set, on Unix also to the size it was measured at.
SetSize(k) ==
    /\ pc[k] \in {"changing", "repeating"}
    /\ pty' = want[k]
    /\ pc' = [pc EXCEPT ![k] = IF @ = "changing" THEN "syncing"
                                                 ELSE Rest(k, recent)]
    /\ UNCHANGED <<build, recent, screen, sizing, want, historyVars>>

\* The PTY cannot be set: the connection is ended, unless it has ended already.
SetSizeFails(k) ==
    /\ pc[k] \in {"changing", "repeating"}
    /\ pc' = [pc EXCEPT ![k] = IF PlacesOf(recent, k) = {} THEN "gone" ELSE "failed"]
    /\ sizing' = sizing \ {k}
    /\ unsettled' = TRUE
    /\ UNCHANGED <<build, recent, pty, screen, want, told, used, events, overlapped>>

\* The screen follows under the history mutex.
SyncScreen(k) ==
    /\ pc[k] = "syncing"
    /\ screen' = want[k]
    /\ sizing' = {}
    /\ pc' = [pc EXCEPT ![k] = Rest(k, recent)]
    /\ UNCHANGED <<build, recent, pty, want, historyVars>>

Next ==
    \E k \in Conns :
      \/ \E s \in Sizes : Attach(k, s) \/ Resize(k, s)
      \/ Input(k) \/ Leave(k)
      \/ Measure(k) \/ SetSize(k) \/ SetSizeFails(k) \/ SyncScreen(k)

Spec == Init /\ [][Next]_vars

-----------------------------------------------------------------------------
\* Types of the list, which is no longer than there are clients, of the sizes
\* and of the threads.
TypeOK ==
    /\ build \in {"unix", "windows"}
    /\ recent \in Seq(Entry) /\ Len(recent) <= Cardinality(Conns)
    /\ {pty, screen} \subseteq Sizes
    /\ sizing \subseteq Conns
    /\ pc \in [Conns -> {"new", "idle", "failed", "gone"} \cup Applying]
    /\ want \in [Conns -> Sizes]
    /\ told \in [Conns -> Sizes]
    /\ used \in [Conns -> 0..MaxEvents]
    /\ events \in 0..MaxEvents
    /\ {unsettled, overlapped} \subseteq BOOLEAN

Quiet == \A k \in Conns : pc[k] \notin Applying

\* Through any sequence of attaches, resizes, keystrokes and departures the
\* list holds every client that is there once, in the order in which they last
\* attached or typed, each with the size it last reported (Viewers).
RecentByUse ==
    /\ \A i, j \in DOMAIN recent : i < j => used[recent[i].id] < used[recent[j].id]
    /\ \A i \in DOMAIN recent : recent[i].size = told[recent[i].id]
    /\ \A k \in Conns : pc[k] \in {"idle", "failed"} => PlacesOf(recent, k) # {}

\* The PTY has the size of the client in use, and the server-side screen that
\* of the PTY.
SizeOfLastUsed == recent # <<>> => pty = Last(recent).size
ScreenInSync == screen = pty

\* On either build: once all sizes have been applied, the session has the size of
\* the client that last attached or typed, the one before when that one has left,
\* whatever went wrong before, unless the last size to apply came while another
\* was being applied or could not be applied; and the server-side screen has the
\* size of the PTY unless two sizes were ever applied at once (attached_at,
\* resized_to, input_from, remove_client, resize).
RightUnlessOverlapped ==
    Quiet => /\ ~unsettled => SizeOfLastUsed
             /\ ~overlapped => ScreenInSync

\* On Windows the size mutex keeps the screen with the PTY whoever is heard
\* meanwhile, and whether or not the size can be applied (windows.rs, resize).
ScreenFollows == Quiet /\ build = "windows" => ScreenInSync
=============================================================================
