------------------------------ MODULE CommonLemmas ------------------------------
(***************************************************************************)
(* Lemmas that several proof modules need: induction over natural numbers, *)
(* that a function defined by recursion over 0..N exists, up or down, and  *)
(* what each operator on a client's queue (ClientQueue.tla) returns, for   *)
(* any kind of frame with a size.                                          *)
(***************************************************************************)
EXTENDS ClientQueue, SequenceTheorems, WellFoundedInduction, TLAPS

-----------------------------------------------------------------------------
\* Induction takes a set here, where the library's theorems take an operator:
\* the numbers that have a property, instead of the property.

\* A set of natural numbers that is not empty has a least one.
LEMMA LeastNatural ==
    ASSUME NEW T \in SUBSET Nat, T # {}
    PROVE  \E n \in T : \A m \in T : n <= m
<1> DEFINE R == {ss \in Nat \X Nat : ss[1] < ss[2]}
<1>1. IsWellFoundedOn(R, Nat)
  BY NatLessThanWellFounded DEF OpToRel
<1> HIDE DEF R
<1>2. PICK n \in T : \A m \in T : <<m, n>> \notin R
  BY <1>1, WFMin
<1>3. \A m \in T : ~(m < n)
  BY <1>2 DEF R
<1>. QED
  BY <1>3

\* A set with 0, and with n + 1 for each n in it, holds every number.
LEMMA ByInduction ==
    ASSUME NEW T, 0 \in T, \A n \in Nat : n \in T => n + 1 \in T
    PROVE  Nat \subseteq T
<1> SUFFICES ASSUME Nat \ T # {} PROVE FALSE
  OBVIOUS
<1>1. PICK n \in Nat \ T : \A m \in Nat \ T : n <= m
  BY LeastNatural
<1>2. n # 0 /\ n - 1 \in Nat /\ n - 1 \in T
  BY <1>1
<1>3. (n - 1) + 1 \in T
  BY <1>2
<1>. QED
  BY <1>3, <1>2

\* The same as far as N.
LEMMA UpTo ==
    ASSUME NEW N \in Nat, NEW T, 0 \in T, \A n \in 1..N : n - 1 \in T => n \in T
    PROVE  0..N \subseteq T
<1> DEFINE U == {n \in Nat : n <= N => n \in T}
<1>1. 0 \in U
  OBVIOUS
<1>2. ASSUME NEW n \in Nat, n \in U PROVE n + 1 \in U
  <2>1. CASE n + 1 <= N
    <3>1. n + 1 \in 1..N /\ (n + 1) - 1 = n /\ n \in T
      BY <1>2, <2>1
    <3>. QED
      BY <3>1
  <2>. QED
    BY <2>1
<1> HIDE DEF U
<1>3. Nat \subseteq U
  BY <1>1, <1>2, ByInduction
<1>. QED
  BY <1>3 DEF U

\* The functions on 0..N that begin with base and go on by step.
Recursions(N, D, base, step) ==
    {f \in [0..N -> D] : f[0] = base /\ \A n \in 1..N : f[n] = step[n][f[n - 1]]}

\* There is one: what a definition by recursion chooses satisfies its equation.
LEMMA RecursionExists ==
    ASSUME NEW N \in Nat, NEW D, NEW base \in D, NEW step \in [1..N -> [D -> D]]
    PROVE  \E f : f \in Recursions(N, D, base, step)
<1> DEFINE Solves(f, m) ==
             f[0] = base /\ \A n \in 1..m : f[n] = step[n][f[n - 1]]
           T == {m \in Nat : m <= N => \E f \in [0..m -> D] : Solves(f, m)}
<1>1. 0 \in T
  <2>1. [n \in 0..0 |-> base] \in [0..0 -> D] /\ Solves([n \in 0..0 |-> base], 0)
    OBVIOUS
  <2>. QED
    BY <2>1
<1>2. ASSUME NEW m \in Nat, m \in T PROVE m + 1 \in T
  <2> SUFFICES ASSUME m + 1 <= N
               PROVE  \E f \in [0..(m + 1) -> D] : Solves(f, m + 1)
    OBVIOUS
  <2>1. PICK f \in [0..m -> D] : Solves(f, m)
    BY <1>2
  <2> DEFINE g == [n \in 0..(m + 1) |-> IF n = m + 1 THEN step[n][f[m]] ELSE f[n]]
  <2>2. step[m + 1] \in [D -> D] /\ f[m] \in D
    OBVIOUS
  <2>3. g \in [0..(m + 1) -> D]
    <3> SUFFICES ASSUME NEW n \in 0..(m + 1) 
                 PROVE  (IF n = m + 1 THEN step[n][f[m]] ELSE f[n]) \in D
      OBVIOUS
    <3>1. CASE n = m + 1
      BY <2>2, <3>1
    <3>2. CASE n # m + 1
      BY <3>2
    <3>. QED
      BY <3>1, <3>2
  <2>4. g[0] = base
    BY <2>1
  <2>5. ASSUME NEW n \in 1..(m + 1) PROVE g[n] = step[n][g[n - 1]]
    <3>1. CASE n = m + 1
      BY <3>1
    <3>2. CASE n \in 1..m
      <4>1. f[n] = step[n][f[n - 1]]
        BY <2>1, <3>2
      <4>2. g[n] = f[n] /\ g[n - 1] = f[n - 1]
        BY <3>2
      <4>. QED
        BY <4>1, <4>2
    <3>. QED
      BY <3>1, <3>2
  <2> HIDE DEF g
  <2>. QED
    BY <2>3, <2>4, <2>5
<1> HIDE DEF T
<1>3. Nat \subseteq T
  BY <1>1, <1>2, ByInduction
<1>4. PICK f \in [0..N -> D] : Solves(f, N)
  BY <1>3 DEF T
<1>. QED
  BY <1>4 DEF Recursions

\* body[i] looks only at what comes after i.
LooksOn(body, N, D) ==
    \A i \in 1..N : \A f, g \in [1..N -> D] :
      (\A j \in (i + 1)..N : f[j] = g[j]) => body[i][f] = body[i][g]

\* The functions on 1..N each of whose values is defined by those after it.
Descents(N, D, body) == {f \in [1..N -> D] : \A i \in 1..N : f[i] = body[i][f]}

\* There is one, too.
LEMMA DescentExists ==
    ASSUME NEW N \in Nat, NEW D, NEW body \in [1..N -> [[1..N -> D] -> D]],
           NEW f0 \in [1..N -> D], LooksOn(body, N, D)
    PROVE  \E f : f \in Descents(N, D, body)
<1> DEFINE Solves(f, k) == \A i \in (N - k + 1)..N : f[i] = body[i][f]
           T == {k \in Nat : k <= N => \E f \in [1..N -> D] : Solves(f, k)}
<1>1. 0 \in T
  <2>1. Solves(f0, 0)
    OBVIOUS
  <2>. QED
    BY <2>1
<1>2. ASSUME NEW k \in Nat, k \in T PROVE k + 1 \in T
  <2> SUFFICES ASSUME k + 1 <= N
               PROVE  \E f \in [1..N -> D] : Solves(f, k + 1)
    OBVIOUS
  <2>1. PICK f \in [1..N -> D] : Solves(f, k)
    BY <1>2
  <2> DEFINE m == N - k
             g == [f EXCEPT ![m] = body[m][f]]
  <2>2. m \in 1..N /\ N - (k + 1) + 1 = m /\ N - k + 1 = m + 1
    OBVIOUS
  <2>3. body[m] \in [[1..N -> D] -> D] /\ body[m][f] \in D
    BY <2>2
  <2> HIDE DEF m
  <2>4. /\ g \in [1..N -> D] /\ g[m] = body[m][f]
        /\ \A i \in 1..N : i # m => g[i] = f[i]
    BY <2>2, <2>3
  <2> HIDE DEF g
  <2>5. ASSUME NEW i \in m..N PROVE g[i] = body[i][g]
    <3>1. i \in 1..N /\ \A j \in (i + 1)..N : j \in 1..N /\ j # m
      BY <2>2
    <3>2. body[i][g] = body[i][f]
      BY <2>4, <3>1 DEF LooksOn
    <3>3. CASE i = m
      BY <2>4, <3>2, <3>3
    <3>4. CASE i # m
      <4>1. i \in (m + 1)..N
        BY <2>2, <3>4
      <4>2. f[i] = body[i][f]
        BY <2>1, <2>2, <4>1
      <4>. QED
        BY <2>4, <3>1, <3>2, <3>4, <4>2
    <3>. QED
      BY <3>3, <3>4
  <2>. QED
    BY <2>2, <2>4, <2>5
<1> HIDE DEF T
<1>3. N \in T
  BY <1>1, <1>2, ByInduction
<1>4. PICK f \in [1..N -> D] : Solves(f, N)
  BY <1>3 DEF T
<1>5. \A i \in 1..N : f[i] = body[i][f]
  BY <1>4
<1>. QED
  BY <1>5 DEF Descents

\* Induction from N down: a set with N + 1, and with i for every i after which it
\* has everything.
LEMMA DownFrom ==
    ASSUME NEW N \in Nat, NEW T,
           \A i \in 1..N : (\A j \in (i + 1)..N : j \in T) => i \in T
    PROVE  1..N \subseteq T
<1> DEFINE U == {k \in Nat : \A i \in 1..N : i >= N - k => i \in T}
<1>1. 0 \in U
  OBVIOUS
<1>2. ASSUME NEW k \in Nat, k \in U PROVE k + 1 \in U
  <2> SUFFICES ASSUME NEW i \in 1..N, i >= N - (k + 1)
               PROVE  i \in T
    OBVIOUS
  <2>1. \A j \in (i + 1)..N : j \in 1..N /\ j >= N - k
    OBVIOUS
  <2>. QED
    BY <1>2, <2>1
<1> HIDE DEF U
<1>3. N \in U
  BY <1>1, <1>2, ByInduction
<1>. QED
  BY <1>3 DEF U

-----------------------------------------------------------------------------
QueuesOf(F) == [frames : Seq(F), bytes : Nat, closed : BOOLEAN]

\* The field `frames`, `bytes` and `closed` of a queue after each operation.
LEMMA EmptyQueueIs ==
    ASSUME NEW F
    PROVE  /\ EmptyQueue \in QueuesOf(F)
           /\ EmptyQueue.frames = <<>>
           /\ EmptyQueue.bytes = 0
           /\ EmptyQueue.closed = FALSE
BY DEF EmptyQueue, QueuesOf

LEMMA PushedIs ==
    ASSUME NEW F, NEW q \in QueuesOf(F), NEW f \in F, f.size \in Nat
    PROVE  /\ Pushed(q, f) \in QueuesOf(F)
           /\ Pushed(q, f).frames = Append(q.frames, f)
           /\ Pushed(q, f).bytes = q.bytes + f.size
           /\ Pushed(q, f).closed = q.closed
<1> DEFINE a == Append(q.frames, f)
           b == q.bytes + f.size
<1>1. q.frames \in Seq(F) /\ q.bytes \in Nat
  BY DEF QueuesOf
<1>2. a \in Seq(F) /\ b \in Nat
  BY <1>1, AppendProperties
<1>3. Pushed(q, f) = [q EXCEPT !.frames = a, !.bytes = b]
  BY DEF Pushed
<1> HIDE DEF a, b
<1>4. /\ Pushed(q, f) \in QueuesOf(F)
      /\ Pushed(q, f).frames = a
      /\ Pushed(q, f).bytes = b
      /\ Pushed(q, f).closed = q.closed
  BY <1>2, <1>3 DEF QueuesOf
<1>. QED
  BY <1>4 DEF a, b

LEMMA ClosedIs ==
    ASSUME NEW F, NEW q
    PROVE  /\ Closed(q) \in QueuesOf(F)
           /\ Closed(q).frames = <<>>
           /\ Closed(q).bytes = 0
           /\ Closed(q).closed = TRUE
BY DEF Closed, QueuesOf

LEMMA PoppedIs ==
    ASSUME NEW F, NEW q \in QueuesOf(F), q.frames # <<>>
    PROVE  /\ Popped(q) \in QueuesOf(F)
           /\ Popped(q).frames = Tail(q.frames)
           /\ Popped(q).bytes = q.bytes
           /\ Popped(q).closed = q.closed
           /\ Head(q.frames) \in F
           /\ Head(q.frames) = q.frames[1]
           /\ Len(q.frames) > 0
           /\ Len(Tail(q.frames)) = Len(q.frames) - 1
           /\ \A i \in 1..(Len(q.frames) - 1) : Tail(q.frames)[i] = q.frames[i + 1]
<1>1. q.frames \in Seq(F)
  BY DEF QueuesOf
<1>2. /\ Tail(q.frames) \in Seq(F)
      /\ Head(q.frames) \in F
      /\ Len(Tail(q.frames)) = Len(q.frames) - 1
      /\ \A i \in 1..Len(Tail(q.frames)) : Tail(q.frames)[i] = q.frames[i + 1]
  BY <1>1, HeadTailProperties
<1>3. Head(q.frames) = q.frames[1] /\ Len(q.frames) > 0
  BY <1>1
<1>. QED
  BY <1>2, <1>3 DEF Popped, QueuesOf

LEMMA CountedIs ==
    ASSUME NEW F, NEW q \in QueuesOf(F), NEW f, f.size \in Nat
    PROVE  /\ Counted(q, f) \in QueuesOf(F)
           /\ Counted(q, f).frames = q.frames
           /\ Counted(q, f).bytes =
                IF q.bytes >= f.size THEN q.bytes - f.size ELSE 0
           /\ Counted(q, f).closed = q.closed
<1> DEFINE c == IF q.bytes >= f.size THEN q.bytes - f.size ELSE 0
<1>1. c \in Nat
  BY DEF QueuesOf
<1>2. Counted(q, f) = [q EXCEPT !.bytes = c]
  BY DEF Counted
<1> HIDE DEF c
<1>3. /\ Counted(q, f) \in QueuesOf(F)
      /\ Counted(q, f).frames = q.frames
      /\ Counted(q, f).bytes = c
      /\ Counted(q, f).closed = q.closed
  BY <1>1, <1>2 DEF QueuesOf
<1>. QED
  BY <1>3 DEF c
=============================================================================
