------------------------------ MODULE AttachProofs ------------------------------
(***************************************************************************)
(* Proofs about the attach process on Unix. What DetachKey does byte by    *)
(* byte is compared with what all of the bytes typed mean, for every       *)
(* length of input and every way it is cut into reads: by induction over   *)
(* the bytes of a read, and then over the steps of the loop. The types and *)
(* that a second attach starts on a clean terminal need no more than the   *)
(* invariant that is proved with them.                                     *)
(***************************************************************************)
EXTENDS AttachClient, CommonLemmas, FiniteSetTheorems

Keys == [armed : BOOLEAN, forward : Seq(Bytes), detached : BOOLEAN]

-----------------------------------------------------------------------------
\* DetachKey::feed, byte by byte.

\* What one byte does to each field.
LEMMA StepIs ==
    ASSUME NEW key \in Keys, NEW byte \in Bytes
    PROVE  /\ Step(key, byte) \in Keys
           /\ key.detached => Step(key, byte) = key
           /\ ~key.detached =>
                /\ Step(key, byte).armed <=> ~key.armed /\ byte = "prefix"
                /\ Step(key, byte).detached <=> key.armed /\ byte = "d"
                /\ Step(key, byte).forward =
                     key.forward \o
                       IF key.armed
                       THEN IF byte = "d" THEN <<>>
                            ELSE IF byte = "prefix" THEN <<"prefix">>
                            ELSE <<"prefix", byte>>
                       ELSE IF byte = "prefix" THEN <<>> ELSE <<byte>>
<1>1. key.forward \in Seq(Bytes) /\ key.armed \in BOOLEAN /\ key.detached \in BOOLEAN
      /\ key.forward \o <<>> = key.forward
  BY DEF Keys
<1>2. byte = "d" \/ byte = "prefix" \/ byte = "other"
  BY DEF Bytes
<1>3. /\ key.forward \o <<"prefix">> \in Seq(Bytes)
       /\ key.forward \o <<"prefix", byte>> \in Seq(Bytes)
       /\ key.forward \o <<byte>> \in Seq(Bytes)
  <2>1. <<"prefix">> \in Seq(Bytes) /\ <<"prefix", byte>> \in Seq(Bytes) /\ <<byte>> \in Seq(Bytes)
    BY DEF Bytes
  <2>. QED
    BY <1>1, <2>1
<1>4. CASE key.detached
  BY <1>4 DEF Step
<1>5. CASE ~key.detached /\ key.armed /\ byte = "d"
  <2>1. Step(key, byte) = [key EXCEPT !.armed = FALSE, !.detached = TRUE]
    BY <1>5 DEF Step
  <2>. QED
    BY <1>1, <1>5, <2>1 DEF Keys
<1>6. CASE ~key.detached /\ key.armed /\ byte = "prefix"
  <2>1. Step(key, byte) = [key EXCEPT !.armed = FALSE, !.forward = @ \o <<"prefix">>]
    BY <1>6 DEF Step
  <2>. QED
    BY <1>1, <1>3, <1>6, <2>1 DEF Keys
<1>7. CASE ~key.detached /\ key.armed /\ byte = "other"
  <2>1. Step(key, byte) = [key EXCEPT !.armed = FALSE, !.forward = @ \o <<"prefix", byte>>]
    BY <1>7 DEF Step
  <2>. QED
    BY <1>1, <1>3, <1>7, <2>1 DEF Keys
<1>8. CASE ~key.detached /\ ~key.armed /\ byte = "prefix"
  <2>1. Step(key, byte) = [key EXCEPT !.armed = TRUE]
    BY <1>8 DEF Step
  <2>. QED
    BY <1>1, <1>8, <2>1 DEF Keys
<1>9. CASE ~key.detached /\ ~key.armed /\ byte # "prefix"
  <2>1. Step(key, byte) = [key EXCEPT !.forward = @ \o <<byte>>]
    BY <1>9 DEF Step
  <2>. QED
    BY <1>1, <1>3, <1>9, <2>1 DEF Keys
<1>. QED
  BY <1>1, <1>2, <1>4, <1>5, <1>6, <1>7, <1>8, <1>9

\* A read is fed from its first byte to its last.
FedBy(f, key, input) ==
    f[0] = key /\ \A n \in 1..Len(input) : f[n] = Step(f[n - 1], input[n])

LEMMA FeedIs ==
    ASSUME NEW key \in Keys, NEW input \in Seq(Bytes)
    PROVE  \E f \in [0..Len(input) -> Keys] :
             FedBy(f, key, input) /\ Feed(key, input) = f[Len(input)]
<1> DEFINE N == Len(input)
           step == [n \in 1..N |-> [k \in Keys |-> Step(k, input[n])]]
           fed[n \in 0..N] ==
             IF n = 0 THEN key ELSE Step(fed[n - 1], input[n])
           Is(f) == f = [n \in 0..N |-> IF n = 0 THEN key ELSE Step(f[n - 1], input[n])]
<1>1. N \in Nat /\ \A n \in 1..N : input[n] \in Bytes
  OBVIOUS
<1>2. Feed(key, input) = fed[N]
  BY DEF Feed, N
<1>3. \A n \in 1..N : \A k \in Keys : Step(k, input[n]) \in Keys
  BY <1>1, StepIs
<1> HIDE DEF N
<1>4. step \in [1..N -> [Keys -> Keys]]
  BY <1>3
<1> HIDE DEF step
<1>5. PICK f : f \in Recursions(N, Keys, key, step)
  BY <1>1, <1>4, RecursionExists
<1>6. f \in [0..N -> Keys] /\ f[0] = key /\ \A n \in 1..N : f[n] = step[n][f[n - 1]]
  BY <1>5 DEF Recursions
<1>7. \A n \in 1..N : f[n] = Step(f[n - 1], input[n])
  <2>1. \A n \in 1..N : f[n - 1] \in Keys
    BY <1>1, <1>6
  <2>. QED
    BY <1>6, <2>1 DEF step
<1>8. Is(f)
  BY <1>1, <1>6, <1>7
<1>9. Is(fed)
  BY <1>8
<1> HIDE DEF fed
<1>10. \A n \in 0..N : fed[n] = IF n = 0 THEN key ELSE Step(fed[n - 1], input[n])
  BY <1>9
<1> DEFINE T == {n \in 0..N : fed[n] = f[n]}
<1>11. 0..N \subseteq T
  <2>1. 0 \in T
    BY <1>1, <1>6, <1>10
  <2>2. ASSUME NEW n \in 1..N, n - 1 \in T PROVE n \in T
    BY <1>1, <1>7, <1>10, <2>2
  <2> HIDE DEF T
  <2>. QED
    BY <1>1, <2>1, <2>2, UpTo
<1>12. fed[N] = f[N]
  BY <1>1, <1>11
<1>. QED
  BY <1>2, <1>6, <1>7, <1>12 DEF FedBy, N
-----------------------------------------------------------------------------
\* What all of the bytes typed mean, and what one more byte changes of it.

\* The prefix keys right before a byte, counted from the byte before it.
LEMMA RunIs ==
    ASSUME NEW s \in Seq(Bytes), NEW i \in 1..Len(s)
    PROVE  /\ RunBefore(s, i) \in Nat
           /\ RunBefore(s, i + 1) = IF s[i] = "prefix" THEN RunBefore(s, i) + 1 ELSE 0
<1> DEFINE Before(k) == {j \in 1..(k - 1) : \A x \in j..(k - 1) : s[x] = "prefix"}
<1>1. i \in Nat /\ i - 1 \in Nat /\ (i + 1) - 1 = i
  OBVIOUS
<1>2. IsFiniteSet(Before(i)) /\ Cardinality(Before(i)) \in Nat
  <2>1. IsFiniteSet(1..(i - 1)) /\ Before(i) \subseteq 1..(i - 1)
    BY <1>1, FS_Interval
  <2>. QED
    BY <2>1, FS_Subset, FS_CardinalityType
<1>3. RunBefore(s, i) = Cardinality(Before(i)) /\ RunBefore(s, i + 1) = Cardinality(Before(i + 1))
  BY DEF RunBefore
<1>4. CASE s[i] = "prefix"
  <2>1. Before(i + 1) = Before(i) \cup {i} /\ i \notin Before(i)
    BY <1>1, <1>4
  <2>. QED
    BY <1>2, <1>3, <1>4, <2>1, FS_AddElement
<1>5. CASE s[i] # "prefix"
  <2>1. Before(i + 1) = {}
    BY <1>1, <1>5
  <2>. QED
    BY <1>2, <1>3, <1>5, <2>1, FS_EmptySet
<1>. QED
  BY <1>4, <1>5

\* Nothing that is typed later changes which prefix keys arm; the next one arms
\* unless the one before it does.
LEMMA ArmsAppend ==
    ASSUME NEW s \in Seq(Bytes), NEW b \in Bytes
    PROVE  /\ \A i \in 1..Len(s) : Arms(Append(s, b), i) <=> Arms(s, i)
           /\ Arms(Append(s, b), Len(s) + 1) <=>
                b = "prefix" /\ ~(s # <<>> /\ Arms(s, Len(s)))
<1> DEFINE t == Append(s, b)
           n == Len(s)
<1>1. /\ t \in Seq(Bytes) /\ Len(t) = n + 1 /\ n \in Nat /\ t[n + 1] = b
      /\ \A i \in 1..n : t[i] = s[i]
  OBVIOUS
<1>2. \A i \in 1..(n + 1) : RunBefore(t, i) = RunBefore(s, i)
  <2> SUFFICES ASSUME NEW i \in 1..(n + 1) PROVE RunBefore(t, i) = RunBefore(s, i)
    OBVIOUS
  <2>1. \A j \in 1..(i - 1) : \A x \in j..(i - 1) : x \in 1..n
    BY <1>1
  <2>2. {j \in 1..(i - 1) : \A x \in j..(i - 1) : t[x] = "prefix"} =
        {j \in 1..(i - 1) : \A x \in j..(i - 1) : s[x] = "prefix"}
    BY <1>1, <2>1
  <2>. QED
    BY <2>2 DEF RunBefore
<1>3. \A i \in 1..n : Arms(t, i) <=> Arms(s, i)
  BY <1>1, <1>2 DEF Arms
<1>4. Arms(t, n + 1) <=> b = "prefix" /\ RunBefore(s, n + 1) % 2 = 0
  BY <1>1, <1>2 DEF Arms
<1>5. CASE s = <<>>
  <2>1. n = 0
    BY <1>5
  <2>2. {j \in 1..0 : \A x \in j..0 : s[x] = "prefix"} = {}
    OBVIOUS
  <2>3. RunBefore(s, n + 1) = 0
    BY <2>1, <2>2, FS_EmptySet DEF RunBefore
  <2>. QED
    BY <1>3, <1>4, <1>5, <2>3
<1>6. CASE s # <<>>
  <2>1. n \in 1..n
    BY <1>1, <1>6
  <2>2. /\ RunBefore(s, n) \in Nat
        /\ RunBefore(s, n + 1) = IF s[n] = "prefix" THEN RunBefore(s, n) + 1 ELSE 0
    BY <2>1, RunIs
  <2>3. RunBefore(s, n + 1) % 2 = 0 <=> ~Arms(s, n)
    <3> DEFINE r == RunBefore(s, n)
    <3>1. \A m \in Nat : (m + 1) % 2 = 0 <=> m % 2 # 0
      OBVIOUS
    <3>2. CASE s[n] = "prefix"
      BY <2>2, <3>1, <3>2 DEF Arms
    <3>3. CASE s[n] # "prefix"
      BY <2>2, <3>3 DEF Arms
    <3>. QED
      BY <3>2, <3>3
  <2>. QED
    BY <1>3, <1>4, <1>6, <2>3
<1>. QED
  BY <1>5, <1>6

\* The last byte typed is a prefix key that arms.
Armed(s) == s # <<>> /\ Arms(s, Len(s))

LEMMA DetachesAppend ==
    ASSUME NEW s \in Seq(Bytes), NEW b \in Bytes
    PROVE  DetachesAt(Append(s, b)) =
             DetachesAt(s) \cup IF b = "d" /\ Armed(s) THEN {Len(s) + 1} ELSE {}
<1> DEFINE t == Append(s, b)
           n == Len(s)
<1>1. /\ Len(t) = n + 1 /\ n \in Nat /\ t[n + 1] = b /\ \A i \in 1..n : t[i] = s[i]
      /\ n = 0 <=> s = <<>>
  OBVIOUS
<1>2. \A i \in 1..n : Arms(t, i) <=> Arms(s, i)
  BY ArmsAppend
<1> HIDE DEF t
<1>3. \A i \in 2..n : i \in DetachesAt(t) <=> i \in DetachesAt(s)
  BY <1>1, <1>2 DEF DetachesAt
<1>4. n + 1 \in DetachesAt(t) <=> b = "d" /\ Armed(s)
  <2>1. CASE n = 0
    BY <1>1, <2>1 DEF DetachesAt, Armed
  <2>2. CASE n # 0
    <3>1. n + 1 \in 2..Len(t) /\ (n + 1) - 1 = n /\ n \in 1..n
      BY <1>1, <2>2
    <3>. QED
      BY <1>1, <1>2, <2>2, <3>1 DEF DetachesAt, Armed
  <2>. QED
    BY <2>1, <2>2
<1>5. DetachesAt(t) \subseteq 2..(n + 1) /\ DetachesAt(s) \subseteq 2..n
  BY <1>1 DEF DetachesAt
<1>. QED
  BY <1>1, <1>3, <1>4, <1>5 DEF t

\* Whether a byte is sent is known once the next one is typed.
LEMMA SentAppend ==
    ASSUME NEW s \in Seq(Bytes), NEW b \in Bytes
    PROVE  /\ \A i \in 1..(Len(s) - 1) : i \in Sent(Append(s, b)) <=> i \in Sent(s)
           /\ s # <<>> =>
                /\ Len(s) \in Sent(s) <=> ~Armed(s)
                /\ Len(s) \in Sent(Append(s, b)) <=> ~Armed(s) \/ b = "other"
           /\ Len(s) + 1 \in Sent(Append(s, b)) <=> b # "prefix" \/ Armed(s)
<1> DEFINE t == Append(s, b)
           n == Len(s)
<1>1. /\ Len(t) = n + 1 /\ n \in Nat /\ t[n + 1] = b /\ \A i \in 1..n : t[i] = s[i]
      /\ s # <<>> => n # 0
  OBVIOUS
<1>2. /\ \A i \in 1..n : Arms(t, i) <=> Arms(s, i)
      /\ Arms(t, n + 1) <=> b = "prefix" /\ ~Armed(s)
  BY ArmsAppend DEF Armed
<1> HIDE DEF t, n
<1>3. \A i \in 1..(n - 1) : i \in Sent(t) <=> i \in Sent(s)
  <2> SUFFICES ASSUME NEW i \in 1..(n - 1) PROVE i \in Sent(t) <=> i \in Sent(s)
    OBVIOUS
  <2>1. i \in 1..n /\ i + 1 \in 1..n /\ i \in 1..Len(t) /\ i < n /\ i < Len(t)
    BY <1>1
  <2>2. i \in Sent(t) <=> (Arms(t, i) => t[i + 1] = "other")
    BY <2>1 DEF Sent
  <2>3. i \in Sent(s) <=> (Arms(s, i) => s[i + 1] = "other")
    BY <2>1 DEF Sent, n
  <2>. QED
    BY <1>1, <1>2, <2>1, <2>2, <2>3
<1>4. ASSUME s # <<>>
      PROVE  /\ n \in Sent(s) <=> ~Armed(s)
             /\ n \in Sent(t) <=> ~Armed(s) \/ b = "other"
  <2>1. n \in 1..n /\ n \in 1..Len(t) /\ n < Len(t) /\ ~(n < n)
    BY <1>1, <1>4
  <2>2. n \in Sent(t) <=> (Arms(t, n) => t[n + 1] = "other")
    BY <2>1 DEF Sent
  <2>3. n \in Sent(s) <=> ~Arms(s, n)
    BY <2>1 DEF Sent, n
  <2>4. Armed(s) <=> Arms(s, n)
    BY <1>4 DEF Armed, n
  <2>. QED
    BY <1>1, <1>2, <2>1, <2>2, <2>3, <2>4
<1>5. n + 1 \in Sent(t) <=> b # "prefix" \/ Armed(s)
  <2>1. n + 1 \in Sent(t) <=> ~Arms(t, n + 1)
    BY <1>1 DEF Sent
  <2>. QED
    BY <1>2, <2>1
<1>. QED
  BY <1>3, <1>4, <1>5 DEF t, n

-----------------------------------------------------------------------------
\* What is sent of what was typed, byte by byte.

\* All of it, while the detach key was not pressed; then nothing changes it.
LEMMA KeptIs ==
    ASSUME NEW s \in Seq(Bytes), NEW b \in Bytes
    PROVE  /\ Kept(s) \in 0..Len(s)
           /\ DetachesAt(s) = {} => Kept(s) = Len(s)
           /\ DetachesAt(s) # {} => Kept(s) <= Len(s) - 2 /\ Kept(Append(s, b)) = Kept(s)
           /\ DetachesAt(s) = {} /\ b = "d" /\ Armed(s) =>
                Len(s) # 0 /\ Kept(Append(s, b)) = Len(s) - 1
           /\ DetachesAt(s) = {} /\ ~(b = "d" /\ Armed(s)) =>
                Kept(Append(s, b)) = Len(s) + 1
<1> DEFINE t == Append(s, b)
           n == Len(s)
<1>1. Len(t) = n + 1 /\ n \in Nat
  OBVIOUS
<1>2. DetachesAt(t) = DetachesAt(s) \cup IF b = "d" /\ Armed(s) THEN {n + 1} ELSE {}
  BY DetachesAppend
<1>3. DetachesAt(s) \subseteq 2..n
  BY DEF DetachesAt
<1> HIDE DEF t, n
<1>4. ASSUME NEW D \in SUBSET Nat, D # {}, NEW d \in D, \A x \in D : d <= x
      PROVE  Min(D) = d
  <2>1. Min(D) \in D /\ \A x \in D : Min(D) <= x
    BY <1>4 DEF Min
  <2>2. Min(D) <= d /\ d <= Min(D) /\ Min(D) \in Nat /\ d \in Nat
    BY <1>4, <2>1
  <2> HIDE DEF Min
  <2>. QED
    BY <2>2
<1>5. CASE DetachesAt(s) # {}
  <2>1. PICK d \in DetachesAt(s) : \A x \in DetachesAt(s) : d <= x
    BY <1>1, <1>3, <1>5, LeastNatural
  <2>2. Min(DetachesAt(s)) = d
    BY <1>1, <1>3, <1>4, <2>1
  <2>3. DetachesAt(t) \in SUBSET Nat /\ d \in DetachesAt(t) /\ \A x \in DetachesAt(t) : d <= x
    BY <1>1, <1>2, <1>3, <2>1
  <2>4. Min(DetachesAt(t)) = d
    BY <1>4, <2>3
  <2>5. Kept(s) = d - 2 /\ Kept(t) = d - 2
    BY <1>5, <2>2, <2>3, <2>4 DEF Kept
  <2>6. d \in 2..n
    BY <1>3
  <2>. QED
    BY <1>1, <1>5, <2>5, <2>6 DEF t, n
<1>6. CASE DetachesAt(s) = {}
  <2>1. Kept(s) = n
    BY <1>6 DEF Kept, n
  <2>2. CASE b = "d" /\ Armed(s)
    <3>1. DetachesAt(t) = {n + 1}
      BY <1>2, <1>6, <2>2
    <3>2. Min({n + 1}) = n + 1
      BY <1>1, <1>4
    <3>3. Kept(t) = n - 1
      BY <1>1, <3>1, <3>2 DEF Kept
    <3>4. n # 0
      BY <2>2, EmptySeq DEF Armed, n
    <3>. QED
      BY <1>1, <1>6, <2>1, <2>2, <3>3, <3>4 DEF t, n
  <2>3. CASE ~(b = "d" /\ Armed(s))
    <3>1. DetachesAt(t) = {}
      BY <1>2, <1>6, <2>3
    <3>2. Kept(t) = n + 1
      BY <1>1, <3>1 DEF Kept
    <3>. QED
      BY <1>1, <1>6, <2>1, <2>3, <3>2 DEF t, n
  <2>. QED
    BY <2>2, <2>3
<1>. QED
  BY <1>5, <1>6

\* f[n] is what is sent of the first n bytes.
Picks(f, s, N) ==
    /\ f[0] = <<>>
    /\ \A n \in 1..N : f[n] = IF n \in Sent(s) THEN Append(f[n - 1], s[n]) ELSE f[n - 1]

LEMMA SentIs ==
    ASSUME NEW s \in Seq(Bytes)
    PROVE  \E f \in [0..Kept(s) -> Seq(Bytes)] :
             Picks(f, s, Kept(s)) /\ SentOf(s) = f[Kept(s)]
<1> DEFINE N == Kept(s)
           step == [n \in 1..N |->
                      [q \in Seq(Bytes) |-> IF n \in Sent(s) THEN Append(q, s[n]) ELSE q]]
           sent[n \in 0..N] ==
             IF n = 0 THEN <<>>
             ELSE IF n \in Sent(s) THEN Append(sent[n - 1], s[n]) ELSE sent[n - 1]
           Goes(f, n) ==
             IF n = 0 THEN <<>>
             ELSE IF n \in Sent(s) THEN Append(f[n - 1], s[n]) ELSE f[n - 1]
           Is(f) == f = [n \in 0..N |-> Goes(f, n)]
<1>1. N \in 0..Len(s) /\ N \in Nat
  <2>1. "d" \in Bytes
    BY DEF Bytes
  <2>2. Kept(s) \in 0..Len(s)
    BY <2>1, KeptIs
  <2>. QED
    BY <2>2
<1>2. SentOf(s) = sent[N]
  BY DEF SentOf, N
<1> HIDE DEF N
<1>3. \A n \in 1..N : s[n] \in Bytes
  BY <1>1
<1>4. \A n \in 1..N : \A q \in Seq(Bytes) :
        (IF n \in Sent(s) THEN Append(q, s[n]) ELSE q) \in Seq(Bytes)
  BY <1>3
<1>5. step \in [1..N -> [Seq(Bytes) -> Seq(Bytes)]] /\ <<>> \in Seq(Bytes)
  BY <1>4
<1> HIDE DEF step
<1>6. PICK f : f \in Recursions(N, Seq(Bytes), <<>>, step)
  BY <1>1, <1>5, RecursionExists
<1>7. f \in [0..N -> Seq(Bytes)] /\ f[0] = <<>> /\ \A n \in 1..N : f[n] = step[n][f[n - 1]]
  BY <1>6 DEF Recursions
<1>8. \A n \in 1..N : f[n] = IF n \in Sent(s) THEN Append(f[n - 1], s[n]) ELSE f[n - 1]
  <2>1. \A n \in 1..N : f[n - 1] \in Seq(Bytes)
    BY <1>1, <1>7
  <2>2. \A n \in 1..N : \A q \in Seq(Bytes) :
          step[n][q] = IF n \in Sent(s) THEN Append(q, s[n]) ELSE q
    BY DEF step
  <2>3. ASSUME NEW n \in 1..N
        PROVE  f[n] = IF n \in Sent(s) THEN Append(f[n - 1], s[n]) ELSE f[n - 1]
    <3>1. f[n] = step[n][f[n - 1]] /\ f[n - 1] \in Seq(Bytes)
      BY <1>7, <2>1
    <3>2. step[n][f[n - 1]] =
            IF n \in Sent(s) THEN Append(f[n - 1], s[n]) ELSE f[n - 1]
      BY <2>2, <3>1
    <3>. QED
      BY <3>1, <3>2
  <2>. QED
    BY <2>3
<1>9. Is(f)
  <2>1. Goes(f, 0) = <<>> /\ f[0] = <<>>
    BY <1>7
  <2>2. ASSUME NEW n \in 1..N PROVE f[n] = Goes(f, n)
    <3>1. n # 0
      BY <1>1
    <3>2. Goes(f, n) = IF n \in Sent(s) THEN Append(f[n - 1], s[n]) ELSE f[n - 1]
      BY <3>1
    <3>. QED
      BY <1>8, <3>2
  <2> HIDE DEF Goes
  <2>3. \A n \in 0..N : f[n] = Goes(f, n)
    BY <1>1, <2>1, <2>2
  <2>. QED
    BY <1>7, <2>3
<1>10. Is(sent)
  BY <1>9
<1> HIDE DEF sent
<1>11. \A n \in 0..N : sent[n] = IF n = 0 THEN <<>>
         ELSE IF n \in Sent(s) THEN Append(sent[n - 1], s[n]) ELSE sent[n - 1]
  BY <1>10
<1> DEFINE T == {n \in 0..N : sent[n] = f[n]}
<1>12. 0..N \subseteq T
  <2>1. 0 \in T
    BY <1>1, <1>7, <1>11
  <2>2. ASSUME NEW n \in 1..N, n - 1 \in T PROVE n \in T
    BY <1>1, <1>8, <1>11, <2>2
  <2> HIDE DEF T
  <2>. QED
    BY <1>1, <2>1, <2>2, UpTo
<1>13. sent[N] = f[N]
  BY <1>1, <1>12
<1>. QED
  BY <1>2, <1>7, <1>8, <1>13 DEF Picks, N

\* The same bytes, sent or not, come to the same.
Alike(s, t, N) == \A n \in 1..N : s[n] = t[n] /\ (n \in Sent(s) <=> n \in Sent(t))

LEMMA PicksAgree ==
    ASSUME NEW N \in Nat, NEW s, NEW t, NEW f, NEW g, Picks(f, s, N), Picks(g, t, N),
           Alike(s, t, N)
    PROVE  f[N] = g[N]
<1> DEFINE T == {n \in 0..N : f[n] = g[n]}
<1>1. 0 \in T
  BY DEF Picks
<1>2. ASSUME NEW n \in 1..N, n - 1 \in T PROVE n \in T
  BY <1>2 DEF Picks, Alike
<1> HIDE DEF T
<1>3. 0..N \subseteq T
  BY <1>1, <1>2, UpTo
<1>. QED
  BY <1>3 DEF T

\* What a byte adds to what is sent.
Adds(armedBefore, b) ==
    IF armedBefore
    THEN IF b = "d" THEN <<>> ELSE IF b = "prefix" THEN <<"prefix">> ELSE <<"prefix", b>>
    ELSE IF b = "prefix" THEN <<>> ELSE <<b>>

LEMMA Concatenated ==
    ASSUME NEW q \in Seq(Bytes), NEW a \in Bytes, NEW b \in Bytes
    PROVE  /\ q \o <<>> = q
           /\ Append(q, a) = q \o <<a>>
           /\ Append(Append(q, a), b) = q \o <<a, b>>
OBVIOUS

LEMMA SentOfAppend ==
    ASSUME NEW s \in Seq(Bytes), NEW b \in Bytes
    PROVE  /\ SentOf(s) \in Seq(Bytes)
           /\ DetachesAt(s) # {} => SentOf(Append(s, b)) = SentOf(s)
           /\ DetachesAt(s) = {} =>
                SentOf(Append(s, b)) = SentOf(s) \o Adds(Armed(s), b)
<1> DEFINE t == Append(s, b)
           n == Len(s)
<1>1. /\ t \in Seq(Bytes) /\ Len(t) = n + 1 /\ n \in Nat /\ t[n + 1] = b
      /\ \A i \in 1..n : t[i] = s[i] /\ s[i] \in Bytes
      /\ n = 0 <=> s = <<>>
  OBVIOUS
<1>2. PICK f \in [0..Kept(s) -> Seq(Bytes)] :
        Picks(f, s, Kept(s)) /\ SentOf(s) = f[Kept(s)]
  BY SentIs
<1>3. PICK g \in [0..Kept(t) -> Seq(Bytes)] :
        Picks(g, t, Kept(t)) /\ SentOf(t) = g[Kept(t)]
  BY <1>1, SentIs
<1>4. /\ Kept(s) \in 0..n
      /\ DetachesAt(s) = {} => Kept(s) = n
      /\ DetachesAt(s) # {} => Kept(s) <= n - 2 /\ Kept(t) = Kept(s)
      /\ DetachesAt(s) = {} /\ b = "d" /\ Armed(s) => n # 0 /\ Kept(t) = n - 1
      /\ DetachesAt(s) = {} /\ ~(b = "d" /\ Armed(s)) => Kept(t) = n + 1
  BY KeptIs
<1>5. /\ \A i \in 1..(n - 1) : i \in Sent(t) <=> i \in Sent(s)
      /\ s # <<>> => /\ n \in Sent(s) <=> ~Armed(s)
                     /\ n \in Sent(t) <=> ~Armed(s) \/ b = "other"
      /\ n + 1 \in Sent(t) <=> b # "prefix" \/ Armed(s)
  BY SentAppend
<1>6. Armed(s) => n # 0 /\ s[n] = "prefix"
  BY <1>1 DEF Armed, Arms
<1> HIDE DEF t, n
<1>7. SentOf(s) \in Seq(Bytes)
  BY <1>1, <1>2, <1>4
<1>8. ASSUME NEW m \in Nat, m <= Kept(s), m <= Kept(t), m <= n - 1
      PROVE  f[m] = g[m]
  <2>1. Picks(f, s, m) /\ Picks(g, t, m)
    <3>1. Kept(s) \in Nat /\ Kept(t) \in Int
      BY <1>1, <1>4
    <3>2. \A i \in 1..m : i \in 1..Kept(s) /\ i \in 1..Kept(t)
      BY <1>8, <3>1
    <3>. QED
      BY <1>2, <1>3, <3>2 DEF Picks
  <2>2. Alike(s, t, m)
    <3>1. \A i \in 1..m : i \in 1..n /\ i \in 1..(n - 1)
      BY <1>1, <1>8
    <3>. QED
      BY <1>1, <1>5, <3>1 DEF Alike
  <2>. QED
    BY <2>1, <2>2, PicksAgree
<1>9. ASSUME DetachesAt(s) # {} PROVE SentOf(t) = SentOf(s)
  <2>1. Kept(s) \in Nat /\ Kept(s) <= n - 1 /\ Kept(t) = Kept(s)
    BY <1>1, <1>4, <1>9
  <2>. QED
    BY <1>2, <1>3, <1>8, <2>1
<1>10. ASSUME DetachesAt(s) = {}, n = 0 PROVE SentOf(t) = SentOf(s) \o Adds(Armed(s), b)
  <2>1. ~Armed(s) /\ Kept(s) = 0 /\ Kept(t) = 1 /\ t[1] = b
    BY <1>1, <1>4, <1>6, <1>10
  <2>2. g[0] = <<>> /\ f[0] = <<>>
    BY <1>2, <1>3 DEF Picks
  <2>3. g[1] = IF b # "prefix" THEN Append(g[0], b) ELSE g[0]
    <3>1. 1 \in Sent(t) <=> b # "prefix"
      BY <1>5, <1>10, <2>1
    <3>2. g[1] = IF 1 \in Sent(t) THEN Append(g[1 - 1], t[1]) ELSE g[1 - 1]
      BY <1>3, <2>1 DEF Picks
    <3>. QED
      BY <2>1, <3>1, <3>2
  <2>4. SentOf(t) = g[1] /\ SentOf(s) = <<>>
    BY <1>2, <1>3, <2>1, <2>2
  <2>5. <<>> \in Seq(Bytes)
    OBVIOUS
  <2>6. CASE b = "prefix"
    BY <2>1, <2>2, <2>3, <2>4, <2>5, <2>6, Concatenated DEF Adds
  <2>7. CASE b # "prefix"
    BY <2>1, <2>2, <2>3, <2>4, <2>5, <2>7, Concatenated DEF Adds
  <2>. QED
    BY <2>6, <2>7
<1>11. ASSUME DetachesAt(s) = {}, n # 0 PROVE SentOf(t) = SentOf(s) \o Adds(Armed(s), b)
  <2>1. Kept(s) = n /\ SentOf(s) = f[n] /\ n - 1 \in Nat /\ n \in 1..n /\ Kept(t) >= n - 1
    BY <1>1, <1>2, <1>4, <1>11
  <2>2. f[n - 1] = g[n - 1] /\ f[n - 1] \in Seq(Bytes) /\ f[n] \in Seq(Bytes)
    <3>1. Kept(t) \in Int /\ n - 1 <= Kept(s) /\ n - 1 <= Kept(t) /\ n - 1 <= n - 1
      BY <1>1, <1>4, <1>11, <2>1
    <3>2. f[n - 1] = g[n - 1]
      BY <1>8, <2>1, <3>1
    <3>3. n - 1 \in 0..Kept(s) /\ n \in 0..Kept(s)
      BY <1>1, <2>1
    <3>. QED
      BY <3>2, <3>3
  <2>3. f[n] = IF ~Armed(s) THEN Append(f[n - 1], s[n]) ELSE f[n - 1]
    <3>1. f[n] = IF n \in Sent(s) THEN Append(f[n - 1], s[n]) ELSE f[n - 1]
      BY <1>2, <2>1 DEF Picks
    <3>. QED
      BY <1>1, <1>5, <1>11, <3>1
  <2>4. CASE b = "d" /\ Armed(s)
    <3>1. SentOf(t) = g[n - 1]
      BY <1>3, <1>4, <1>11, <2>4
    <3>2. SentOf(t) = SentOf(s) /\ Adds(Armed(s), b) = <<>>
      BY <2>1, <2>2, <2>3, <2>4, <3>1 DEF Adds
    <3>. QED
      BY <1>7, <3>2, Concatenated
  <2>5. CASE ~(b = "d" /\ Armed(s))
    <3>1. Kept(t) = n + 1 /\ SentOf(t) = g[n + 1]
      BY <1>3, <1>4, <1>11, <2>5
    <3>2. g[n] = IF ~Armed(s) \/ b = "other" THEN Append(g[n - 1], s[n]) ELSE g[n - 1]
      <4>1. n \in 1..Kept(t)
        BY <1>1, <1>11, <3>1
      <4>2. g[n] = IF n \in Sent(t) THEN Append(g[n - 1], t[n]) ELSE g[n - 1]
        BY <1>3, <4>1 DEF Picks
      <4>. QED
        BY <1>1, <1>5, <1>11, <2>1, <4>2
    <3>3. g[n + 1] = IF b # "prefix" \/ Armed(s) THEN Append(g[n], b) ELSE g[n]
      <4>1. n + 1 \in 1..Kept(t) /\ (n + 1) - 1 = n
        BY <1>1, <3>1
      <4>2. g[n + 1] = IF n + 1 \in Sent(t) THEN Append(g[(n + 1) - 1], t[n + 1])
                                            ELSE g[(n + 1) - 1]
        BY <1>3, <4>1 DEF Picks
      <4>. QED
        BY <1>1, <1>5, <4>1, <4>2
    <3>4. CASE ~Armed(s)
      <4>1. g[n] = f[n]
        BY <2>2, <2>3, <3>2, <3>4
      <4>2. CASE b = "prefix"
        <5>1. SentOf(t) = f[n] /\ Adds(Armed(s), b) = <<>>
          BY <3>1, <3>3, <3>4, <4>1, <4>2 DEF Adds
        <5>. QED
          BY <2>1, <2>2, <5>1, Concatenated
      <4>3. CASE b # "prefix"
        <5>1. SentOf(t) = Append(f[n], b) /\ Adds(Armed(s), b) = <<b>>
          BY <3>1, <3>3, <3>4, <4>1, <4>3 DEF Adds
        <5>. QED
          BY <2>1, <2>2, <5>1, Concatenated
      <4>. QED
        BY <4>2, <4>3
    <3>5. CASE Armed(s) /\ b = "prefix"
      <4>1. g[n] = f[n]
        BY <2>2, <2>3, <3>2, <3>5
      <4>2. SentOf(t) = Append(f[n], b) /\ Adds(Armed(s), b) = <<b>>
        BY <3>1, <3>3, <3>5, <4>1 DEF Adds
      <4>. QED
        BY <2>1, <2>2, <4>2, Concatenated
    <3>6. CASE Armed(s) /\ b = "other"
      <4>1. s[n] = "prefix" /\ "prefix" \in Bytes
        BY <1>6, <3>6 DEF Bytes
      <4>2. g[n] = Append(f[n], "prefix")
        BY <2>2, <2>3, <3>2, <3>6, <4>1
      <4>3. SentOf(t) = Append(Append(f[n], "prefix"), b) /\ Adds(Armed(s), b) = <<"prefix", b>>
        BY <3>1, <3>3, <3>6, <4>2 DEF Adds
      <4>4. Append(Append(f[n], "prefix"), b) = f[n] \o <<"prefix", b>>
        BY <2>2, <4>1, Concatenated
      <4>. QED
        BY <2>1, <4>3, <4>4
    <3>. QED
      BY <2>5, <3>4, <3>5, <3>6 DEF Bytes
  <2>. QED
    BY <2>4, <2>5
<1>. QED
  BY <1>7, <1>9, <1>10, <1>11 DEF t

-----------------------------------------------------------------------------
\* The key and what was typed agree, byte by byte and read by read.

IsKey(k, s) ==
    /\ k.detached <=> DetachesAt(s) # {}
    /\ k.forward = SentOf(s)
    /\ k.armed <=> ~k.detached /\ Armed(s)

\* What is forwarded of this read, behind what was forwarded before it.
Whole(sent, k) ==
    [armed |-> k.armed, forward |-> sent \o k.forward, detached |-> k.detached]

LEMMA WholeIs ==
    ASSUME NEW sent \in Seq(Bytes), NEW k \in Keys
    PROVE  /\ Whole(sent, k) \in Keys
           /\ Whole(sent, k).armed = k.armed
           /\ Whole(sent, k).detached = k.detached
           /\ Whole(sent, k).forward = sent \o k.forward
<1>1. /\ k.forward \in Seq(Bytes) /\ sent \o k.forward \in Seq(Bytes)
      /\ k.armed \in BOOLEAN /\ k.detached \in BOOLEAN
  BY DEF Keys
<1>. QED
  BY <1>1 DEF Keys, Whole

LEMMA Regrouped ==
    ASSUME NEW p \in Seq(Bytes), NEW q \in Seq(Bytes), NEW r \in Seq(Bytes)
    PROVE  (p \o q) \o r = p \o (q \o r)
OBVIOUS

LEMMA KeyAfterByte ==
    ASSUME NEW sent \in Seq(Bytes), NEW k \in Keys, NEW s \in Seq(Bytes), NEW b \in Bytes,
           IsKey(Whole(sent, k), s)
    PROVE  IsKey(Whole(sent, Step(k, b)), Append(s, b))
<1> DEFINE w == Step(k, b)
<1>1. /\ w \in Keys
      /\ k.detached => w = k
      /\ ~k.detached => /\ w.armed <=> ~k.armed /\ b = "prefix"
                        /\ w.detached <=> k.armed /\ b = "d"
                        /\ w.forward = k.forward \o Adds(k.armed, b)
  BY StepIs DEF Adds
<1> HIDE DEF w
<1>2. /\ k.detached <=> DetachesAt(s) # {}
      /\ sent \o k.forward = SentOf(s)
      /\ k.armed <=> ~k.detached /\ Armed(s)
      /\ {k.armed, k.detached} \subseteq BOOLEAN
  BY WholeIs DEF IsKey, Keys
<1>3. DetachesAt(Append(s, b)) = DetachesAt(s) \cup IF b = "d" /\ Armed(s) THEN {Len(s) + 1} ELSE {}
  BY DetachesAppend
<1>4. Armed(Append(s, b)) <=> b = "prefix" /\ ~Armed(s)
  <2>1. Append(s, b) # <<>> /\ Len(Append(s, b)) = Len(s) + 1
    OBVIOUS
  <2>. QED
    BY <2>1, ArmsAppend DEF Armed
<1>5. /\ DetachesAt(s) # {} => SentOf(Append(s, b)) = SentOf(s)
      /\ DetachesAt(s) = {} => SentOf(Append(s, b)) = SentOf(s) \o Adds(Armed(s), b)
  BY SentOfAppend
<1>6. CASE k.detached
  <2>1. DetachesAt(Append(s, b)) # {} /\ SentOf(Append(s, b)) = SentOf(s)
    BY <1>2, <1>3, <1>5, <1>6
  <2>2. w = k
    BY <1>1, <1>6
  <2>. QED
    BY <1>2, <1>6, <2>1, <2>2, WholeIs DEF IsKey, w
<1>7. CASE ~k.detached
  <2>1. DetachesAt(s) = {} /\ (k.armed <=> Armed(s))
    BY <1>2, <1>7
  <2>2. w.detached <=> DetachesAt(Append(s, b)) # {}
    BY <1>1, <1>3, <1>7, <2>1
  <2>3. w.armed <=> ~w.detached /\ Armed(Append(s, b))
    <3>1. b = "prefix" => b # "d"
      OBVIOUS
    <3>. QED
      BY <1>1, <1>4, <1>7, <2>1, <3>1
  <2>4. sent \o w.forward = SentOf(Append(s, b))
    <3>1. Adds(k.armed, b) = Adds(Armed(s), b)
      BY <2>1 DEF Adds
    <3>2. Adds(Armed(s), b) \in Seq(Bytes)
      <4>1. /\ <<>> \in Seq(Bytes) /\ <<"prefix">> \in Seq(Bytes)
            /\ <<"prefix", b>> \in Seq(Bytes) /\ <<b>> \in Seq(Bytes)
        BY DEF Bytes
      <4>. QED
        BY <4>1 DEF Adds
    <3>3. k.forward \in Seq(Bytes)
      BY DEF Keys
    <3>4. w.forward = k.forward \o Adds(Armed(s), b)
      BY <1>1, <1>7, <3>1
    <3>5. (sent \o k.forward) \o Adds(Armed(s), b) = sent \o (k.forward \o Adds(Armed(s), b))
      BY <3>2, <3>3, Regrouped
    <3>. QED
      BY <1>2, <1>5, <2>1, <3>4, <3>5
  <2>5. /\ Whole(sent, w).armed = w.armed /\ Whole(sent, w).detached = w.detached
        /\ Whole(sent, w).forward = sent \o w.forward
    BY <1>1, WholeIs
  <2>6. IsKey(Whole(sent, w), Append(s, b))
    BY <2>2, <2>3, <2>4, <2>5 DEF IsKey
  <2>. QED
    BY <2>6 DEF w
<1>. QED
  BY <1>6, <1>7

LEMMA KeyAfterRead ==
    ASSUME NEW sent \in Seq(Bytes), NEW k \in Keys, NEW s \in Seq(Bytes),
           NEW input \in Seq(Bytes), IsKey(Whole(sent, k), s)
    PROVE  Feed(k, input) \in Keys /\ IsKey(Whole(sent, Feed(k, input)), s \o input)
<1> DEFINE N == Len(input)
           So(n) == SubSeq(input, 1, n)
<1>1. PICK f \in [0..N -> Keys] : FedBy(f, k, input) /\ Feed(k, input) = f[N]
  BY FeedIs
<1>2. N \in Nat /\ \A n \in 1..N : input[n] \in Bytes
  OBVIOUS
<1>3. /\ s \o So(0) = s
      /\ So(N) = input
      /\ \A n \in 1..N : s \o So(n) = Append(s \o So(n - 1), input[n])
      /\ \A n \in 0..N : s \o So(n) \in Seq(Bytes)
  <2>1. So(0) = <<>> /\ So(N) = input /\ \A n \in 0..N : So(n) \in Seq(Bytes)
    OBVIOUS
  <2>2. \A n \in 1..N : So(n) = Append(So(n - 1), input[n])
    OBVIOUS
  <2>3. \A q \in Seq(Bytes) : \A b \in Bytes : s \o Append(q, b) = Append(s \o q, b)
    OBVIOUS
  <2> HIDE DEF So, N
  <2>4. \A n \in 1..N : So(n - 1) \in Seq(Bytes)
    BY <1>2, <2>1
  <2>5. \A n \in 1..N : s \o So(n) = Append(s \o So(n - 1), input[n])
    BY <1>2, <2>2, <2>3, <2>4
  <2>6. s \o <<>> = s
    OBVIOUS
  <2>7. \A n \in 0..N : s \o So(n) \in Seq(Bytes)
    BY <2>1
  <2>. QED
    BY <2>1, <2>5, <2>6, <2>7
<1> HIDE DEF So
<1> DEFINE T == {n \in 0..N : IsKey(Whole(sent, f[n]), s \o So(n))}
<1> HIDE DEF N
<1>4. 0 \in T
  <2>1. 0 \in 0..N /\ f[0] = k /\ s \o So(0) = s
    BY <1>1, <1>2, <1>3 DEF FedBy
  <2>. QED
    BY <2>1
<1>5. ASSUME NEW n \in 1..N, n - 1 \in T PROVE n \in T
  <2>1. /\ n - 1 \in 0..N /\ n \in 0..N /\ input[n] \in Bytes
        /\ f[n - 1] \in Keys /\ s \o So(n - 1) \in Seq(Bytes)
    <3>1. n - 1 \in 0..N /\ n \in 0..N
      BY <1>2
    <3>. QED
      BY <1>1, <1>2, <1>3, <3>1
  <2>2. IsKey(Whole(sent, f[n - 1]), s \o So(n - 1))
    BY <1>5
  <2>3. IsKey(Whole(sent, Step(f[n - 1], input[n])), Append(s \o So(n - 1), input[n]))
    BY <2>1, <2>2, KeyAfterByte
  <2>4. f[n] = Step(f[n - 1], input[n]) /\ s \o So(n) = Append(s \o So(n - 1), input[n])
    BY <1>1, <1>3 DEF FedBy, N
  <2>. QED
    BY <2>1, <2>3, <2>4
<1> HIDE DEF T
<1>6. 0..N \subseteq T
  BY <1>2, <1>4, <1>5, UpTo
<1>7. N \in T /\ f[N] \in Keys
  BY <1>1, <1>2, <1>6
<1>. QED
  BY <1>1, <1>3, <1>7 DEF T

-----------------------------------------------------------------------------
\* The loop.

\* A second attach asks for no replay, so there is no third; what was written,
\* an attach up to this one wrote; and the key, with all that it forwarded, is
\* what the bytes read come to.
LoopInv ==
    /\ TypeOK
    /\ attempt = 2 => ~asked.replay /\ 1 \notin written
    /\ written \subseteq 1..attempt
    /\ detached => pc = "ended"
    /\ CutsDoNotMatter

Kinds == {"output", "marker", "legacy", "error", "exit"}
AnswerKinds == {"output", "marker", "legacy", "error", "hangup"}

LEMMA HeadTail ==
    ASSUME NEW S, NEW q \in Seq(S), q # <<>>
    PROVE  Head(q) \in S /\ Tail(q) \in Seq(S)
OBVIOUS

LEMMA AnswersAre ==
    ASSUME NEW a \in Asked
    PROVE  Answers(a) \subseteq Seq(AnswerKinds)
<1>1. OptionalFrames(a) \in 0..2
  BY DEF Asked, OptionalFrames
<1>2. [i \in 1..OptionalFrames(a) |-> "legacy"] \in Seq(AnswerKinds)
  <2>1. OptionalFrames(a) \in Nat /\ "legacy" \in AnswerKinds
    BY <1>1 DEF AnswerKinds
  <2>. QED
    BY <2>1
<1>3. /\ <<>> \in Seq(AnswerKinds) /\ <<"output", "marker">> \in Seq(AnswerKinds)
      /\ <<"marker">> \in Seq(AnswerKinds) /\ <<"error">> \in Seq(AnswerKinds)
      /\ <<"hangup">> \in Seq(AnswerKinds) /\ <<"legacy">> \in Seq(AnswerKinds)
  BY DEF AnswerKinds
<1>4. Unresumed(a) \subseteq Seq(AnswerKinds)
  BY <1>3 DEF Unresumed
<1>5. \A answered \in Unresumed(a) : <<"legacy">> \o answered \in Seq(AnswerKinds)
  BY <1>3, <1>4
<1>. QED
  BY <1>2, <1>3, <1>4, <1>5 DEF Answers

\* A step that leaves the keys and what was typed and sent alone keeps what they
\* come to.
LEMMA KeyUnchanged ==
    ASSUME LoopInv, UNCHANGED keyVars, pc # "ended"
    PROVE  /\ CutsDoNotMatter'
           /\ detached' => pc' = "ended"
           /\ {person', armed', detached'} \subseteq BOOLEAN
           /\ {typed', forwarded'} \subseteq Seq(Bytes)
           /\ armed' => person'
BY DEF LoopInv, TypeOK, keyVars, CutsDoNotMatter

LEMMA AnswerStep ==
    ASSUME LoopInv, MasterAnswers
    PROVE  LoopInv'
<1>1. pc # "ended" /\ UNCHANGED <<loopVars, outputs, keyVars, personVars>>
  BY DEF MasterAnswers
<1>2. CutsDoNotMatter' /\ (detached' => pc' = "ended")
  BY <1>1, KeyUnchanged
<1>3. /\ answer' \in Seq(AnswerKinds) /\ socket' \in Seq(Kinds)
      /\ phase' \in {"answering", "live", "ended", "closed"}
  <2>1. answer \in Seq(AnswerKinds) /\ socket \in Seq(Kinds) /\ phase = "answering"
    BY DEF LoopInv, TypeOK, MasterAnswers, AnswerKinds, Kinds
  <2>2. CASE answer = <<>> /\ phase' = "live" /\ UNCHANGED <<answer, socket>>
    BY <2>1, <2>2
  <2>3. CASE /\ answer # <<>> /\ Head(answer) # "hangup"
             /\ answer' = Tail(answer)
             /\ socket' = Append(socket, Head(answer))
             /\ phase' = IF Head(answer) = "error" THEN "ended" ELSE phase
    <3>1. Head(answer) \in AnswerKinds /\ Tail(answer) \in Seq(AnswerKinds)
      BY <2>1, <2>3, HeadTail
    <3>2. Head(answer) \in Kinds
      BY <2>3, <3>1 DEF AnswerKinds, Kinds
    <3>3. Append(socket, Head(answer)) \in Seq(Kinds)
      BY <2>1, <3>2
    <3>. QED
      BY <2>1, <2>3, <3>1, <3>3
  <2>4. CASE phase' = "closed" /\ UNCHANGED <<answer, socket>>
    BY <2>1, <2>4
  <2>. QED
    BY <2>2, <2>3, <2>4 DEF MasterAnswers
<1>. QED
  BY <1>1, <1>2, <1>3 DEF LoopInv, TypeOK, loopVars, keyVars, personVars, Kinds, AnswerKinds

\* The steps of the master and of the person, and those of the loop that only
\* move it.
LEMMA OutputStep ==
    ASSUME LoopInv,
           MasterSendsOutput \/ MasterSendsExit \/ MasterFails \/ MasterCloses
    PROVE  LoopInv'
<1>1. /\ pc # "ended"
      /\ UNCHANGED <<loopVars, answer, keyVars, personVars>>
      /\ phase' \in {phase, "ended", "closed"}
      /\ socket' \in {socket} \cup {Append(socket, kind) : kind \in {"output", "exit", "error"}}
  BY DEF MasterSendsOutput, MasterSendsExit, MasterFails, MasterCloses
<1>2. CutsDoNotMatter' /\ (detached' => pc' = "ended")
  BY <1>1, KeyUnchanged
<1>3. socket' \in Seq(Kinds)
  <2>1. socket \in Seq(Kinds) /\ {"output", "exit", "error"} \subseteq Kinds
    BY DEF LoopInv, TypeOK, Kinds
  <2>2. \A kind \in {"output", "exit", "error"} : Append(socket, kind) \in Seq(Kinds)
    BY <2>1
  <2>. QED
    BY <1>1, <2>1, <2>2
<1>. QED
  BY <1>1, <1>2, <1>3 DEF LoopInv, TypeOK, loopVars, keyVars, personVars, Kinds

LEMMA PersonStep ==
    ASSUME LoopInv, PersonTypes \/ PersonLeaves
    PROVE  LoopInv'
<1>1. /\ pc # "ended"
      /\ UNCHANGED <<loopVars, masterVars, socket, keyVars, signals>>
      /\ left' \in {left, TRUE}
      /\ stdin' = stdin \/ \E byte \in Bytes : stdin' = Append(stdin, byte)
  <2>1. "other" \in Bytes
    BY DEF Bytes
  <2>. QED
    BY <2>1 DEF PersonTypes, PersonLeaves
<1>2. CutsDoNotMatter' /\ (detached' => pc' = "ended")
  BY <1>1, KeyUnchanged
<1>3. stdin' \in Seq(Bytes) /\ left' \in BOOLEAN
  <2>1. stdin \in Seq(Bytes) /\ left \in BOOLEAN
    BY DEF LoopInv, TypeOK
  <2>2. \A byte \in Bytes : Append(stdin, byte) \in Seq(Bytes)
    BY <2>1
  <2>3. left' \in BOOLEAN
    BY <1>1, <2>1
  <2>. QED
    BY <1>1, <2>1, <2>2, <2>3
<1>. QED
  BY <1>1, <1>2, <1>3 DEF LoopInv, TypeOK, loopVars, masterVars, keyVars

Moves ==
    WindowChanges \/ CheckResize \/ PollWaits \/ PollReturns \/ NoInput \/ ReportError
    \/ NoFrame \/ HandleHangup

LEMMA MoveStep ==
    ASSUME LoopInv, Moves
    PROVE  LoopInv'
<1>1. /\ pc # "ended"
      /\ UNCHANGED <<asked, attempt, tolerated, painted, written, masterVars, socket,
                     keyVars, stdin, left>>
  BY DEF Moves, WindowChanges, CheckResize, PollWaits, PollReturns, NoInput, ReportError,
         Refused, NoFrame, HandleHangup, Go, personVars
<1>2. CutsDoNotMatter' /\ (detached' => pc' = "ended")
  BY <1>1, KeyUnchanged
<1>3. /\ pc' \in {"checking", "calling", "waiting", "input", "frame", "hangup", "ended"}
      /\ winch' \in BOOLEAN
  BY DEF LoopInv, TypeOK, Moves, WindowChanges, CheckResize, PollWaits, PollReturns, NoInput,
         ReportError, NoFrame, HandleHangup, Go
<1>4. seen' \in Seen
  <2>1. seen' \in {seen, Ready, Nothing}
    BY DEF Moves, WindowChanges, CheckResize, PollWaits, PollReturns, NoInput, ReportError,
           NoFrame, HandleHangup
  <2>2. Ready \in Seen /\ Nothing \in Seen
    <3>1. left \in BOOLEAN
      BY DEF LoopInv, TypeOK
    <3>. QED
      BY <3>1 DEF Ready, Nothing, Seen
  <2>. QED
    BY <2>1, <2>2 DEF LoopInv, TypeOK
<1>. QED
  BY <1>1, <1>2, <1>3, <1>4 DEF LoopInv, TypeOK, masterVars, keyVars

LEMMA FrameStep ==
    ASSUME LoopInv, WriteFrame \/ ReadExit \/ IgnoreError
    PROVE  LoopInv'
<1>1. /\ pc = "frame" /\ socket # <<>> /\ socket' = Tail(socket)
      /\ pc' \in {"hangup", "ended", "checking"}
      /\ UNCHANGED <<asked, attempt, winch, seen, masterVars, keyVars, personVars>>
  BY DEF WriteFrame, ReadExit, IgnoreError, Go
<1>2. CutsDoNotMatter' /\ (detached' => pc' = "ended")
  BY <1>1, KeyUnchanged
<1>3. socket' \in Seq(Kinds)
  <2>1. socket \in Seq(Kinds)
    BY DEF LoopInv, TypeOK, Kinds
  <2>. QED
    BY <1>1, <2>1, HeadTail
<1>4. /\ attempt \in {1, 2} /\ written \subseteq 1..attempt /\ tolerated \in 0..2
      /\ painted \in BOOLEAN /\ (painted <=> attempt \in written)
      /\ attempt = 2 => ~asked.replay /\ 1 \notin written
  BY DEF LoopInv, TypeOK
<1>5. /\ \/ painted' = TRUE /\ written' = written \cup {attempt}
         \/ painted' = painted /\ written' = written
      /\ \/ tolerated' = tolerated
         \/ tolerated > 0 /\ tolerated' = tolerated - 1
  <2>1. CASE WriteFrame
    BY <2>1 DEF WriteFrame, Paints
  <2>2. CASE ReadExit
    BY <2>2 DEF ReadExit
  <2>3. CASE IgnoreError
    BY <2>3 DEF IgnoreError, Tolerates
  <2>. QED
    BY <2>1, <2>2, <2>3
<1>6. /\ written' \subseteq 1..attempt /\ painted' \in BOOLEAN
      /\ painted' <=> attempt \in written'
      /\ attempt = 2 => 1 \notin written'
  <2>1. CASE painted' = TRUE /\ written' = written \cup {attempt}
    BY <1>4, <2>1
  <2>2. CASE painted' = painted /\ written' = written
    BY <1>4, <2>2
  <2>. QED
    BY <1>5, <2>1, <2>2
<1>7. tolerated' \in 0..2
  BY <1>4, <1>5
<1>8. written' \subseteq {1, 2}
  BY <1>4, <1>6
<1>. QED
  BY <1>1, <1>2, <1>3, <1>4, <1>6, <1>7, <1>8
     DEF LoopInv, TypeOK, masterVars, keyVars, personVars, Kinds

\* A read: the key goes on from what it is at, over the bytes of this read.
LEMMA InputStep ==
    ASSUME LoopInv, ForwardInput
    PROVE  LoopInv'
<1> DEFINE key == [armed |-> armed, forward |-> <<>>, detached |-> FALSE]
           fed == Fed(stdin)
<1>1. /\ pc = "input" /\ stdin' = <<>>
      /\ UNCHANGED <<asked, attempt, tolerated, painted, winch, seen, written, masterVars,
                     socket, left, signals, person>>
      /\ pc' \in {"ended", "frame"}
      /\ \/ UNCHANGED keyVars
         \/ /\ armed' = fed.armed /\ detached' = fed.detached
            /\ typed' = typed \o stdin /\ forwarded' = forwarded \o fed.forward
            /\ fed.detached => pc' = "ended"
  BY DEF ForwardInput, Go, keyVars
<1>2. /\ armed \in BOOLEAN /\ person \in BOOLEAN /\ detached = FALSE
      /\ armed => person
      /\ stdin \in Seq(Bytes) /\ typed \in Seq(Bytes) /\ forwarded \in Seq(Bytes)
  BY <1>1 DEF LoopInv, TypeOK
<1>3. key \in Keys /\ Whole(forwarded, key) \in Keys
      /\ Whole(forwarded, key).armed = armed /\ Whole(forwarded, key).detached = FALSE
      /\ Whole(forwarded, key).forward = forwarded
  <2>1. key \in Keys
    <3>1. <<>> \in Seq(Bytes)
      OBVIOUS
    <3>. QED
      BY <1>2, <3>1 DEF Keys
  <2>2. forwarded \o key.forward = forwarded
    BY <1>2
  <2>3. /\ Whole(forwarded, key) \in Keys
        /\ Whole(forwarded, key).armed = key.armed
        /\ Whole(forwarded, key).detached = key.detached
        /\ Whole(forwarded, key).forward = forwarded \o key.forward
    <3> HIDE DEF key
    <3>. QED
      BY <1>2, <2>1, WholeIs
  <2>. QED
    BY <2>1, <2>2, <2>3
<1>4. ASSUME UNCHANGED keyVars PROVE LoopInv'
  <2>1. CutsDoNotMatter' /\ (detached' => pc' = "ended")
    BY <1>1, <1>4, KeyUnchanged
  <2>2. <<>> \in Seq(Bytes)
    OBVIOUS
  <2>. QED
    BY <1>1, <1>4, <2>1, <2>2 DEF LoopInv, TypeOK, masterVars, keyVars
<1>5. ASSUME armed' = fed.armed, detached' = fed.detached, typed' = typed \o stdin,
             forwarded' = forwarded \o fed.forward, fed.detached => pc' = "ended"
      PROVE  LoopInv'
  <2>1. CASE person
    <3>1. fed = Feed(key, stdin)
      BY <2>1 DEF Fed
    <3>2. IsKey(Whole(forwarded, key), typed)
      <4>1. /\ detached <=> DetachesAt(typed) # {}
            /\ forwarded = SentOf(typed)
            /\ armed <=> ~detached /\ typed # <<>> /\ Arms(typed, Len(typed))
        BY <2>1 DEF LoopInv, CutsDoNotMatter
      <4> HIDE DEF key
      <4>. QED
        BY <1>2, <1>3, <4>1 DEF IsKey, Armed
    <3> HIDE DEF key, fed
    <3>3. fed \in Keys /\ IsKey(Whole(forwarded, fed), typed \o stdin)
      BY <1>2, <1>3, <3>1, <3>2, KeyAfterRead
    <3>4. /\ Whole(forwarded, fed).armed = fed.armed
          /\ Whole(forwarded, fed).detached = fed.detached
          /\ Whole(forwarded, fed).forward = forwarded \o fed.forward
      BY <1>2, <3>3, WholeIs
    <3>5. CutsDoNotMatter'
      <4>1. /\ detached' <=> DetachesAt(typed') # {}
            /\ forwarded' = SentOf(typed')
            /\ armed' <=> ~detached' /\ typed' # <<>> /\ Arms(typed', Len(typed'))
        BY <1>5, <3>3, <3>4 DEF IsKey, Armed
      <4>. QED
        BY <1>1, <2>1, <4>1 DEF CutsDoNotMatter
    <3>6. /\ armed' \in BOOLEAN /\ detached' \in BOOLEAN
          /\ typed' \in Seq(Bytes) /\ forwarded' \in Seq(Bytes) /\ stdin' \in Seq(Bytes)
      <4>1. fed.armed \in BOOLEAN /\ fed.detached \in BOOLEAN /\ fed.forward \in Seq(Bytes)
        BY <3>3 DEF Keys
      <4>2. typed \o stdin \in Seq(Bytes) /\ forwarded \o fed.forward \in Seq(Bytes)
            /\ <<>> \in Seq(Bytes)
        BY <1>2, <4>1
      <4>. QED
        BY <1>1, <1>5, <4>1, <4>2
    <3>. QED
      BY <1>1, <1>5, <2>1, <3>5, <3>6 DEF LoopInv, TypeOK, masterVars
  <2>2. CASE ~person
    <3>1. fed.forward = stdin /\ fed.armed = armed /\ fed.detached = FALSE
      BY <2>2 DEF Fed
    <3> HIDE DEF fed
    <3>2. forwarded = typed
      BY <2>2 DEF LoopInv, CutsDoNotMatter
    <3>3. CutsDoNotMatter'
      BY <1>1, <1>5, <2>2, <3>1, <3>2 DEF CutsDoNotMatter
    <3>4. /\ typed' \in Seq(Bytes) /\ forwarded' \in Seq(Bytes) /\ stdin' \in Seq(Bytes)
      <4>1. typed \o stdin \in Seq(Bytes) /\ <<>> \in Seq(Bytes)
        BY <1>2
      <4>. QED
        BY <1>1, <1>5, <3>1, <3>2, <4>1
    <3>. QED
      BY <1>1, <1>2, <1>5, <3>1, <3>3, <3>4 DEF LoopInv, TypeOK, masterVars
  <2>. QED
    BY <1>2, <2>1, <2>2
<1>. QED
  BY <1>1, <1>4, <1>5

\* Nothing typed is nothing sent.
LEMMA NothingTyped ==
    DetachesAt(<<>>) = {} /\ SentOf(<<>>) = <<>>
<1>1. <<>> \in Seq(Bytes) /\ Len(<<>>) = 0 /\ "d" \in Bytes
  BY DEF Bytes
<1>2. DetachesAt(<<>>) = {}
  BY <1>1 DEF DetachesAt
<1>3. Kept(<<>>) = 0
  BY <1>1, <1>2, KeptIs
<1>4. PICK f \in [0..Kept(<<>>) -> Seq(Bytes)] :
        Picks(f, <<>>, Kept(<<>>)) /\ SentOf(<<>>) = f[Kept(<<>>)]
  BY <1>1, SentIs
<1>. QED
  BY <1>2, <1>3, <1>4 DEF Picks

LEMMA RetryStep ==
    ASSUME LoopInv, Retry
    PROVE  LoopInv'
<1>1. /\ pc = "frame" /\ asked.replay /\ ~painted
      /\ asked' = [replay |-> FALSE, resume |-> FALSE]
      /\ attempt' = 2 /\ tolerated' = 0 /\ painted' = FALSE
      /\ answer' \in Answers(asked') /\ phase' = "answering" /\ socket' = <<>>
      /\ armed' = FALSE /\ typed' = <<>> /\ forwarded' = <<>> /\ pc' = "checking"
      /\ UNCHANGED <<winch, seen, written, person, detached, personVars>>
  BY DEF Retry, Refused, Go
<1>2. attempt = 1 /\ written \subseteq 1..1 /\ 1 \notin written
  <2>1. attempt \in {1, 2} /\ (attempt = 2 => ~asked.replay)
        /\ written \subseteq 1..attempt /\ (painted <=> attempt \in written)
    BY DEF LoopInv, TypeOK
  <2>2. attempt = 1
    BY <1>1, <2>1
  <2>. QED
    BY <1>1, <2>1, <2>2
<1>3. written = {}
  BY <1>2
<1>4. asked' \in Asked /\ ~asked'.replay
  BY <1>1 DEF Asked
<1>5. answer' \in Seq(AnswerKinds)
  BY <1>1, <1>4, AnswersAre
<1>6. detached' = FALSE /\ person' = person
  BY <1>1 DEF LoopInv, TypeOK
<1>7. CutsDoNotMatter'
  BY <1>1, <1>6, NothingTyped DEF CutsDoNotMatter
<1>8. <<>> \in Seq(Kinds) /\ <<>> \in Seq(Bytes)
  OBVIOUS
<1>9. /\ stdin' = stdin /\ left' = left /\ winch' = winch /\ seen' = seen
      /\ written' = {}
      /\ stdin \in Seq(Bytes) /\ left \in BOOLEAN /\ winch \in BOOLEAN /\ seen \in Seen
      /\ person \in BOOLEAN
  BY <1>1, <1>3 DEF LoopInv, TypeOK, personVars
<1>10. TypeOK'
  <2>1. {person', armed', detached', left'} \subseteq BOOLEAN /\ (armed' => person')
    BY <1>1, <1>6, <1>9
  <2>2. {stdin', typed', forwarded'} \subseteq Seq(Bytes)
    BY <1>1, <1>8, <1>9
  <2>3. answer' \in Seq({"output", "marker", "legacy", "error", "hangup"})
    BY <1>5 DEF AnswerKinds
  <2>4. socket' \in Seq({"output", "marker", "legacy", "error", "exit"})
    BY <1>1, <1>8 DEF Kinds
  <2>5. /\ painted' \in BOOLEAN /\ written' \subseteq {1, 2} /\ (painted' <=> attempt' \in written')
        /\ attempt' \in {1, 2} /\ tolerated' \in 0..2
        /\ phase' \in {"answering", "live", "ended", "closed"}
        /\ pc' \in {"checking", "calling", "waiting", "input", "frame", "hangup", "ended"}
    <3>1. painted' = FALSE /\ attempt' = 2 /\ written' = {} /\ tolerated' = 0
      BY <1>1, <1>9
    <3>2. phase' = "answering" /\ pc' = "checking"
      BY <1>1
    <3>3. painted' <=> attempt' \in written'
      BY <3>1
    <3>4. painted' \in BOOLEAN /\ written' \subseteq {1, 2}
      BY <3>1
    <3>5. attempt' \in {1, 2} /\ tolerated' \in 0..2
      BY <3>1
    <3>6. /\ phase' \in {"answering", "live", "ended", "closed"}
          /\ pc' \in {"checking", "calling", "waiting", "input", "frame", "hangup", "ended"}
      BY <3>2
    <3>. QED
      BY <3>3, <3>4, <3>5, <3>6
  <2>6. winch' \in BOOLEAN /\ seen' \in Seen
    BY <1>9
  <2>. QED
    BY <1>4, <2>1, <2>2, <2>3, <2>4, <2>5, <2>6 DEF TypeOK
<1>. QED
  BY <1>1, <1>4, <1>6, <1>7, <1>9, <1>10 DEF LoopInv

LEMMA LoopInit == Init => LoopInv
<1> SUFFICES ASSUME Init PROVE LoopInv
  OBVIOUS
<1>1. answer \in Seq(AnswerKinds)
  BY AnswersAre DEF Init
<1>2. tolerated \in 0..2
  BY DEF Init, OptionalFrames, Asked
<1>3. CutsDoNotMatter
  BY NothingTyped DEF Init, CutsDoNotMatter
<1>4. <<>> \in Seq(Kinds) /\ <<>> \in Seq(Bytes)
  OBVIOUS
<1>5. /\ Nothing \in Seen /\ asked \in Asked /\ person \in BOOLEAN
      /\ pc = "checking" /\ attempt = 1 /\ painted = FALSE /\ winch = FALSE /\ seen = Nothing
      /\ armed = FALSE /\ detached = FALSE /\ stdin = <<>> /\ left = FALSE
      /\ phase = "answering" /\ socket = <<>> /\ written = {}
      /\ typed = <<>> /\ forwarded = <<>>
  BY DEF Init, Seen, Nothing
<1>6. TypeOK
  BY <1>1, <1>2, <1>4, <1>5 DEF TypeOK, Kinds, AnswerKinds
<1>. QED
  BY <1>3, <1>5, <1>6 DEF LoopInv

LEMMA LoopStep == LoopInv /\ [Next]_vars => LoopInv'
<1> SUFFICES ASSUME LoopInv, [Next]_vars PROVE LoopInv'
  OBVIOUS
<1>1. CASE UNCHANGED vars
  BY <1>1 DEF vars, loopVars, masterVars, keyVars, personVars, LoopInv, TypeOK, CutsDoNotMatter
<1>2. CASE MasterAnswers
  BY <1>2, AnswerStep
<1>3. CASE MasterSendsOutput \/ MasterSendsExit \/ MasterFails \/ MasterCloses
  BY <1>3, OutputStep
<1>4. CASE PersonTypes \/ PersonLeaves
  BY <1>4, PersonStep
<1>5. CASE Moves
  BY <1>5, MoveStep
<1>6. CASE ForwardInput
  BY <1>6, InputStep
<1>7. CASE WriteFrame \/ ReadExit \/ IgnoreError
  BY <1>7, FrameStep
<1>8. CASE Retry
  BY <1>8, RetryStep
<1>. QED
  BY <1>1, <1>2, <1>3, <1>4, <1>5, <1>6, <1>7, <1>8 DEF Next, LoopNext, Moves

LEMMA LoopHolds == Spec => []LoopInv
<1>. QED
  BY LoopInit, LoopStep, PTL DEF Spec

\* The types of the loop, and that `painted` says whether this attach has written
\* to the terminal (bridge_terminal).
THEOREM AttachTypes == Spec => []TypeOK
<1>1. LoopInv => TypeOK
  BY DEF LoopInv
<1>. QED
  BY <1>1, LoopHolds, PTL

\* An attach starts over only while nothing was written, for every run of frames
\* and every moment at which the master refuses or closes (attach_command).
THEOREM RetryIsClean == Spec => []RetryStartsClean
<1>1. LoopInv => RetryStartsClean
  BY DEF LoopInv, RetryStartsClean
<1>. QED
  BY <1>1, LoopHolds, PTL

\* The detach key works, and what is sent is right, for every length of input
\* and every way it is cut into reads (DetachKey::feed, bridge_terminal).
THEOREM InputIsWhole == Spec => []CutsDoNotMatter
<1>1. LoopInv => CutsDoNotMatter
  BY DEF LoopInv
<1>. QED
  BY <1>1, LoopHolds, PTL
=============================================================================
