----------------------------- MODULE SharedProofs -----------------------------
(***************************************************************************)
(* What holds of the two structures that masters on every platform share,  *)
(* for any values of the constants. OutputLog.tla, for every capacity,     *)
(* every size of a push and any number of bytes and of masters: the log    *)
(* holds the newest bytes, and a position that was handed out is answered  *)
(* with exactly the bytes produced since. Viewers.tla, for any number of   *)
(* clients and any sizes: the list is in the order of last use, and the    *)
(* size of the PTY and of the screen follows it on both builds.            *)
(***************************************************************************)
EXTENDS OutputLog, Viewers, CommonLemmas, FunctionTheorems, FiniteSetTheorems

-----------------------------------------------------------------------------
\* The output log.

\* The arithmetic of a push of d bytes onto b bytes with room for c: what is
\* cut off the data, what is dropped from the log, and what remains.
LEMMA TrimArithmetic ==
    ASSUME NEW b \in Nat, NEW d \in Nat, NEW c \in Nat, b <= c
    PROVE  LET cut == SatSub(d, c)
               drop == SatSub(b + (d - cut), c)
               n == (b - drop) + (d - cut)
           IN  /\ cut \in 0..d /\ drop \in 0..b
               /\ b + d - n = cut + drop
               /\ n \in 0..c
               /\ cut + drop = 0 \/ n = c
               /\ drop = b \/ cut = 0
BY DEF SatSub

\* What a push leaves in the log: as much as fits, and every byte, by its
\* distance from the end of the data (OutputLog::push).
LEMMA PushKeepsNewest ==
    ASSUME NEW l \in Log, Len(l.bytes) <= l.capacity,
           NEW data \in Seq(Byte)
    PROVE  LET m == Push(l, data)
               gone == Len(l.bytes) + Len(data) - Len(m.bytes)
           IN  /\ m \in Log
               /\ m.epoch = l.epoch
               /\ m.capacity = l.capacity
               /\ m.total = l.total + Len(data)
               /\ gone >= 0
               /\ Len(m.bytes) <= l.capacity
               /\ gone = 0 \/ Len(m.bytes) = l.capacity
               /\ \A i \in 1..Len(m.bytes) :
                    /\ gone + i <= Len(l.bytes)
                         => m.bytes[i] = l.bytes[gone + i]
                    /\ gone + i > Len(l.bytes)
                         => m.bytes[i] = data[gone + i - Len(l.bytes)]
<1> DEFINE cut == SatSub(Len(data), l.capacity)
           kept == SubSeq(data, cut + 1, Len(data))
           overflow == SatSub(Len(l.bytes) + Len(kept), l.capacity)
           old == SubSeq(l.bytes, overflow + 1, Len(l.bytes))
<1>1. /\ l.bytes \in Seq(Byte)
      /\ l.capacity \in Nat /\ l.total \in Nat /\ l.epoch \in Nat
      /\ Len(l.bytes) \in Nat /\ Len(data) \in Nat
  BY DEF Log
<1> DEFINE b == Len(l.bytes)
           d == Len(data)
           c == l.capacity
<1>2. cut \in Nat /\ cut <= Len(data)
  <2>1. b \in Nat /\ d \in Nat /\ c \in Nat /\ b <= c /\ cut = SatSub(d, c)
    BY <1>1
  <2> HIDE DEF b, c, cut, d
  <2>2. cut \in 0..d
    BY <2>1, TrimArithmetic
  <2> QED  BY <2>1, <2>2 DEF d
<1>3. /\ kept \in Seq(Byte)
      /\ Len(kept) = Len(data) - cut
      /\ \A i \in 1..Len(kept) : kept[i] = data[cut + i]
  <2> HIDE DEF cut
  <2>1. cut + 1 \in Int /\ Len(data) \in Int
    BY <1>1, <1>2
  <2>2. \A i \in cut + 1 .. Len(data) : data[i] \in Byte
    BY <1>1, <1>2, ElementOfSeq
  <2>3. /\ kept \in Seq(Byte)
        /\ Len(kept) = IF cut + 1 <= Len(data) THEN Len(data) - (cut + 1) + 1
                                               ELSE 0
        /\ \A i \in 1 .. Len(data) - (cut + 1) + 1 :
             kept[i] = data[cut + 1 + i - 1]
    BY <2>1, <2>2, SubSeqProperties
  <2> HIDE DEF kept
  <2>4. Len(kept) = Len(data) - cut
    BY <1>1, <1>2, <2>3
  <2>5. \A i \in 1..Len(kept) : /\ i \in 1 .. Len(data) - (cut + 1) + 1
                                /\ cut + 1 + i - 1 = cut + i
    BY <1>1, <1>2, <2>4
  <2> QED  BY <2>3, <2>4, <2>5
<1>4. /\ b \in Nat /\ d \in Nat /\ c \in Nat /\ b <= c
      /\ cut = SatSub(d, c)
      /\ overflow = SatSub(b + (d - cut), c)
  <2>1. overflow = SatSub(b + Len(kept), c)
    OBVIOUS
  <2>2. Len(kept) = d - cut
    BY <1>3
  <2> HIDE DEF overflow, kept, cut
  <2> QED  BY <1>1, <2>1, <2>2 DEF cut
<1>5. overflow \in Nat /\ overflow <= Len(l.bytes)
  <2> HIDE DEF overflow, cut, b, c, d
  <2>1. overflow \in 0..b
    BY <1>4, TrimArithmetic
  <2> QED  BY <1>4, <2>1 DEF b
<1>6. /\ old \in Seq(Byte)
      /\ Len(old) = Len(l.bytes) - overflow
      /\ \A i \in 1..Len(old) : old[i] = l.bytes[overflow + i]
  <2> HIDE DEF overflow
  <2>1. overflow + 1 \in Int /\ Len(l.bytes) \in Int
    BY <1>1, <1>5
  <2>2. \A i \in overflow + 1 .. Len(l.bytes) : l.bytes[i] \in Byte
    BY <1>1, <1>5, ElementOfSeq
  <2>3. /\ old \in Seq(Byte)
        /\ Len(old) = IF overflow + 1 <= Len(l.bytes)
                      THEN Len(l.bytes) - (overflow + 1) + 1 ELSE 0
        /\ \A i \in 1 .. Len(l.bytes) - (overflow + 1) + 1 :
             old[i] = l.bytes[overflow + 1 + i - 1]
    BY <2>1, <2>2, SubSeqProperties
  <2> HIDE DEF old
  <2>4. Len(old) = Len(l.bytes) - overflow
    BY <1>1, <1>5, <2>3
  <2>5. \A i \in 1..Len(old) : /\ i \in 1 .. Len(l.bytes) - (overflow + 1) + 1
                               /\ overflow + 1 + i - 1 = overflow + i
    BY <1>1, <1>5, <2>4
  <2> QED  BY <2>3, <2>4, <2>5
<1>7. Push(l, data) = [l EXCEPT !.bytes = old \o kept,
                                !.total = l.total + Len(data)]
  BY DEF Push, Log
<1> HIDE DEF cut, kept, overflow, old
<1> DEFINE new == old \o kept
           gone == Len(l.bytes) + Len(data) - Len(new)
<1>8. /\ new \in Seq(Byte)
      /\ Len(new) = Len(old) + Len(kept)
      /\ \A i \in 1 .. Len(old) + Len(kept) :
           new[i] = IF i <= Len(old) THEN old[i] ELSE kept[i - Len(old)]
  BY <1>3, <1>6, ConcatProperties
<1> HIDE DEF new
<1>9. /\ Push(l, data).bytes = new
      /\ Push(l, data) \in Log
      /\ Push(l, data).epoch = l.epoch
      /\ Push(l, data).capacity = l.capacity
      /\ Push(l, data).total = l.total + Len(data)
  <2> DEFINE t == l.total + Len(data)
  <2>1. Push(l, data) = [l EXCEPT !.bytes = new, !.total = t]
    BY <1>7 DEF new
  <2>2. t \in Nat
    BY <1>1
  <2> HIDE DEF t
  <2>3. /\ Push(l, data).bytes = new /\ Push(l, data) \in Log
        /\ Push(l, data).epoch = l.epoch
        /\ Push(l, data).capacity = l.capacity
        /\ Push(l, data).total = t
    BY <1>1, <1>8, <2>1, <2>2 DEF Log
  <2> QED  BY <2>3 DEF t
<1> DEFINE n == Len(new)
           o == Len(old)
           k == Len(kept)
<1>10. n = o + k /\ o = b - overflow /\ k = d - cut
  BY <1>3, <1>6, <1>8
<1>11. /\ gone = cut + overflow /\ gone \in Nat
       /\ n <= c
       /\ gone = 0 \/ n = c
       /\ overflow = b \/ cut = 0
       /\ cut \in Nat /\ overflow \in Nat
       /\ o \in Nat /\ k \in Nat /\ n \in Nat
  <2>1. gone = b + d - n
    OBVIOUS
  <2> HIDE DEF b, c, d, n, o, k, gone
  <2>2. /\ cut \in 0..d /\ overflow \in 0..b
        /\ b + d - ((b - overflow) + (d - cut)) = cut + overflow
        /\ (b - overflow) + (d - cut) \in 0..c
        /\ cut + overflow = 0 \/ (b - overflow) + (d - cut) = c
        /\ overflow = b \/ cut = 0
    BY <1>4, TrimArithmetic, ZenonT(30)
  <2>3. n = (b - overflow) + (d - cut)
    BY <1>10
  <2>4. b \in Nat /\ d \in Nat /\ c \in Nat
    BY <1>4
  <2> QED  BY <1>10, <2>1, <2>2, <2>3, <2>4
<1>12. ASSUME NEW i \in 1..n
       PROVE  /\ gone + i <= b => new[i] = l.bytes[gone + i]
              /\ gone + i > b => new[i] = data[gone + i - b]
  <2>a. /\ \A j \in 1..o + k :
             new[j] = IF j <= o THEN old[j] ELSE kept[j - o]
        /\ \A j \in 1..o : old[j] = l.bytes[overflow + j]
        /\ \A j \in 1..k : kept[j] = data[cut + j]
    BY <1>3, <1>6, <1>8
  <2> HIDE DEF b, c, d, n, o, k, gone
  <2>1. i \in 1..o + k
    BY <1>10
  <2>b. /\ i \in Nat /\ i >= 1 /\ b \in Nat /\ o \in Nat
        /\ cut \in Nat /\ overflow \in Nat
    BY <1>4, <1>11, <2>1
  <2>c. /\ o = b - overflow /\ gone = cut + overflow
        /\ overflow = b \/ cut = 0
    BY <1>10, <1>11
  <2>2. CASE i <= o
    <3>1. new[i] = l.bytes[overflow + i]
      BY <1>11, <2>a, <2>1, <2>2
    <3>2. gone = overflow /\ ~(gone + i > b)
      BY <2>2, <2>b, <2>c
    <3> QED  BY <3>1, <3>2
  <2>3. CASE ~(i <= o)
    <3>1. new[i] = kept[i - o]
      BY <2>a, <2>1, <2>3
    <3>2. i - o \in 1..k
      BY <1>11, <2>1, <2>3
    <3>3. kept[i - o] = data[cut + (i - o)]
      BY <2>a, <3>2
    <3>4. cut + (i - o) = gone + i - b /\ ~(gone + i <= b)
      BY <2>3, <2>b, <2>c
    <3> QED  BY <3>1, <3>3, <3>4
  <2> QED  BY <2>2, <2>3
<1>13. gone >= 0
  <2> HIDE DEF gone
  <2> QED  BY <1>11
<1> QED  BY <1>9, <1>11, <1>12, <1>13

-----------------------------------------------------------------------------
\* The invariant: types, what the log holds, and a position that is held was
\* handed out by this master or by an earlier one.
HeldWasGiven ==
    held # None => /\ held.epoch <= log.epoch
                   /\ held.epoch = log.epoch => held.offset <= Len(stream)

LogInv == LogTypeOK /\ HoldsNewest /\ HeldWasGiven

LEMMA LogInvInit == LogInit => LogInv
<1> SUFFICES ASSUME LogInit PROVE LogInv
  OBVIOUS
<1>1. PICK c \in Capacities : log = NewLog(0, c)
  BY DEF LogInit
<1>2. c \in Nat
  BY OutputLogAssumption
<1> QED  BY <1>1, <1>2 DEF LogInit, LogInv, HeldWasGiven, LogTypeOK, HoldsNewest, NewLog, Log, Byte

\* One read of the PTY keeps the invariant.
LEMMA OutputKeepsLog ==
    ASSUME LogInv, NEW n \in PushSizes, Output(n)
    PROVE  LogInv'
<1> DEFINE data == [i \in 1..n |-> <<log.epoch, Len(stream) + i>>]
<1>1. /\ n \in Nat /\ log \in Log /\ stream \in Seq(Byte)
      /\ Len(stream) \in Nat /\ log.epoch \in Nat
      /\ Len(log.bytes) \in Nat /\ log.capacity \in Nat
  BY OutputLogAssumption DEF LogInv, LogTypeOK, Log
<1>2. data \in Seq(Byte) /\ Len(data) = n
  BY <1>1 DEF Byte
<1>3. log' = Push(log, data) /\ stream' = stream \o data /\ held' = held
  BY DEF Output
<1> HIDE DEF data
<1>4. /\ stream' \in Seq(Byte) /\ Len(stream') = Len(stream) + n
      /\ \A i \in 1..Len(stream) + n :
           stream'[i] = IF i <= Len(stream) THEN stream[i]
                        ELSE data[i - Len(stream)]
  BY <1>1, <1>2, <1>3, ConcatProperties
<1>5. /\ log.total = Len(stream)
      /\ Len(log.bytes) \in {Len(stream), log.capacity}
      /\ Len(log.bytes) <= Len(stream)
      /\ Len(log.bytes) <= log.capacity
  BY DEF LogInv, HoldsNewest
<1> DEFINE old == Len(stream) - Len(log.bytes)
           gone == Len(log.bytes) + n - Len(log'.bytes)
           new == Len(stream') - Len(log'.bytes)
<1>6. \A i \in 1..Len(log.bytes) : log.bytes[i] = stream[old + i]
  BY <1>5 DEF LogInv, HoldsNewest, Oldest
<1>7. /\ log' \in Log
      /\ log'.epoch = log.epoch /\ log'.capacity = log.capacity
      /\ log'.total = log.total + n
      /\ gone >= 0
      /\ Len(log'.bytes) <= log.capacity
      /\ gone = 0 \/ Len(log'.bytes) = log.capacity
      /\ \A i \in 1..Len(log'.bytes) :
           /\ gone + i <= Len(log.bytes)
                => log'.bytes[i] = log.bytes[gone + i]
           /\ gone + i > Len(log.bytes)
                => log'.bytes[i] = data[gone + i - Len(log.bytes)]
  BY <1>1, <1>2, <1>3, <1>5, PushKeepsNewest
<1>8. LogTypeOK'
  BY <1>3, <1>4, <1>7 DEF LogInv, LogTypeOK
<1> DEFINE S == Len(stream)
           B == Len(log.bytes)
           C == log.capacity
           S2 == Len(stream')
           B2 == Len(log'.bytes)
<1>9. /\ S \in Nat /\ B \in Nat /\ C \in Nat /\ S2 \in Nat /\ B2 \in Nat
      /\ n \in Nat
      /\ S2 = S + n
      /\ B \in {S, C} /\ B <= S /\ B <= C
      /\ gone = B + n - B2 /\ old = S - B /\ new = S2 - B2
      /\ gone >= 0 /\ B2 <= C /\ (gone = 0 \/ B2 = C)
  BY <1>1, <1>4, <1>5, <1>7 DEF Log
<1>10. \A j \in 1..S + n : /\ j <= S => stream'[j] = stream[j]
                           /\ ~(j <= S) => stream'[j] = data[j - S]
  BY <1>4
<1>10a. \A j \in 1..B : log.bytes[j] = stream[old + j]
  BY <1>6
<1>10b. \A j \in 1..B2 :
          /\ gone + j <= B => log'.bytes[j] = log.bytes[gone + j]
          /\ gone + j > B => log'.bytes[j] = data[gone + j - B]
  BY <1>7
<1>13. /\ log'.total = S2 /\ log'.capacity = C
  BY <1>4, <1>5, <1>7
<1>14. HoldsNewest'
  <2> HIDE DEF S, B, C, S2, B2, gone, old, new
  <2>1. B2 \in {S2, C} /\ B2 <= S2
    BY <1>9
  <2>2. ASSUME NEW i \in 1..B2 PROVE log'.bytes[i] = stream'[new + i]
    <3> DEFINE q == gone + i
    <3>1. new + i = old + q /\ q \in Nat /\ q >= 1 /\ q <= B + n
      BY <1>9
    <3>2. CASE q <= B
      <4>1. log'.bytes[i] = stream[old + q]
        BY <1>9, <1>10a, <1>10b, <3>1, <3>2
      <4>2. old + q \in 1..S + n /\ old + q <= S
        BY <1>9, <3>1, <3>2
      <4> HIDE DEF q
      <4> QED  BY <1>10, <3>1, <4>1, <4>2
    <3>3. CASE ~(q <= B)
      <4>1. gone + i > B
        BY <1>9, <3>1, <3>3
      <4>2. log'.bytes[i] = data[q - B]
        BY <1>9, <1>10b, <4>1
      <4>3. /\ old + q \in 1..S + n /\ ~(old + q <= S)
            /\ old + q - S = q - B
        BY <1>9, <3>1, <3>3
      <4> HIDE DEF q
      <4> QED  BY <1>9, <1>10, <3>1, <4>2, <4>3
    <3> QED  BY <3>2, <3>3
  <2>3. log'.total - B2 = new
    BY <1>9, <1>13
  <2>4. /\ log'.total = Len(stream') /\ B2 <= log'.capacity
        /\ B2 \in {Len(stream'), log'.capacity} /\ B2 <= Len(stream')
    BY <1>9, <1>13, <2>1 DEF S2
  <2> QED  BY <2>2, <2>3, <2>4 DEF B2, HoldsNewest, Oldest
<1>15. HeldWasGiven'
  <2>1. held # None => held.offset \in Nat
    BY DEF LogInv, LogTypeOK, Position
  <2>2. log'.epoch = log.epoch /\ Len(stream') = Len(stream) + n
    BY <1>4, <1>7
  <2> QED  BY <1>1, <1>3, <2>1, <2>2 DEF LogInv, HeldWasGiven
<1> HIDE DEF old, gone, new, S, B, C, S2, B2
<1> QED  BY <1>8, <1>14, <1>15 DEF LogInv

LEMMA LogInvNext == LogInv /\ [LogNext]_logVars => LogInv'
<1> SUFFICES ASSUME LogInv, [LogNext]_logVars PROVE LogInv'
  OBVIOUS
<1>1. ASSUME NEW n \in PushSizes, Output(n) PROVE LogInv'
  BY <1>1, OutputKeepsLog
<1>2. CASE Hand
  BY <1>2 DEF Hand, PositionOf, LogInv, HeldWasGiven, LogTypeOK, HoldsNewest, Oldest, Log, Position
<1>3. ASSUME NEW c \in Capacities, NewMaster(c) PROVE LogInv'
  <2>1. c \in Nat
    BY OutputLogAssumption
  <2>2. /\ log' = NewLog(log.epoch + 1, c) /\ stream' = <<>> /\ held' = held
        /\ log.epoch \in Nat
        /\ held # None => held.epoch \in Nat /\ held.epoch <= log.epoch
    BY <1>3 DEF NewMaster, LogInv, HeldWasGiven, LogTypeOK, Log, Position
  <2>3. LogTypeOK'
    BY <2>1, <2>2 DEF LogInv, LogTypeOK, NewLog, Log
  <2>4. HoldsNewest'
    BY <2>1, <2>2 DEF HoldsNewest, NewLog
  <2>5. log'.epoch = log.epoch + 1
    BY <2>2 DEF NewLog
  <2> QED  BY <2>2, <2>3, <2>4, <2>5 DEF LogInv, HeldWasGiven
<1>4. CASE UNCHANGED logVars
  BY <1>4 DEF logVars, LogInv, HeldWasGiven, LogTypeOK, HoldsNewest, Oldest
<1> QED  BY <1>1, <1>2, <1>3, <1>4 DEF LogNext

\* What is left of a sequence from one of its elements on, or from its end.
LEMMA SuffixProperties ==
    ASSUME NEW S, NEW s \in Seq(S), NEW m \in 1..(Len(s) + 1)
    PROVE  /\ SubSeq(s, m, Len(s)) \in Seq(S)
           /\ Len(SubSeq(s, m, Len(s))) = Len(s) - m + 1
           /\ \A i \in 1..(Len(s) - m + 1) :
                SubSeq(s, m, Len(s))[i] = s[m + i - 1]
<1> DEFINE n == Len(s)
<1>1. n \in Nat /\ m \in Int /\ n \in Int
  OBVIOUS
<1>2. \A i \in m..n : s[i] \in S
  BY <1>1, ElementOfSeq
<1>3. IF m <= n THEN n - m + 1 = n - m + 1 ELSE n - m + 1 = 0
  BY <1>1
<1> HIDE DEF n
<1>4. /\ SubSeq(s, m, n) \in Seq(S)
      /\ Len(SubSeq(s, m, n)) = IF m <= n THEN n - m + 1 ELSE 0
      /\ \A i \in 1..(n - m + 1) : SubSeq(s, m, n)[i] = s[m + i - 1]
  BY <1>1, <1>2, SubSeqProperties
<1> QED  BY <1>3, <1>4 DEF n

\* The types and the contents of the log, in every reachable state.
THEOREM LogHoldsNewest == LogSpec => [](LogTypeOK /\ HoldsNewest)
<1>1. LogInv => LogTypeOK /\ HoldsNewest
  BY DEF LogInv
<1> QED  BY LogInvInit, LogInvNext, <1>1, PTL DEF LogSpec

\* The types of the log, of what has been produced and of the position a client
\* holds, in every reachable state (OutputLog).
THEOREM LogTypes == LogSpec => []LogTypeOK
BY LogHoldsNewest, PTL

\* A client that resumes gets exactly what it missed, or a refusal
\* (OutputLog::since), in every reachable state.
THEOREM ResumeIsExact == LogSpec => []ResumeExact
<1>1. LogInv => ResumeExact
  <2> SUFFICES ASSUME LogInv, held # None
               PROVE  LET missed == Since(log, held)
                      IN  IF /\ held.epoch = log.epoch
                             /\ Len(stream) - held.offset <= log.capacity
                          THEN missed = SubSeq(stream, held.offset + 1,
                                               Len(stream))
                          ELSE missed = None
    BY DEF ResumeExact
  <2>1. /\ held.epoch \in Nat /\ held.offset \in Nat
        /\ Len(stream) \in Nat /\ Len(log.bytes) \in Nat
        /\ log.capacity \in Nat /\ log.total = Len(stream)
        /\ Len(log.bytes) \in {Len(stream), log.capacity}
        /\ Len(log.bytes) <= Len(stream)
        /\ Len(log.bytes) <= log.capacity
        /\ held.epoch = log.epoch => held.offset <= Len(stream)
    BY DEF LogInv, HeldWasGiven, LogTypeOK, HoldsNewest, Position, Log
  <2> DEFINE oldest == Len(stream) - Len(log.bytes)
  <2>a. Oldest(log) = oldest /\ oldest \in Nat
    BY <2>1 DEF Oldest
  <2>2. CASE held.epoch # log.epoch \/ held.offset < oldest
    <3>1. Since(log, held) = None
      BY <2>2, <2>a DEF Since
    <3>2. held.epoch # log.epoch \/ ~(Len(stream) - held.offset <= log.capacity)
      BY <2>1, <2>2
    <3> QED  BY <3>1, <3>2
  <2>3. CASE held.epoch = log.epoch /\ ~(held.offset < oldest)
    <3> DEFINE from == held.offset - oldest + 1
               a == SubSeq(log.bytes, from, Len(log.bytes))
               b == SubSeq(stream, held.offset + 1, Len(stream))
    <3>1. /\ held.offset - Oldest(log) + 1 = from
          /\ ~(held.offset > log.total)
          /\ ~(held.offset < Oldest(log))
      BY <2>1, <2>3, <2>a
    <3>2. Since(log, held) = a
      <4> HIDE DEF from
      <4> QED  BY <2>3, <3>1 DEF Since
    <3>x. log.bytes \in Seq(Byte) /\ stream \in Seq(Byte)
      BY DEF LogInv, LogTypeOK, Log
    <3>y. /\ from \in Int /\ from >= 1 /\ from <= Len(log.bytes) + 1
          /\ Len(log.bytes) - from + 1 = Len(stream) - held.offset
      BY <2>1, <2>3, <2>a, SMTT(30)
    <3> HIDE DEF from
    <3>3. /\ a \in Seq(Byte)
          /\ Len(a) = Len(stream) - held.offset
          /\ \A i \in 1..Len(stream) - held.offset :
               a[i] = log.bytes[from + i - 1]
      <4>1. from \in 1..(Len(log.bytes) + 1)
        BY <3>y
      <4>2. /\ a \in Seq(Byte)
            /\ Len(a) = Len(log.bytes) - from + 1
            /\ \A i \in 1 .. (Len(log.bytes) - from + 1) :
                 a[i] = log.bytes[from + i - 1]
        BY <3>x, <4>1, SuffixProperties
      <4> HIDE DEF a
      <4> QED  BY <3>y, <4>2
    <3>w. /\ b \in Seq(Byte)
          /\ Len(b) = Len(stream) - held.offset
          /\ \A i \in 1..Len(stream) - held.offset :
               b[i] = stream[held.offset + 1 + i - 1]
      <4>1. held.offset + 1 \in 1..(Len(stream) + 1)
        BY <2>1, <2>3
      <4>2. /\ b \in Seq(Byte)
            /\ Len(b) = Len(stream) - (held.offset + 1) + 1
            /\ \A i \in 1 .. (Len(stream) - (held.offset + 1) + 1) :
                 b[i] = stream[held.offset + 1 + i - 1]
        BY <3>x, <4>1, SuffixProperties
      <4> HIDE DEF b
      <4> QED  BY <2>1, <4>2
    <3>4. \A i \in 1..Len(log.bytes) : log.bytes[i] = stream[oldest + i]
      BY <2>1 DEF LogInv, HoldsNewest, Oldest
    <3> HIDE DEF a, b
    <3>5. ASSUME NEW i \in 1..Len(a) PROVE a[i] = b[i]
      <4>1. i \in 1..Len(stream) - held.offset
        BY <3>3
      <4>2. /\ from + i - 1 \in 1..Len(log.bytes)
            /\ oldest + (from + i - 1) = held.offset + 1 + i - 1
        <5> DEFINE S == Len(stream)
                   B == Len(log.bytes)
                   h == held.offset
        <5>1. /\ S \in Nat /\ B \in Nat /\ h \in Nat /\ B <= S /\ h <= S
              /\ ~(h < oldest) /\ oldest = S - B /\ from = h - oldest + 1
              /\ i \in 1..S - h
          BY <2>1, <2>3, <4>1 DEF from
        <5> HIDE DEF S, B, h, oldest
        <5>2. from + i - 1 \in 1..B /\ oldest + (from + i - 1) = h + 1 + i - 1
          BY <5>1
        <5> QED  BY <5>2 DEF B, h
      <4>3. log.bytes[from + i - 1] = stream[oldest + (from + i - 1)]
        BY <3>4, <4>2
      <4> QED  BY <3>3, <3>w, <4>1, <4>2, <4>3
    <3>6. a = b
      BY <3>3, <3>w, <3>5, SeqEqual
    <3>7. Len(stream) - held.offset <= log.capacity
      BY <2>1, <2>3
    <3>8. Since(log, held) = b
      BY <3>2, <3>6
    <3> QED  BY <2>3, <3>7, <3>8 DEF b
  <2> QED  BY <2>2, <2>3
<1> QED  BY LogInvInit, LogInvNext, <1>1, PTL DEF LogSpec

-----------------------------------------------------------------------------
\* The viewers.

\* What removing the entry at p leaves.
Skip(r, p) == [i \in 1..(Len(r) - 1) |-> IF i < p THEN r[i] ELSE r[i + 1]]

\* No client is listed twice.
Distinct(r) == \A i, j \in DOMAIN r : r[i].id = r[j].id => i = j

LEMMA SkipTyped ==
    ASSUME NEW r \in Seq(Entry), NEW p \in 1..Len(r)
    PROVE  /\ Skip(r, p) \in Seq(Entry)
           /\ Len(Skip(r, p)) = Len(r) - 1
<1>1. Len(r) - 1 \in Nat
  OBVIOUS
<1>2. \A i \in 1..(Len(r) - 1) : (IF i < p THEN r[i] ELSE r[i + 1]) \in Entry
  OBVIOUS
<1>3. Skip(r, p) \in [1..(Len(r) - 1) -> Entry]
  BY <1>2 DEF Skip
<1>. QED
  BY <1>1, <1>3

\* SequencesExt!RemoveAt does just that (Vec::remove),
LEMMA RemoveAtIs ==
    ASSUME NEW r \in Seq(Entry), NEW p \in 1..Len(r)
    PROVE  RemoveAt(r, p) = Skip(r, p)
<1> DEFINE a == SubSeq(r, 1, p - 1)
           b == SubSeq(r, p + 1, Len(r))
<1>1. /\ a \in Seq(Entry) /\ Len(a) = p - 1
      /\ \A i \in 1..(p - 1) : a[i] = r[i]
  BY SubSeqProperties
<1>2. /\ b \in Seq(Entry) /\ Len(b) = Len(r) - p
      /\ \A i \in 1..(Len(r) - p) : b[i] = r[p + i]
  BY SubSeqProperties
<1>3. RemoveAt(r, p) = a \o b
  BY DEF RemoveAt
<1> HIDE DEF a, b
<1>4. /\ a \o b \in Seq(Entry)
      /\ Len(a \o b) = Len(r) - 1
      /\ \A i \in 1..(Len(r) - 1) :
           (a \o b)[i] = IF i <= Len(a) THEN a[i] ELSE b[i - Len(a)]
  BY <1>1, <1>2, ConcatProperties
<1>5. \A i \in 1..(Len(r) - 1) : (a \o b)[i] = Skip(r, p)[i]
  <2> TAKE i \in 1..(Len(r) - 1)
  <2>1. CASE i < p
    BY <2>1, <1>1, <1>4 DEF Skip
  <2>2. CASE ~(i < p)
    <3>1. i - Len(a) = i - p + 1 /\ i - p + 1 \in 1..(Len(r) - p)
      BY <2>2, <1>1
    <3>2. (a \o b)[i] = b[i - Len(a)]
      BY <2>2, <1>1, <1>4
    <3>3. b[i - Len(a)] = r[i + 1]
      <4>1. b[i - p + 1] = r[p + (i - p + 1)]
        BY <3>1, <1>2
      <4>2. p + (i - p + 1) = i + 1
        OBVIOUS
      <4>. QED
        BY <3>1, <4>1, <4>2
    <3>4. Skip(r, p)[i] = r[i + 1]
      BY <2>2 DEF Skip
    <3>. QED
      BY <3>2, <3>3, <3>4, Zenon
  <2>. QED
    BY <2>1, <2>2, Zenon
<1>. QED
  BY <1>3, <1>4, <1>5, SkipTyped, SeqEqual

\* and Vec::retain for one that is listed once; without it nothing is removed.
LEMMA WithoutIs ==
    ASSUME NEW r \in Seq(Entry), NEW k, Distinct(r)
    PROVE  /\ PlacesOf(r, k) = {} => Without(r, k) = r
           /\ \A p \in PlacesOf(r, k) : Without(r, k) = Skip(r, p)
<1> DEFINE N == Len(r)
           D == Seq(Entry)
           Goes(n, s) == IF r[n].id = k THEN s ELSE Append(s, r[n])
           step == [n \in 1..N |-> [s \in D |-> Goes(n, s)]]
           none == <<>>
           Is(f) == f = [n \in 0..N |-> IF n = 0 THEN none ELSE Goes(n, f[n - 1])]
           kept == CHOOSE f : Is(f)
<1>1. N \in Nat /\ DOMAIN r = 1..N /\ \A n \in 1..N : r[n] \in Entry
  OBVIOUS
<1>2. \A n \in 1..N : \A s \in D : Goes(n, s) \in D
  BY <1>1
<1>3. Without(r, k) = kept[N]
  BY DEF Without, N
<1> HIDE DEF N, Goes
<1>4. step \in [1..N -> [D -> D]] /\ none \in D
  BY <1>2
<1> HIDE DEF step, none, D
<1>5. PICK f : f \in Recursions(N, D, none, step)
  BY <1>1, <1>4, RecursionExists
<1>6. f \in [0..N -> D] /\ f[0] = none /\ \A n \in 1..N : f[n] = step[n][f[n - 1]]
  BY <1>5 DEF Recursions
<1>7. \A n \in 1..N : f[n] = Goes(n, f[n - 1])
  <2>1. \A n \in 1..N : f[n - 1] \in D
    BY <1>1, <1>6
  <2>. QED
    BY <1>6, <2>1 DEF step
<1>8. Is(f)
  BY <1>6, <1>7, <1>1
<1>9. Is(kept)
  BY <1>8
<1> HIDE DEF kept
<1>10. \A n \in 0..N : kept[n] = IF n = 0 THEN none ELSE Goes(n, kept[n - 1])
  BY <1>9
<1>11. kept[0] = none /\ \A n \in 1..N : kept[n] = Goes(n, kept[n - 1])
  BY <1>1, <1>10
<1> DEFINE Before(n) == [i \in 1..n |-> r[i]]
<1>12. \A n \in 0..N : Before(n) \in Seq(Entry)
  BY <1>1
<1>13. \A n \in 1..N : Append(Before(n - 1), r[n]) = Before(n)
  BY <1>1
<1>14. Before(0) = <<>> /\ Before(N) = r
  BY <1>1
<1> HIDE DEF Before
<1>15. ASSUME PlacesOf(r, k) = {} PROVE Without(r, k) = r
  <2> DEFINE T == {n \in 0..N : kept[n] = Before(n)}
  <2>1. 0 \in T
    BY <1>1, <1>11, <1>14 DEF none
  <2>2. ASSUME NEW n \in 1..N, n - 1 \in T PROVE n \in T
    <3>1. r[n].id # k
      BY <1>1, <1>15 DEF PlacesOf
    <3>2. kept[n] = Append(Before(n - 1), r[n])
      BY <1>11, <2>2, <3>1 DEF Goes
    <3>3. kept[n] = Before(n)
      BY <3>2, <1>13, Zenon
    <3>. QED
      BY <3>3, <1>1
  <2> HIDE DEF T
  <2>3. 0..N \subseteq T
    BY <1>1, <2>1, <2>2, UpTo
  <2>4. N \in T
    BY <1>1, <2>3
  <2>. QED
    BY <1>3, <1>14, <2>4 DEF T
<1>16. ASSUME NEW p \in PlacesOf(r, k) PROVE Without(r, k) = Skip(r, p)
  <2> DEFINE Back(n) == [i \in 1..(n - 1) |-> IF i < p THEN r[i] ELSE r[i + 1]]
             T == {n \in 0..N : kept[n] = IF n < p THEN Before(n) ELSE Back(n)}
  <2>1. p \in 1..N /\ \A n \in 1..N : r[n].id = k <=> n = p
    BY <1>1 DEF PlacesOf, Distinct
  <2>2. Before(p - 1) = Back(p)
    BY <1>1, <2>1 DEF Before
  <2>3. ASSUME NEW n \in 1..N, n > p PROVE Append(Back(n - 1), r[n]) = Back(n)
    <3>1. Back(n - 1) \in Seq(Entry) /\ Len(Back(n - 1)) = n - 2
      BY <1>1, <2>1, <2>3
    <3>2. Append(Back(n - 1), r[n]) =
            [i \in 1..(n - 1) |-> IF i = n - 1 THEN r[n] ELSE Back(n - 1)[i]]
      BY <3>1, <2>1, <2>3
    <3>. QED
      BY <3>2, <1>1, <2>1, <2>3
  <2>4. 0 \in T
    BY <1>1, <1>11, <1>14, <2>1 DEF none
  <2>5. ASSUME NEW n \in 1..N, n - 1 \in T PROVE n \in T
    <3> HIDE DEF Back
    <3>1. kept[n] = Goes(n, kept[n - 1])
      BY <1>11
    <3>2. CASE n < p
      <4>1. kept[n - 1] = Before(n - 1)
        BY <1>1, <2>1, <2>5, <3>2
      <4>2. kept[n] = Append(Before(n - 1), r[n])
        BY <3>1, <4>1, <2>1, <3>2 DEF Goes
      <4>3. kept[n] = Before(n)
        BY <4>2, <1>13, Zenon
      <4>. QED
        BY <4>3, <1>1, <3>2
    <3>3. CASE n = p
      <4>1. kept[n - 1] = Before(n - 1)
        BY <1>1, <2>1, <2>5, <3>3
      <4>2. kept[n] = Before(n - 1)
        BY <3>1, <4>1, <2>1, <3>3 DEF Goes
      <4>. QED
        BY <4>2, <1>1, <2>1, <2>2, <3>3
    <3>4. CASE n > p
      <4>1. kept[n - 1] = Back(n - 1)
        BY <1>1, <2>1, <2>5, <3>4
      <4>2. kept[n] = Append(Back(n - 1), r[n])
        BY <3>1, <4>1, <2>1, <3>4 DEF Goes
      <4>3. kept[n] = Back(n)
        BY <4>2, <2>3, <3>4, Zenon
      <4>. QED
        BY <4>3, <1>1, <2>1, <3>4
    <3>. QED
      BY <3>2, <3>3, <3>4, <1>1, <2>1
  <2>6. Back(N) = Skip(r, p)
    BY DEF Skip, N
  <2> HIDE DEF T, Back
  <2>7. 0..N \subseteq T
    BY <1>1, <2>4, <2>5, UpTo
  <2>8. N \in T /\ ~(N < p)
    BY <1>1, <2>1, <2>7
  <2>. QED
    BY <1>3, <2>6, <2>8 DEF T
<1>. QED
  BY <1>15, <1>16

-----------------------------------------------------------------------------
\* `q` holds entries of `r` in their order, those of everyone but k.
OthersOf(r, k, q) ==
    /\ q \in Seq(Entry)
    /\ \A i, j \in 1..Len(q) : i < j =>
         \E x, y \in 1..Len(r) : x < y /\ q[i] = r[x] /\ q[j] = r[y]
    /\ \A i \in 1..Len(q) :
         q[i].id # k /\ \E x \in 1..Len(r) : q[i] = r[x]
    /\ \A x \in 1..Len(r) : r[x].id # k =>
         \E i \in 1..Len(q) : q[i] = r[x]
    /\ r # <<>> /\ ~IsActive(r, k) => q # <<>> /\ q[Len(q)] = r[Len(r)]

LEMMA WithoutLeavesOthers ==
    ASSUME NEW r \in Seq(Entry), NEW k, Distinct(r)
    PROVE  OthersOf(r, k, Without(r, k))
<1>1. CASE PlacesOf(r, k) = {}
  <2>1. Without(r, k) = r
    BY <1>1, WithoutIs
  <2>2. OthersOf(r, k, r)
    BY <1>1 DEF OthersOf, PlacesOf
  <2>. QED
    BY <2>1, <2>2
<1>2. ASSUME NEW p \in PlacesOf(r, k) PROVE OthersOf(r, k, Without(r, k))
  <2> DEFINE q == Skip(r, p)
  <2>1. Without(r, k) = q
    BY WithoutIs
  <2>2. p \in 1..Len(r) /\ \A n \in 1..Len(r) : r[n].id = k <=> n = p
    BY DEF PlacesOf, Distinct
  <2>3. q \in Seq(Entry) /\ Len(q) = Len(r) - 1
    BY <2>2, SkipTyped
  <2>4. \A i \in 1..(Len(r) - 1) : q[i] = IF i < p THEN r[i] ELSE r[i + 1]
    BY DEF Skip
  <2> HIDE DEF q
  <2> DEFINE From(i) == IF i < p THEN i ELSE i + 1
  <2>5. \A i \in 1..(Len(r) - 1) :
          /\ From(i) \in 1..Len(r)
          /\ From(i) # p
          /\ q[i] = r[From(i)]
    BY <2>2, <2>4
  <2>6. \A i, j \in 1..(Len(r) - 1) : i < j => From(i) < From(j)
    BY <2>2
  <2>7. \A x \in 1..Len(r) : x # p =>
          \E i \in 1..(Len(r) - 1) : q[i] = r[x]
    <3> TAKE x \in 1..Len(r)
    <3>1. CASE x < p
      BY <3>1, <2>2, <2>4
    <3>2. CASE x > p
      <4>1. x - 1 \in 1..(Len(r) - 1) /\ ~(x - 1 < p) /\ (x - 1) + 1 = x
        BY <3>2, <2>2
      <4>. QED
        BY <4>1, <2>4
    <3>. QED
      BY <3>1, <3>2, <2>2
  <2>8. ~IsActive(r, k) => q # <<>> /\ q[Len(q)] = r[Len(r)]
    <3> SUFFICES ASSUME ~IsActive(r, k)
                 PROVE  q # <<>> /\ q[Len(q)] = r[Len(r)]
      OBVIOUS
    <3>1. p # Len(r)
      BY <2>2 DEF IsActive, Last
    <3>2. Len(r) - 1 \in 1..(Len(r) - 1) /\ ~(Len(r) - 1 < p) /\ (Len(r) - 1) + 1 = Len(r)
      BY <3>1, <2>2
    <3>. QED
      BY <3>2, <2>3, <2>4
  <2> HIDE DEF From
  <2>9. \A i, j \in 1..Len(q) : i < j =>
          \E x, y \in 1..Len(r) : x < y /\ q[i] = r[x] /\ q[j] = r[y]
    BY <2>3, <2>5, <2>6
  <2>10. \A i \in 1..Len(q) :
           q[i].id # k /\ \E x \in 1..Len(r) : q[i] = r[x]
    BY <2>2, <2>3, <2>5
  <2>11. \A x \in 1..Len(r) : r[x].id # k => \E i \in 1..Len(q) : q[i] = r[x]
    BY <2>2, <2>3, <2>7
  <2>12. OthersOf(r, k, q)
    BY <2>3, <2>8, <2>9, <2>10, <2>11 DEF OthersOf
  <2>. QED
    BY <2>1, <2>12
<1>. QED
  BY <1>1, <1>2

\* Removing the entry of a client that is listed leaves the others too.
LEMMA RemovedIsWithout ==
    ASSUME NEW r \in Seq(Entry), NEW k, Distinct(r), PlacesOf(r, k) # {}
    PROVE  LET i == Min(PlacesOf(r, k))
           IN  /\ i \in 1..Len(r) /\ r[i].id = k
               /\ RemoveAt(r, i) = Without(r, k)
<1>1. PICK p \in PlacesOf(r, k) : TRUE
  OBVIOUS
<1>2. p \in 1..Len(r) /\ r[p].id = k /\ PlacesOf(r, k) = {p}
  BY DEF PlacesOf, Distinct
<1>3. Min(PlacesOf(r, k)) = p
  BY <1>2 DEF Min
<1>4. RemoveAt(r, p) = Skip(r, p) /\ Without(r, k) = Skip(r, p)
  BY <1>2, RemoveAtIs, WithoutIs
<1>. QED
  BY <1>2, <1>3, <1>4

-----------------------------------------------------------------------------
\* The list goes by the uses u, each with the size it has in t.
Ordered(r, u, t) ==
    /\ \A i, j \in 1..Len(r) : i < j => u[r[i].id] < u[r[j].id]
    /\ \A i \in 1..Len(r) : r[i].size = t[r[i].id]

LEMMA OrderedIsDistinct ==
    ASSUME NEW r \in Seq(Entry), NEW u \in [Conns -> Nat], NEW t, Ordered(r, u, t)
    PROVE  Distinct(r)
<1> SUFFICES ASSUME NEW i \in 1..Len(r), NEW j \in 1..Len(r), r[i].id = r[j].id, i # j
             PROVE  FALSE
  BY DEF Distinct
<1>1. r[i].id \in Conns
  <2>1. r[i] \in Entry
    OBVIOUS
  <2>. QED
    BY <2>1 DEF Entry
<1>2. u[r[i].id] \in Nat
  BY <1>1
<1>3. i < j \/ j < i
  OBVIOUS
<1>. QED
  BY <1>2, <1>3 DEF Ordered

\* A list of distinct clients is no longer than there are clients.
LEMMA DistinctIsShort ==
    ASSUME NEW r \in Seq(Entry), Distinct(r)
    PROVE  Len(r) <= Cardinality(Conns)
<1> DEFINE N == Len(r)
           S == 1..N
           f == [i \in S |-> r[i].id]
<1>1. N \in Nat
  OBVIOUS
<1>2. IsFiniteSet(S) /\ Cardinality(S) = N
  BY <1>1, FS_Interval
<1>3. f \in [S -> Conns]
  <2>1. \A i \in S : r[i] \in Entry
    OBVIOUS
  <2>. QED
    BY <2>1 DEF Entry
<1>4. \A i, j \in S : f[i] = f[j] => i = j
  BY DEF Distinct
<1> HIDE DEF f, S
<1>5. f \in Injection(S, Conns)
  BY <1>3, <1>4, Fun_IsInj
<1>6. Cardinality(S) <= Cardinality(Conns)
  BY <1>5, ViewersAssumption, FS_Injection
<1>. QED
  BY <1>2, <1>6 DEF N

\* The lists that the calls get, uses and sizes that were so far, and a moment
\* after them.
GoodList(r, u, t, m) ==
    /\ r \in Seq(Entry)
    /\ u \in [Conns -> Nat]
    /\ t \in [Conns -> Sizes]
    /\ m \in Nat
    /\ \A j \in Conns : u[j] < m
    /\ Ordered(r, u, t)

\* What using a client leaves.
EndsWith(r, a, k, s, u, t) ==
    /\ a \in Seq(Entry)
    /\ a # <<>> /\ Last(a).size = s
    /\ Ordered(a, u, t)
    /\ \A j \in Conns : PlacesOf(r, j) # {} => PlacesOf(a, j) # {}

\* A client that is used goes to the end.
LEMMA UsedGoesLast ==
    ASSUME NEW r, NEW u, NEW t, NEW m, GoodList(r, u, t, m),
           NEW k \in Conns, NEW s \in Sizes, NEW q, OthersOf(r, k, q)
    PROVE  EndsWith(r, Append(q, [id |-> k, size |-> s]), k, s,
                    [u EXCEPT ![k] = m], [t EXCEPT ![k] = s])
<1> DEFINE e == [id |-> k, size |-> s]
           a == Append(q, e)
           u2 == [u EXCEPT ![k] = m]
           t2 == [t EXCEPT ![k] = s]
<1>1. /\ r \in Seq(Entry) /\ u \in [Conns -> Nat] /\ t \in [Conns -> Sizes] /\ m \in Nat
      /\ \A j \in Conns : u[j] < m
      /\ Ordered(r, u, t)
  BY DEF GoodList
<1>2. e \in Entry /\ e.id = k /\ e.size = s
  BY DEF Entry
<1>3. q \in Seq(Entry)
  BY DEF OthersOf
<1> HIDE DEF e
<1>4. /\ a \in Seq(Entry) /\ Len(a) = Len(q) + 1 /\ Len(q) \in Nat
      /\ \A i \in 1..Len(q) : a[i] = q[i]
      /\ a[Len(a)] = e
  BY <1>2, <1>3, AppendProperties
<1> HIDE DEF a
<1>4a. \A x \in 1..Len(a) : x # Len(a) => x \in 1..Len(q) /\ a[x] = q[x]
  BY <1>4
<1>6. \A i \in 1..Len(r) : r[i].id \in Conns
  <2>1. \A i \in 1..Len(r) : r[i] \in Entry
    BY <1>1
  <2>. QED
    BY <2>1 DEF Entry
<1>7. \A i \in 1..Len(q) : /\ q[i].id \in Conns \ {k}
                           /\ u2[q[i].id] = u[q[i].id]
                           /\ t2[q[i].id] = t[q[i].id]
                           /\ q[i].size = t[q[i].id]
  BY <1>1, <1>6 DEF OthersOf, Ordered
<1>8. u2[k] = m /\ t2[k] = s
  BY <1>1
<1>9. \A i, j \in 1..Len(q) : i < j => u[q[i].id] < u[q[j].id]
  <2> TAKE i, j \in 1..Len(q)
  <2> HAVE i < j
  <2>1. PICK x, y \in 1..Len(r) : x < y /\ q[i] = r[x] /\ q[j] = r[y]
    BY DEF OthersOf
  <2>2. u[r[x].id] < u[r[y].id]
    BY <1>1, <2>1 DEF Ordered
  <2>. QED
    BY <2>1, <2>2
<1>10. \A i, j \in 1..Len(a) : i < j => u2[a[i].id] < u2[a[j].id]
  <2> TAKE i, j \in 1..Len(a)
  <2> HAVE i < j
  <2>1. i \in 1..Len(q) /\ a[i] = q[i]
    BY <1>4, <1>4a
  <2>2. CASE j = Len(a)
    <3>1. u2[a[i].id] = u[q[i].id] /\ q[i].id \in Conns
      BY <1>7, <2>1
    <3>2. u2[a[j].id] = m
      BY <1>2, <1>4, <1>8, <2>2
    <3>3. u[q[i].id] < m
      BY <1>1, <3>1
    <3>. QED
      BY <3>1, <3>2, <3>3
  <2>3. CASE j # Len(a)
    <3>1. j \in 1..Len(q) /\ a[j] = q[j]
      BY <1>4a, <2>3
    <3>2. u[q[i].id] < u[q[j].id]
      BY <1>9, <2>1, <3>1
    <3>3. u2[a[i].id] = u[q[i].id] /\ u2[a[j].id] = u[q[j].id]
      BY <1>7, <2>1, <3>1
    <3>. QED
      BY <3>2, <3>3
  <2>. QED
    BY <2>2, <2>3
<1>11. \A i \in 1..Len(a) : a[i].size = t2[a[i].id]
  <2> TAKE i \in 1..Len(a)
  <2>1. CASE i = Len(a)
    BY <1>2, <1>4, <1>8, <2>1
  <2>2. CASE i # Len(a)
    <3>1. i \in 1..Len(q) /\ a[i] = q[i]
      BY <1>4, <2>2
    <3>. QED
      BY <1>7, <3>1
  <2>. QED
    BY <2>1, <2>2
<1>12. ASSUME NEW j \in Conns, PlacesOf(r, j) # {} PROVE PlacesOf(a, j) # {}
  <2>1. PICK x \in 1..Len(r) : r[x].id = j
    BY <1>1, <1>12 DEF PlacesOf
  <2>2. CASE j = k
    BY <1>2, <1>4, <2>2 DEF PlacesOf
  <2>3. CASE j # k
    <3>1. PICK i \in 1..Len(q) : q[i] = r[x]
      BY <2>1, <2>3 DEF OthersOf
    <3>. QED
      BY <1>4, <2>1, <3>1 DEF PlacesOf
  <2>. QED
    BY <2>2, <2>3
<1>13. a # <<>> /\ Last(a).size = s
  BY <1>2, <1>4 DEF Last
<1>. QED
  BY <1>4, <1>10, <1>11, <1>12, <1>13 DEF Ordered, EndsWith, a, e

-----------------------------------------------------------------------------
\* What a call of Viewers returns: a list in order that still holds the others,
\* and the size of its last entry, if there is one and it is another than before.
Serves(r, k, v, u, t) ==
    /\ v.recent \in Seq(Entry)
    /\ v.apply \subseteq Sizes
    /\ Ordered(v.recent, u, t)
    /\ \A j \in Conns \ {k} : PlacesOf(r, j) # {} => PlacesOf(v.recent, j) # {}
    /\ \A s \in v.apply : v.recent # <<>> => Last(v.recent).size = s
    /\ v.apply = {} /\ v.recent # <<>> =>
         r # <<>> /\ Last(v.recent).size = Last(r).size

LEMMA AttachedServes ==
    ASSUME NEW r, NEW u, NEW t, NEW m, GoodList(r, u, t, m),
           NEW k \in Conns, NEW s \in Sizes
    PROVE  Serves(r, k, Attached(r, k, s), [u EXCEPT ![k] = m], [t EXCEPT ![k] = s])
<1> DEFINE q == Without(r, k)
           a == Append(q, [id |-> k, size |-> s])
           v == Attached(r, k, s)
<1>1. Distinct(r)
  BY OrderedIsDistinct DEF GoodList
<1>2. OthersOf(r, k, q)
  BY <1>1, WithoutLeavesOthers DEF GoodList
<1> HIDE DEF q
<1>3. EndsWith(r, a, k, s, [u EXCEPT ![k] = m], [t EXCEPT ![k] = s])
  BY <1>2, UsedGoesLast
<1>4. v.recent = a /\ v.apply = {s}
  BY DEF Attached, q
<1> HIDE DEF a, v
<1>5. Serves(r, k, v, [u EXCEPT ![k] = m], [t EXCEPT ![k] = s])
  BY <1>3, <1>4 DEF Serves, EndsWith
<1>. QED
  BY <1>5 DEF v

LEMMA TypedServes ==
    ASSUME NEW r, NEW u, NEW t, NEW m, GoodList(r, u, t, m), NEW k \in Conns
    PROVE  PlacesOf(r, k) # {} => Serves(r, k, Typed(r, k), [u EXCEPT ![k] = m], t)
<1> DEFINE v == Typed(r, k)
           u2 == [u EXCEPT ![k] = m]
<1>1. Distinct(r)
  BY OrderedIsDistinct DEF GoodList
<1>2. ASSUME IsActive(r, k) PROVE Serves(r, k, v, u2, t)
  <2>1. v.recent = r /\ v.apply = {}
    BY <1>2 DEF Typed
  <2>2. r \in Seq(Entry) /\ r # <<>> /\ r[Len(r)].id = k
    BY <1>2 DEF GoodList, IsActive, Last
  <2>3. \A i \in 1..Len(r) : r[i].id \in Conns /\ (i # Len(r) => r[i].id # k)
    <3>1. \A i \in 1..Len(r) : r[i] \in Entry
      BY <2>2
    <3>2. Len(r) \in 1..Len(r)
      BY <2>2
    <3>. QED
      BY <1>1, <2>2, <3>1, <3>2 DEF Distinct, Entry
  <2>4. Ordered(r, u2, t)
    <3>1. \A i, j \in 1..Len(r) : i < j => u2[r[i].id] < u2[r[j].id]
      <4> TAKE i, j \in 1..Len(r)
      <4> HAVE i < j
      <4>1. i # Len(r) /\ u2[r[i].id] = u[r[i].id] /\ r[i].id \in Conns
        BY <2>2, <2>3 DEF GoodList
      <4>2. u[r[i].id] < m /\ u[r[i].id] < u[r[j].id]
        BY <4>1 DEF GoodList, Ordered
      <4>3. r[j].id = k => u2[r[j].id] = m
        BY DEF GoodList
      <4>4. r[j].id # k => u2[r[j].id] = u[r[j].id]
        BY <2>3 DEF GoodList
      <4>. QED
        BY <4>1, <4>2, <4>3, <4>4
    <3>. QED
      BY <3>1 DEF Ordered, GoodList
  <2>. QED
    BY <2>1, <2>2, <2>4 DEF Serves
<1>3. ASSUME ~IsActive(r, k), PlacesOf(r, k) # {} PROVE Serves(r, k, v, u2, t)
  <2> DEFINE i == Min(PlacesOf(r, k))
             q == Without(r, k)
  <2>1. i \in 1..Len(r) /\ r[i].id = k /\ RemoveAt(r, i) = q
    BY <1>1, <1>3, RemovedIsWithout DEF GoodList
  <2>2. v.recent = Append(q, r[i]) /\ v.apply = {r[i].size}
    BY <1>3, <2>1 DEF Typed
  <2>3. OthersOf(r, k, q)
    BY <1>1, WithoutLeavesOthers DEF GoodList
  <2> HIDE DEF i, q, v
  <2>4. r[i] \in Entry
    BY <2>1 DEF GoodList
  <2>5. r[i].size \in Sizes /\ r[i] = [id |-> k, size |-> r[i].size]
    BY <2>1, <2>4 DEF Entry
  <2>6. t = [t EXCEPT ![k] = r[i].size]
    BY <2>1 DEF GoodList, Ordered
  <2> DEFINE s == r[i].size
             a == Append(q, [id |-> k, size |-> s])
  <2>7. s \in Sizes /\ v.recent = a /\ v.apply = {s} /\ t = [t EXCEPT ![k] = s]
    BY <2>2, <2>5, <2>6
  <2> HIDE DEF s
  <2>8. EndsWith(r, a, k, s, u2, [t EXCEPT ![k] = s])
    BY <2>3, <2>7, UsedGoesLast
  <2> HIDE DEF a, u2
  <2>9. EndsWith(r, a, k, s, u2, t)
    BY <2>7, <2>8
  <2>. QED
    BY <2>7, <2>9 DEF Serves, EndsWith
<1>. QED
  BY <1>2, <1>3

LEMMA LeftServes ==
    ASSUME NEW r, NEW u, NEW t, NEW m, GoodList(r, u, t, m), NEW k \in Conns
    PROVE  Serves(r, k, Left(r, k), u, t)
<1> DEFINE q == Without(r, k)
           v == Left(r, k)
<1>1. Distinct(r)
  BY OrderedIsDistinct DEF GoodList
<1>2. OthersOf(r, k, q)
  BY <1>1, WithoutLeavesOthers DEF GoodList
<1>3. v.recent = q /\ v.apply = IF IsActive(r, k) /\ q # <<>> THEN {Last(q).size} ELSE {}
  BY DEF Left
<1> HIDE DEF q, v
<1>4. q \in Seq(Entry)
  BY <1>2 DEF OthersOf
<1>5. Ordered(q, u, t)
  <2>1. \A i, j \in 1..Len(q) : i < j => u[q[i].id] < u[q[j].id]
    <3> TAKE i, j \in 1..Len(q)
    <3> HAVE i < j
    <3>1. PICK x, y \in 1..Len(r) : x < y /\ q[i] = r[x] /\ q[j] = r[y]
      BY <1>2 DEF OthersOf
    <3>2. u[r[x].id] < u[r[y].id]
      BY <3>1 DEF Ordered, GoodList
    <3>. QED
      BY <3>1, <3>2
  <2>2. \A i \in 1..Len(q) : q[i].size = t[q[i].id]
    BY <1>2 DEF OthersOf, Ordered, GoodList
  <2>. QED
    BY <2>1, <2>2 DEF Ordered
<1>6. \A j \in Conns \ {k} : PlacesOf(r, j) # {} => PlacesOf(q, j) # {}
  <2> TAKE j \in Conns \ {k}
  <2> HAVE PlacesOf(r, j) # {}
  <2>1. PICK x \in 1..Len(r) : r[x].id = j
    BY DEF PlacesOf, GoodList
  <2>2. PICK i \in 1..Len(q) : q[i] = r[x]
    BY <1>2, <2>1 DEF OthersOf
  <2>. QED
    BY <1>4, <2>1, <2>2 DEF PlacesOf
<1>7. q # <<>> => Last(q).size \in Sizes
  <2> SUFFICES ASSUME q # <<>> PROVE Last(q).size \in Sizes
    OBVIOUS
  <2>1. q[Len(q)] \in Entry
    BY <1>4
  <2>. QED
    BY <2>1 DEF Last, Entry
<1>8. ~IsActive(r, k) /\ q # <<>> => r # <<>> /\ Last(q) = Last(r)
  <2> SUFFICES ASSUME ~IsActive(r, k), q # <<>> PROVE r # <<>> /\ Last(q) = Last(r)
    OBVIOUS
  <2>1. r # <<>>
    <3>1. 1 \in 1..Len(q)
      BY <1>4
    <3>2. PICK x \in 1..Len(r) : q[1] = r[x]
      BY <1>2, <3>1 DEF OthersOf
    <3>. QED
      BY DEF GoodList
  <2>. QED
    BY <1>2, <2>1 DEF OthersOf, Last
<1>. QED
  BY <1>3, <1>4, <1>5, <1>6, <1>7, <1>8 DEF Serves, v

LEMMA ResizedServes ==
    ASSUME NEW r, NEW u, NEW t, NEW m, GoodList(r, u, t, m),
           NEW k \in Conns, NEW s \in Sizes
    PROVE  Serves(r, k, Resized(r, k, s), u, [t EXCEPT ![k] = s])
<1> DEFINE v == Resized(r, k, s)
           New(i) == IF r[i].id = k THEN [r[i] EXCEPT !.size = s] ELSE r[i]
           q == [i \in 1..Len(r) |-> New(i)]
           t2 == [t EXCEPT ![k] = s]
<1>1. r \in Seq(Entry) /\ DOMAIN r = 1..Len(r) /\ t \in [Conns -> Sizes]
  BY DEF GoodList
<1>2. v.recent = q /\ v.apply = IF IsActive(r, k) THEN {s} ELSE {}
  BY <1>1 DEF Resized
<1>3. \A i \in 1..Len(r) : r[i] \in Entry /\ r[i].id \in Conns
  <2>1. \A i \in 1..Len(r) : r[i] \in Entry
    BY <1>1
  <2>. QED
    BY <2>1 DEF Entry
<1>4. \A i \in 1..Len(r) :
        /\ New(i) \in Entry /\ New(i).id = r[i].id
        /\ New(i).size = IF r[i].id = k THEN s ELSE r[i].size
  BY <1>3 DEF Entry
<1> HIDE DEF New, v
<1>5. /\ q \in Seq(Entry) /\ Len(q) = Len(r)
      /\ \A i \in 1..Len(r) : q[i] = New(i)
  BY <1>1, <1>4
<1> HIDE DEF q
<1>6. Ordered(q, u, t2)
  <2>1. \A i, j \in 1..Len(q) : i < j => u[q[i].id] < u[q[j].id]
    BY <1>4, <1>5 DEF Ordered, GoodList
  <2>2. \A i \in 1..Len(q) : q[i].size = t2[q[i].id]
    <3> TAKE i \in 1..Len(q)
    <3>1. r[i].size = t[r[i].id]
      BY <1>5 DEF Ordered, GoodList
    <3>2. q[i].id = r[i].id /\ q[i].size = IF r[i].id = k THEN s ELSE r[i].size
      BY <1>4, <1>5
    <3>. QED
      BY <1>1, <1>3, <1>5, <3>1, <3>2
  <2>. QED
    BY <2>1, <2>2 DEF Ordered
<1>7. \A j \in Conns \ {k} : PlacesOf(r, j) # {} => PlacesOf(q, j) # {}
  <2>1. DOMAIN q = DOMAIN r
    BY <1>1, <1>5
  <2>2. \A i \in DOMAIN r : q[i].id = r[i].id
    BY <1>1, <1>4, <1>5
  <2>. QED
    BY <2>1, <2>2 DEF PlacesOf
<1>8. q # <<>> => r # <<>> /\ Last(q).size = IF IsActive(r, k) THEN s ELSE Last(r).size
  <2> SUFFICES ASSUME q # <<>>
               PROVE  r # <<>> /\ Last(q).size = IF IsActive(r, k) THEN s ELSE Last(r).size
    OBVIOUS
  <2>1. Len(r) \in 1..Len(r) /\ r # <<>> /\ Len(q) = Len(r)
    BY <1>1, <1>5
  <2>2. q[Len(r)].size = IF r[Len(r)].id = k THEN s ELSE r[Len(r)].size
    BY <1>4, <1>5, <2>1
  <2>. QED
    BY <2>1, <2>2 DEF Last, IsActive
<1>. QED
  BY <1>2, <1>5, <1>6, <1>7, <1>8 DEF Serves, v

-----------------------------------------------------------------------------
\* The types without the length of the list, which follows from its order.
TypesInv ==
    /\ build \in {"unix", "windows"}
    /\ recent \in Seq(Entry)
    /\ {pty, screen} \subseteq Sizes
    /\ sizing \subseteq Conns
    /\ pc \in [Conns -> {"new", "idle", "failed", "gone"} \cup Applying]
    /\ want \in [Conns -> Sizes]
    /\ told \in [Conns -> Sizes]
    /\ used \in [Conns -> 0..MaxEvents]
    /\ events \in 0..MaxEvents
    /\ {unsettled, overlapped} \subseteq BOOLEAN

\* The list in order, no use after now, and who waits for a frame or has failed
\* is listed.
ListInv ==
    /\ Ordered(recent, used, told)
    /\ \A k \in Conns : used[k] <= events
    /\ \A k \in Conns : pc[k] \in {"idle", "failed"} => PlacesOf(recent, k) # {}

\* At most one thread is in `resize`.
OneApplies == \A j, k \in Conns : pc[j] \in Applying /\ pc[k] \in Applying => j = k

\* While the last size was decided on alone and has not failed, the one thread in
\* `resize` applies the size of the client in use.
SizeInv ==
    ~unsettled =>
      /\ OneApplies
      /\ Quiet => SizeOfLastUsed
      /\ \A k \in Conns :
           /\ pc[k] \in Applying /\ recent # <<>> => want[k] = Last(recent).size
           /\ pc[k] \in {"repeating", "syncing"} => pty = want[k]

\* As long as nothing overlaps, how far the one thread is says what has its size.
ScreenInv ==
    ~overlapped =>
      /\ OneApplies
      /\ (\A k \in Conns : pc[k] # "syncing") => ScreenInSync
      /\ \A k \in Conns : pc[k] \in {"repeating", "syncing"} => pty = want[k]

\* On Windows who changes the size has the size mutex, and the screen is the
\* PTY's, but for what the holder has yet to do.
MutexInv ==
    build = "windows" =>
      /\ \A k \in Conns :
           /\ k \in sizing <=> pc[k] \in {"changing", "syncing"}
           /\ pc[k] # "repeating"
           /\ pc[k] = "syncing" => pty = want[k]
      /\ \A j, k \in sizing : j = k
      /\ (\A k \in Conns : pc[k] # "syncing") => ScreenInSync

IInv == TypesInv /\ ListInv /\ SizeInv /\ ScreenInv /\ MutexInv

LEMMA InvInit == Init => IInv
<1> SUFFICES ASSUME Init PROVE IInv
  OBVIOUS
<1>1. TypesInv
  <2>1. recent \in Seq(Entry) /\ sizing \subseteq Conns
    BY DEF Init
  <2>2. {pty, screen} \subseteq Sizes /\ want \in [Conns -> Sizes] /\ told \in [Conns -> Sizes]
    BY ViewersAssumption DEF Init
  <2>3. 0 \in 0..MaxEvents
    BY ViewersAssumption
  <2>4. used \in [Conns -> 0..MaxEvents] /\ events \in 0..MaxEvents
    BY <2>3 DEF Init
  <2>. QED
    BY <2>1, <2>2, <2>4 DEF Init, TypesInv
<1>2. ListInv
  BY DEF Init, ListInv, Ordered
<1>3. SizeInv /\ ScreenInv
  BY DEF Init, SizeInv, ScreenInv, OneApplies, Applying, SizeOfLastUsed, ScreenInSync
<1>4. MutexInv
  BY DEF Init, MutexInv, ScreenInSync
<1>. QED
  BY <1>1, <1>2, <1>3, <1>4 DEF IInv

LEMMA ListIsGood ==
    TypesInv /\ ListInv => GoodList(recent, used, told, events + 1)
<1> SUFFICES ASSUME TypesInv, ListInv PROVE GoodList(recent, used, told, events + 1)
  OBVIOUS
<1>1. events \in Nat /\ used \in [Conns -> Nat]
  BY ViewersAssumption DEF TypesInv
<1>2. \A j \in Conns : used[j] < events + 1
  BY <1>1 DEF ListInv
<1>. QED
  BY <1>1, <1>2 DEF TypesInv, ListInv, GoodList

\* Whatever Viewers decides. If there is a size to apply, and another is being
\* applied, something has overlapped; otherwise k is alone in `resize`.
LEMMA DecideKeeps ==
    ASSUME IInv, NEW k \in Conns, pc[k] \in {"new", "idle", "failed"},
           NEW v, Serves(recent, k, v, used', told'), Decide(k, v),
           events' \in 0..MaxEvents, used' \in [Conns -> 0..MaxEvents],
           told' \in [Conns -> Sizes], \A j \in Conns : used'[j] <= events'
    PROVE  IInv'
<1> USE DEF IInv
<1>1. /\ recent' = v.recent
      /\ build' = build /\ pty' = pty /\ screen' = screen /\ sizing' = sizing
  BY DEF Decide
<1>2. \/ /\ v.apply = {}
         /\ pc' = [pc EXCEPT ![k] = Rest(k, v.recent)]
         /\ want' = want /\ unsettled' = unsettled /\ overlapped' = overlapped
      \/ \E s \in v.apply : /\ pc' = [pc EXCEPT ![k] = "measuring"]
                            /\ want' = [want EXCEPT ![k] = s]
                            /\ unsettled' = \E j \in Conns \ {k} : pc[j] \in Applying
                            /\ overlapped' = (overlapped \/ unsettled')
  BY DEF Decide
<1>3. /\ pc \in [Conns -> {"new", "idle", "failed", "gone"} \cup Applying]
      /\ want \in [Conns -> Sizes]
  BY DEF TypesInv
<1>4. \A j \in Conns \ {k} : pc'[j] = pc[j] /\ want'[j] = want[j]
  BY <1>2, <1>3
<1>5. \/ /\ v.apply = {} /\ pc'[k] = Rest(k, v.recent)
         /\ want' = want /\ unsettled' = unsettled /\ overlapped' = overlapped
      \/ /\ \E s \in v.apply : pc'[k] = "measuring" /\ want'[k] = s
         /\ unsettled' = \E j \in Conns \ {k} : pc[j] \in Applying
         /\ overlapped' = (overlapped \/ unsettled')
  BY <1>2, <1>3
<1>6. Rest(k, v.recent) \in {"idle", "gone"}
  BY DEF Rest
<1>7. TypesInv'
  <2>1. recent' \in Seq(Entry)
    BY <1>1 DEF Serves
  <2>2. pc' \in [Conns -> {"new", "idle", "failed", "gone"} \cup Applying]
    BY <1>2, <1>3, <1>6 DEF Applying
  <2>3. want' \in [Conns -> Sizes]
    BY <1>2, <1>3 DEF Serves
  <2>4. {unsettled', overlapped'} \subseteq BOOLEAN
    BY <1>5 DEF TypesInv
  <2>. QED
    BY <1>1, <2>1, <2>2, <2>3, <2>4 DEF TypesInv
<1>8. ListInv'
  <2>1. Ordered(recent', used', told')
    BY <1>1 DEF Serves
  <2>2. ASSUME NEW j \in Conns, pc'[j] \in {"idle", "failed"} PROVE PlacesOf(recent', j) # {}
    <3>1. CASE j = k
      BY <1>1, <1>5, <2>2, <3>1 DEF Rest
    <3>2. CASE j # k
      <4>1. PlacesOf(recent, j) # {}
        BY <1>4, <2>2, <3>2 DEF ListInv
      <4>. QED
        BY <1>1, <3>2, <4>1 DEF Serves
    <3>. QED
      BY <3>1, <3>2
  <2>. QED
    BY <2>1, <2>2 DEF ListInv
<1>9. ASSUME v.apply = {} PROVE SizeInv' /\ ScreenInv'
  <2>1. /\ want' = want /\ unsettled' = unsettled /\ overlapped' = overlapped
        /\ pc'[k] \in {"idle", "gone"}
    BY <1>5, <1>6, <1>9
  <2>2. \A j \in Conns : /\ pc'[j] \in Applying <=> pc[j] \in Applying
                         /\ pc'[j] \in Applying => pc'[j] = pc[j]
    BY <1>4, <2>1 DEF Applying
  <2>3. (OneApplies <=> OneApplies') /\ (Quiet <=> Quiet')
    BY <2>2 DEF OneApplies, Quiet
  <2>4. recent' # <<>> => recent # <<>> /\ Last(recent').size = Last(recent).size
    BY <1>1, <1>9 DEF Serves
  <2>5. SizeInv'
    <3> SUFFICES ASSUME ~unsettled PROVE SizeInv'
      BY <2>1 DEF SizeInv
    <3>1. Quiet' => SizeOfLastUsed'
      BY <1>1, <2>3, <2>4 DEF SizeInv, SizeOfLastUsed
    <3>2. \A j \in Conns :
            /\ pc'[j] \in Applying /\ recent' # <<>> => want'[j] = Last(recent').size
            /\ pc'[j] \in {"repeating", "syncing"} => pty' = want'[j]
      BY <1>1, <2>1, <2>2, <2>4 DEF SizeInv, Applying
    <3>. QED
      BY <2>3, <3>1, <3>2 DEF SizeInv
  <2>6. ScreenInv'
    <3> SUFFICES ASSUME ~overlapped PROVE ScreenInv'
      BY <2>1 DEF ScreenInv
    <3>1. (\A j \in Conns : pc'[j] # "syncing") => ScreenInSync'
      BY <1>1, <2>2 DEF ScreenInv, ScreenInSync, Applying
    <3>2. \A j \in Conns : pc'[j] \in {"repeating", "syncing"} => pty' = want'[j]
      BY <1>1, <2>1, <2>2 DEF ScreenInv, Applying
    <3>. QED
      BY <2>3, <3>1, <3>2 DEF ScreenInv
  <2>. QED
    BY <2>5, <2>6
<1>10. ASSUME v.apply # {} PROVE SizeInv' /\ ScreenInv'
  <2> SUFFICES ASSUME ~unsettled' \/ ~overlapped' PROVE SizeInv' /\ ScreenInv'
    BY DEF SizeInv, ScreenInv
  <2>1. PICK s \in v.apply : pc'[k] = "measuring" /\ want'[k] = s
    BY <1>5, <1>10
  <2>2. ~unsettled' /\ \A j \in Conns \ {k} : pc[j] \notin Applying
    BY <1>5, <1>10
  <2>3. \A j \in Conns : pc'[j] \in Applying => j = k
    BY <1>4, <2>2
  <2>4. OneApplies' /\ ~Quiet'
    BY <2>1, <2>3 DEF OneApplies, Quiet, Applying
  <2>5. recent' # <<>> => want'[k] = Last(recent').size
    BY <1>1, <2>1 DEF Serves
  <2>6. \A j \in Conns : pc'[j] \notin {"repeating", "syncing"}
    BY <2>1, <2>3 DEF Applying
  <2>7. SizeInv'
    BY <2>3, <2>4, <2>5, <2>6 DEF SizeInv
  <2>8. ScreenInv'
    <3>1. overlapped' = overlapped
      BY <1>5, <1>10, <2>2 DEF TypesInv
    <3>2. ASSUME ~overlapped PROVE ScreenInSync'
      <4>1. \A j \in Conns : pc[j] # "syncing"
        BY <2>2 DEF Applying
      <4>. QED
        BY <1>1, <3>2, <4>1 DEF ScreenInv, ScreenInSync
    <3>. QED
      BY <2>4, <2>6, <3>1, <3>2 DEF ScreenInv
  <2>. QED
    BY <2>7, <2>8
<1>11. MutexInv'
  <2> SUFFICES ASSUME build = "windows" PROVE MutexInv'
    BY <1>1 DEF MutexInv
  <2>1. pc'[k] \notin {"changing", "syncing", "repeating"} /\ k \notin sizing
    BY <1>5, <1>6 DEF MutexInv
  <2>2. \A j \in Conns : /\ j \in sizing' <=> pc'[j] \in {"changing", "syncing"}
                         /\ pc'[j] # "repeating"
                         /\ pc'[j] = "syncing" => pty' = want'[j]
    BY <1>1, <1>4, <2>1 DEF MutexInv
  <2>3. \A i, j \in sizing' : i = j
    BY <1>1 DEF MutexInv
  <2>4. (\A j \in Conns : pc'[j] # "syncing") => ScreenInSync'
    BY <1>1, <1>4 DEF MutexInv, ScreenInSync
  <2>. QED
    BY <2>2, <2>3, <2>4 DEF MutexInv
<1>. QED
  BY <1>7, <1>8, <1>9, <1>11, <1>10

LEMMA FramesKeep ==
    ASSUME IInv, NEW k \in Conns, NEW s \in Sizes,
           Attach(k, s) \/ Resize(k, s) \/ Input(k) \/ Leave(k)
    PROVE  IInv'
<1>1. GoodList(recent, used, told, events + 1) /\ TypesInv /\ ListInv
  BY ListIsGood DEF IInv
<1>2. /\ events \in 0..MaxEvents /\ MaxEvents \in Nat
      /\ used \in [Conns -> 0..MaxEvents] /\ told \in [Conns -> Sizes]
      /\ \A j \in Conns : used[j] <= events
  BY <1>1, ViewersAssumption DEF TypesInv, ListInv
<1>3. ASSUME events < MaxEvents
      PROVE  /\ events + 1 \in 0..MaxEvents
             /\ [used EXCEPT ![k] = events + 1] \in [Conns -> 0..MaxEvents]
             /\ \A j \in Conns : [used EXCEPT ![k] = events + 1][j] <= events + 1
             /\ \A j \in Conns : used[j] <= events + 1
  <2>1. events + 1 \in 0..MaxEvents
    BY <1>2, <1>3
  <2>2. \A j \in Conns : used[j] <= events + 1
    BY <1>2
  <2>. QED
    BY <1>2, <2>1, <2>2
<1>4. CASE Attach(k, s)
  <2>1. /\ pc[k] \in {"new", "idle"}
        /\ Decide(k, Attached(recent, k, s))
        /\ told' = [told EXCEPT ![k] = s]
        /\ used' = [used EXCEPT ![k] = events + 1]
        /\ events' = events + 1 /\ events < MaxEvents
    BY <1>4 DEF Attach
  <2>2. Serves(recent, k, Attached(recent, k, s), used', told')
    BY <1>1, <2>1, AttachedServes
  <2>3. told' \in [Conns -> Sizes]
    BY <1>2, <2>1
  <2>4. /\ events' \in 0..MaxEvents /\ used' \in [Conns -> 0..MaxEvents]
        /\ \A j \in Conns : used'[j] <= events'
    BY <1>3, <2>1
  <2>. QED
    BY <2>1, <2>2, <2>3, <2>4, DecideKeeps
<1>5. CASE Resize(k, s)
  <2>1. /\ pc[k] = "idle"
        /\ Decide(k, Resized(recent, k, s))
        /\ told' = [told EXCEPT ![k] = s]
        /\ used' = used
        /\ events' = events + 1 /\ events < MaxEvents
    BY <1>5 DEF Resize
  <2>2. Serves(recent, k, Resized(recent, k, s), used', told')
    BY <1>1, <2>1, ResizedServes
  <2>3. told' \in [Conns -> Sizes]
    BY <1>2, <2>1
  <2>4. /\ events' \in 0..MaxEvents /\ used' \in [Conns -> 0..MaxEvents]
        /\ \A j \in Conns : used'[j] <= events'
    BY <1>2, <1>3, <2>1
  <2>. QED
    BY <2>1, <2>2, <2>3, <2>4, DecideKeeps
<1>6. CASE Input(k)
  <2>1. /\ pc[k] = "idle"
        /\ Decide(k, Typed(recent, k))
        /\ used' = [used EXCEPT ![k] = events + 1]
        /\ told' = told
        /\ events' = events + 1 /\ events < MaxEvents
    BY <1>6 DEF Input
  <2>2. PlacesOf(recent, k) # {}
    BY <1>1, <2>1 DEF ListInv
  <2>3. Serves(recent, k, Typed(recent, k), used', told')
    BY <1>1, <2>1, <2>2, TypedServes
  <2>4. /\ events' \in 0..MaxEvents /\ used' \in [Conns -> 0..MaxEvents]
        /\ \A j \in Conns : used'[j] <= events'
    BY <1>3, <2>1
  <2>. QED
    BY <1>2, <2>1, <2>3, <2>4, DecideKeeps
<1>7. CASE Leave(k)
  <2>1. /\ pc[k] \in {"idle", "failed"}
        /\ Decide(k, Left(recent, k))
        /\ used' = used /\ told' = told /\ events' = events
    BY <1>7 DEF Leave
  <2>2. Serves(recent, k, Left(recent, k), used', told')
    BY <1>1, <2>1, LeftServes
  <2>. QED
    BY <1>2, <2>1, <2>2, DecideKeeps
<1>. QED
  BY <1>4, <1>5, <1>6, <1>7

-----------------------------------------------------------------------------
\* A step of `resize` changes neither the list nor what is wanted; whoever it
\* lets go waits for a frame if it is still listed.
LEMMA ResizeKeepsList ==
    ASSUME IInv, NEW k \in Conns,
           NEW p \in {Rest(k, recent)} \cup Applying \cup
                     (IF PlacesOf(recent, k) # {} THEN {"failed"} ELSE {}),
           pc' = [pc EXCEPT ![k] = p],
           UNCHANGED <<build, recent, want, told, used, events>>
    PROVE  /\ ListInv'
           /\ pc' \in [Conns -> {"new", "idle", "failed", "gone"} \cup Applying]
           /\ \A j \in Conns \ {k} : pc'[j] = pc[j]
           /\ pc'[k] = p
<1>1. pc \in [Conns -> {"new", "idle", "failed", "gone"} \cup Applying]
  BY DEF IInv, TypesInv
<1>2. p \in {"new", "idle", "failed", "gone"} \cup Applying
  BY DEF Rest
<1>3. ASSUME NEW j \in Conns, pc'[j] \in {"idle", "failed"} PROVE PlacesOf(recent, j) # {}
  <2>1. CASE j = k
    BY <1>1, <1>3, <2>1 DEF Rest, Applying
  <2>2. CASE j # k
    BY <1>1, <1>3, <2>2 DEF IInv, ListInv
  <2>. QED
    BY <2>1, <2>2
<1>4. ListInv'
  BY <1>3 DEF IInv, ListInv
<1>. QED
  BY <1>1, <1>2, <1>4

LEMMA MeasureKeeps ==
    ASSUME IInv, NEW k \in Conns, Measure(k)
    PROVE  IInv'
<1>1. /\ pc[k] = "measuring"
      /\ UNCHANGED <<build, recent, pty, screen, want, historyVars>>
      /\ recent' = recent /\ pty' = pty /\ screen' = screen /\ want' = want
      /\ build' = build /\ unsettled' = unsettled /\ overlapped' = overlapped
  BY DEF Measure, historyVars
<1>2. PICK p : /\ pc' = [pc EXCEPT ![k] = p]
               /\ \/ p = "changing" /\ build = "windows" /\ sizing = {} /\ sizing' = {k}
                  \/ p = "changing" /\ build # "windows" /\ sizing' = sizing
                  \/ p = "repeating" /\ pty = want[k] /\ build # "windows"
                     /\ sizing' = sizing
                  \/ p = Rest(k, recent) /\ pty = want[k] /\ build = "windows"
                     /\ sizing' = sizing
  BY DEF Measure
<1>3. Rest(k, recent) \in {"idle", "gone"}
  BY DEF Rest
<1>4. p \in {Rest(k, recent)} \cup Applying
  BY <1>2 DEF Applying
<1>5. /\ ListInv'
      /\ pc' \in [Conns -> {"new", "idle", "failed", "gone"} \cup Applying]
      /\ \A j \in Conns \ {k} : pc'[j] = pc[j]
      /\ pc'[k] = p
  BY <1>1, <1>2, <1>4, ResizeKeepsList DEF historyVars
<1>6. TypesInv'
  BY <1>1, <1>2, <1>5 DEF IInv, TypesInv, historyVars
<1>7. SizeInv'
  <2> SUFFICES ASSUME ~unsettled PROVE SizeInv'
    BY <1>1 DEF SizeInv
  <2>1. /\ \A j \in Conns : pc[j] \in Applying => j = k
        /\ recent # <<>> => want[k] = Last(recent).size
    BY <1>1 DEF IInv, SizeInv, OneApplies, Applying
  <2>2. \A j \in Conns : pc'[j] \in Applying => j = k
    BY <1>5, <2>1
  <2>3. Quiet' => SizeOfLastUsed'
    <3>1. Quiet' => pty = want[k]
      BY <1>2, <1>5 DEF Quiet, Applying
    <3>. QED
      BY <1>1, <2>1, <3>1 DEF SizeOfLastUsed
  <2>4. pc'[k] \in {"repeating", "syncing"} => pty = want[k]
    BY <1>2, <1>3, <1>5
  <2>5. \A j \in Conns :
          /\ pc'[j] \in Applying /\ recent' # <<>> => want'[j] = Last(recent').size
          /\ pc'[j] \in {"repeating", "syncing"} => pty' = want'[j]
    BY <1>1, <2>1, <2>2, <2>4 DEF Applying
  <2>. QED
    BY <2>2, <2>3, <2>5 DEF SizeInv, OneApplies
<1>8. ScreenInv'
  <2> SUFFICES ASSUME ~overlapped PROVE ScreenInv'
    BY <1>1 DEF ScreenInv
  <2>1. \A j \in Conns : pc[j] \in Applying => j = k
    BY <1>1 DEF IInv, ScreenInv, OneApplies, Applying
  <2>2. \A j \in Conns : pc'[j] \in Applying => j = k
    BY <1>5, <2>1
  <2>3. ScreenInSync'
    <3>1. \A j \in Conns : pc[j] # "syncing"
      BY <1>1, <2>1 DEF Applying
    <3>. QED
      BY <1>1, <3>1 DEF IInv, ScreenInv, ScreenInSync
  <2>4. pc'[k] \in {"repeating", "syncing"} => pty = want[k]
    BY <1>2, <1>3, <1>5
  <2>5. \A j \in Conns : pc'[j] \in {"repeating", "syncing"} => pty' = want'[j]
    BY <1>1, <2>2, <2>4 DEF Applying
  <2>. QED
    BY <2>2, <2>3, <2>5 DEF ScreenInv, OneApplies
<1>9. MutexInv'
  <2> SUFFICES ASSUME build = "windows" PROVE MutexInv'
    BY <1>1 DEF MutexInv
  <2>1. CASE p = "changing"
    <3>1. sizing = {} /\ sizing' = {k}
      BY <1>2, <1>3, <2>1
    <3>2. \A j \in Conns : /\ j \in sizing' <=> pc'[j] \in {"changing", "syncing"}
                           /\ pc'[j] # "repeating"
                           /\ pc'[j] # "syncing"
      BY <1>5, <2>1, <3>1 DEF IInv, MutexInv
    <3>3. \A j \in Conns : pc[j] # "syncing"
      BY <3>1 DEF IInv, MutexInv
    <3>4. ScreenInSync'
      BY <1>1, <3>3 DEF IInv, MutexInv, ScreenInSync
    <3>. QED
      BY <3>1, <3>2, <3>4 DEF MutexInv
  <2>2. CASE p = Rest(k, recent)
    <3>1. sizing' = sizing /\ p \in {"idle", "gone"}
      BY <1>2, <1>3, <2>2
    <3>2. \A j \in Conns : /\ j \in sizing' <=> pc'[j] \in {"changing", "syncing"}
                           /\ pc'[j] # "repeating"
                           /\ pc'[j] = "syncing" => pty' = want'[j]
      BY <1>1, <1>5, <3>1 DEF IInv, MutexInv
    <3>3. (\A j \in Conns : pc'[j] # "syncing") => ScreenInSync'
      BY <1>1, <1>5 DEF IInv, MutexInv, ScreenInSync
    <3>4. \A i, j \in sizing' : i = j
      BY <3>1 DEF IInv, MutexInv
    <3>. QED
      BY <3>2, <3>3, <3>4 DEF MutexInv
  <2>. QED
    BY <1>2, <2>1, <2>2
<1>. QED
  BY <1>5, <1>6, <1>7, <1>8, <1>9 DEF IInv

LEMMA SetSizeKeeps ==
    ASSUME IInv, NEW k \in Conns, SetSize(k)
    PROVE  IInv'
<1>1. /\ pc[k] \in {"changing", "repeating"} /\ pty' = want[k]
      /\ UNCHANGED <<build, recent, want, historyVars>>
      /\ recent' = recent /\ screen' = screen /\ sizing' = sizing
      /\ want' = want /\ build' = build
      /\ unsettled' = unsettled /\ overlapped' = overlapped
  BY DEF SetSize, historyVars
<1>2. PICK p : /\ pc' = [pc EXCEPT ![k] = p]
               /\ \/ p = "syncing" /\ pc[k] = "changing"
                  \/ p = Rest(k, recent) /\ pc[k] = "repeating"
  <2>1. CASE pc[k] = "changing"
    BY <2>1 DEF SetSize, IInv, TypesInv
  <2>2. CASE pc[k] = "repeating"
    BY <2>2 DEF SetSize, IInv, TypesInv
  <2>. QED
    BY <1>1, <2>1, <2>2
<1>3. Rest(k, recent) \in {"idle", "gone"}
  BY DEF Rest
<1>4. p \in {Rest(k, recent)} \cup Applying
  BY <1>2 DEF Applying
<1>5. /\ ListInv'
      /\ pc' \in [Conns -> {"new", "idle", "failed", "gone"} \cup Applying]
      /\ \A j \in Conns \ {k} : pc'[j] = pc[j]
      /\ pc'[k] = p
  BY <1>1, <1>2, <1>4, ResizeKeepsList DEF historyVars
<1>6. TypesInv'
  <2>1. want[k] \in Sizes
    BY DEF IInv, TypesInv
  <2>. QED
    BY <1>1, <1>5, <2>1 DEF IInv, TypesInv, historyVars
<1>7. p \in Applying => p = "syncing"
  BY <1>2, <1>3 DEF Applying
<1>8. SizeInv'
  <2> SUFFICES ASSUME ~unsettled PROVE SizeInv'
    BY <1>1 DEF SizeInv
  <2>1. /\ \A j \in Conns : pc[j] \in Applying => j = k
        /\ recent # <<>> => want[k] = Last(recent).size
    BY <1>1 DEF IInv, SizeInv, OneApplies, Applying
  <2>2. \A j \in Conns : pc'[j] \in Applying => j = k
    BY <1>5, <2>1
  <2>3. SizeOfLastUsed'
    BY <1>1, <2>1 DEF SizeOfLastUsed
  <2>4. \A j \in Conns :
          /\ pc'[j] \in Applying /\ recent' # <<>> => want'[j] = Last(recent').size
          /\ pc'[j] \in {"repeating", "syncing"} => pty' = want'[j]
    BY <1>1, <1>5, <1>7, <2>1, <2>2 DEF Applying
  <2>. QED
    BY <2>2, <2>3, <2>4 DEF SizeInv, OneApplies
<1>9. ScreenInv'
  <2> SUFFICES ASSUME ~overlapped PROVE ScreenInv'
    BY <1>1 DEF ScreenInv
  <2>1. /\ \A j \in Conns : pc[j] \in Applying => j = k
        /\ pc[k] = "repeating" => pty = want[k]
    BY <1>1 DEF IInv, ScreenInv, OneApplies, Applying
  <2>2. \A j \in Conns : pc'[j] \in Applying => j = k
    BY <1>5, <2>1
  <2>3. ScreenInSync
    <3>1. \A j \in Conns : pc[j] # "syncing"
      BY <1>1, <2>1 DEF Applying
    <3>. QED
      BY <3>1 DEF IInv, ScreenInv
  <2>4. p # "syncing" => ScreenInSync'
    BY <1>1, <1>2, <2>1, <2>3 DEF ScreenInSync
  <2>5. (\A j \in Conns : pc'[j] # "syncing") => ScreenInSync'
    BY <1>5, <2>4
  <2>6. \A j \in Conns : pc'[j] \in {"repeating", "syncing"} => pty' = want'[j]
    BY <1>1, <1>5, <1>7, <2>2 DEF Applying
  <2>. QED
    BY <2>2, <2>5, <2>6 DEF ScreenInv, OneApplies
<1>10. MutexInv'
  <2> SUFFICES ASSUME build = "windows" PROVE MutexInv'
    BY <1>1 DEF MutexInv
  <2>1. pc[k] = "changing" /\ p = "syncing"
    BY <1>1, <1>2 DEF IInv, MutexInv
  <2>2. k \in sizing /\ \A j \in Conns : pc[j] = "syncing" => j = k
    BY <2>1 DEF IInv, MutexInv
  <2>3. \A j \in Conns : /\ j \in sizing' <=> pc'[j] \in {"changing", "syncing"}
                         /\ pc'[j] # "repeating"
                         /\ pc'[j] = "syncing" => pty' = want'[j]
    BY <1>1, <1>5, <2>1, <2>2 DEF IInv, MutexInv
  <2>4. \A i, j \in sizing' : i = j
    BY <1>1 DEF IInv, MutexInv
  <2>. QED
    BY <1>5, <2>1, <2>3, <2>4 DEF MutexInv
<1>. QED
  BY <1>5, <1>6, <1>8, <1>9, <1>10 DEF IInv

\* What cannot be applied leaves the sizes as they are.
LEMMA SetSizeFailsKeeps ==
    ASSUME IInv, NEW k \in Conns, SetSizeFails(k)
    PROVE  IInv'
<1> DEFINE p == IF PlacesOf(recent, k) = {} THEN "gone" ELSE "failed"
<1>1. /\ pc[k] \in {"changing", "repeating"} /\ sizing' = sizing \ {k} /\ unsettled' = TRUE
      /\ pc' = [pc EXCEPT ![k] = p]
      /\ UNCHANGED <<build, recent, want, told, used, events>>
      /\ recent' = recent /\ pty' = pty /\ screen' = screen /\ want' = want
      /\ build' = build /\ overlapped' = overlapped
  BY DEF SetSizeFails
<1>2. /\ p \in {"gone", "failed"}
      /\ p \in {Rest(k, recent)} \cup Applying \cup
               (IF PlacesOf(recent, k) # {} THEN {"failed"} ELSE {})
  BY DEF Rest
<1> HIDE DEF p
<1>3. /\ ListInv'
      /\ pc' \in [Conns -> {"new", "idle", "failed", "gone"} \cup Applying]
      /\ \A j \in Conns \ {k} : pc'[j] = pc[j]
      /\ pc'[k] = p
  BY <1>1, <1>2, ResizeKeepsList
<1>4. TypesInv'
  BY <1>1, <1>3 DEF IInv, TypesInv
<1>5. SizeInv'
  BY <1>1 DEF SizeInv
<1>6. \A j \in Conns : pc'[j] \in Applying => pc'[j] = pc[j]
  BY <1>2, <1>3 DEF Applying
<1>7. ScreenInv'
  <2> SUFFICES ASSUME ~overlapped PROVE ScreenInv'
    BY <1>1 DEF ScreenInv
  <2>1. OneApplies'
    BY <1>6 DEF IInv, ScreenInv, OneApplies
  <2>2. ScreenInSync'
    <3>1. \A j \in Conns : pc[j] # "syncing"
      BY <1>1 DEF IInv, ScreenInv, OneApplies, Applying
    <3>. QED
      BY <1>1, <3>1 DEF IInv, ScreenInv, ScreenInSync
  <2>3. \A j \in Conns : pc'[j] \in {"repeating", "syncing"} => pty' = want'[j]
    BY <1>1, <1>6 DEF IInv, ScreenInv, Applying
  <2>. QED
    BY <2>1, <2>2, <2>3 DEF ScreenInv
<1>8. MutexInv'
  <2> SUFFICES ASSUME build = "windows" PROVE MutexInv'
    BY <1>1 DEF MutexInv
  <2>1. /\ pc[k] = "changing" /\ k \in sizing /\ \A j \in sizing : j = k
        /\ \A j \in Conns : /\ j \in sizing <=> pc[j] \in {"changing", "syncing"}
                            /\ pc[j] # "repeating"
    BY <1>1 DEF IInv, MutexInv
  <2>2. sizing' = {} /\ \A j \in Conns : pc'[j] \notin {"changing", "syncing", "repeating"}
    BY <1>1, <1>2, <1>3, <2>1
  <2>3. ScreenInSync'
    <3>1. \A j \in Conns : pc[j] # "syncing"
      BY <2>1
    <3>. QED
      BY <1>1, <3>1 DEF IInv, MutexInv, ScreenInSync
  <2>. QED
    BY <2>2, <2>3 DEF MutexInv
<1>. QED
  BY <1>3, <1>4, <1>5, <1>7, <1>8 DEF IInv

LEMMA SyncScreenKeeps ==
    ASSUME IInv, NEW k \in Conns, SyncScreen(k)
    PROVE  IInv'
<1> DEFINE p == Rest(k, recent)
<1>1. /\ pc[k] = "syncing" /\ screen' = want[k] /\ sizing' = {}
      /\ pc' = [pc EXCEPT ![k] = p]
      /\ UNCHANGED <<build, recent, want, historyVars>>
      /\ recent' = recent /\ pty' = pty
      /\ want' = want /\ build' = build
      /\ unsettled' = unsettled /\ overlapped' = overlapped
  BY DEF SyncScreen, historyVars
<1>2. p \in {"idle", "gone"} /\ p \in {Rest(k, recent)} \cup Applying
  BY DEF Rest
<1> HIDE DEF p
<1>3. /\ ListInv'
      /\ pc' \in [Conns -> {"new", "idle", "failed", "gone"} \cup Applying]
      /\ \A j \in Conns \ {k} : pc'[j] = pc[j]
      /\ pc'[k] = p
  BY <1>1, <1>2, ResizeKeepsList DEF historyVars
<1>4. TypesInv'
  <2>1. want[k] \in Sizes
    BY DEF IInv, TypesInv
  <2>. QED
    BY <1>1, <1>3, <2>1 DEF IInv, TypesInv, historyVars
<1>5. SizeInv'
  <2> SUFFICES ASSUME ~unsettled PROVE SizeInv'
    BY <1>1 DEF SizeInv
  <2>1. /\ \A j \in Conns : pc[j] \in Applying => j = k
        /\ recent # <<>> => want[k] = Last(recent).size
        /\ pty = want[k]
    BY <1>1 DEF IInv, SizeInv, OneApplies, Applying
  <2>2. \A j \in Conns : pc'[j] \notin Applying
    BY <1>2, <1>3, <2>1 DEF Applying
  <2>3. SizeOfLastUsed'
    BY <1>1, <2>1 DEF SizeOfLastUsed
  <2>. QED
    BY <2>2, <2>3 DEF SizeInv, OneApplies, Applying
<1>6. ScreenInv'
  <2> SUFFICES ASSUME ~overlapped PROVE ScreenInv'
    BY <1>1 DEF ScreenInv
  <2>1. pty = want[k] /\ \A j \in Conns : pc[j] \in Applying => j = k
    BY <1>1 DEF IInv, ScreenInv, OneApplies, Applying
  <2>2. \A j \in Conns : pc'[j] \notin Applying
    BY <1>2, <1>3, <2>1 DEF Applying
  <2>3. ScreenInSync'
    BY <1>1, <2>1 DEF ScreenInSync
  <2>. QED
    BY <2>2, <2>3 DEF ScreenInv, OneApplies, Applying
<1>7. MutexInv'
  <2> SUFFICES ASSUME build = "windows" PROVE MutexInv'
    BY <1>1 DEF MutexInv
  <2>1. /\ \A j \in Conns : pc[j] \in {"changing", "syncing"} => j = k
        /\ \A j \in Conns : pc[j] # "repeating"
        /\ pty = want[k]
    BY <1>1 DEF IInv, MutexInv
  <2>2. \A j \in Conns : pc'[j] \notin {"changing", "syncing", "repeating"}
    BY <1>2, <1>3, <2>1
  <2>3. ScreenInSync'
    BY <1>1, <2>1 DEF ScreenInSync
  <2>. QED
    BY <1>1, <2>2, <2>3 DEF MutexInv
<1>. QED
  BY <1>3, <1>4, <1>5, <1>6, <1>7 DEF IInv

LEMMA InvNext == IInv /\ [Next]_vars => IInv'
<1> SUFFICES ASSUME IInv, [Next]_vars PROVE IInv'
  OBVIOUS
<1>1. ASSUME NEW k \in Conns, NEW s \in Sizes, Attach(k, s) \/ Resize(k, s) PROVE IInv'
  BY <1>1, FramesKeep
<1>2. ASSUME NEW k \in Conns, Input(k) \/ Leave(k) PROVE IInv'
  BY <1>2, FramesKeep, ViewersAssumption
<1>3. ASSUME NEW k \in Conns, Measure(k) PROVE IInv'
  BY <1>3, MeasureKeeps
<1>4. ASSUME NEW k \in Conns, SetSize(k) PROVE IInv'
  BY <1>4, SetSizeKeeps
<1>5. ASSUME NEW k \in Conns, SyncScreen(k) PROVE IInv'
  BY <1>5, SyncScreenKeeps
<1>6. ASSUME NEW k \in Conns, SetSizeFails(k) PROVE IInv'
  BY <1>6, SetSizeFailsKeeps
<1>7. CASE UNCHANGED vars
  BY <1>7 DEF IInv, TypesInv, ListInv, SizeInv, ScreenInv, OneApplies, MutexInv, Quiet,
              SizeOfLastUsed, ScreenInSync, vars, threadVars, historyVars
<1>. QED
  BY <1>1, <1>2, <1>3, <1>4, <1>5, <1>6, <1>7 DEF Next

LEMMA Invariance == Spec => []IInv
BY InvInit, InvNext, PTL DEF Spec

-----------------------------------------------------------------------------
\* Types, and that the list of clients is no longer than there are clients: a
\* client is in it once, because two entries of one client would have been
\* used at two different times (Viewers).
THEOREM ViewersTypes == Spec => []TypeOK
<1>1. IInv => TypeOK
  <2> SUFFICES ASSUME IInv PROVE TypeOK
    OBVIOUS
  <2>1. recent \in Seq(Entry) /\ Distinct(recent)
    BY OrderedIsDistinct DEF IInv, TypesInv, ListInv
  <2>2. Len(recent) <= Cardinality(Conns)
    BY <2>1, DistinctIsShort
  <2>. QED
    BY <2>2 DEF IInv, TypesInv, TypeOK
<1>. QED
  BY <1>1, Invariance, PTL

\* The list is in the order of last use, with the sizes last reported, and has
\* every client that waits for a frame: for any number of clients and any
\* sequence of their frames (Viewers::attached, typed, resized, left).
THEOREM ListByUse == Spec => []RecentByUse
<1>1. IInv => RecentByUse
  <2> SUFFICES ASSUME IInv PROVE RecentByUse
    OBVIOUS
  <2>1. DOMAIN recent = 1..Len(recent)
    BY DEF IInv, TypesInv
  <2>. QED
    BY <2>1 DEF IInv, ListInv, Ordered, RecentByUse
<1>. QED
  BY <1>1, Invariance, PTL

\* Once sizes have been applied, the session has that of the client in use if the
\* last one was decided on alone and did not fail, whatever went wrong before,
\* and the screen that of the PTY if nothing ever overlapped, on either build, for
\* any number of clients (`resize`).
THEOREM SizeIsRight == Spec => []RightUnlessOverlapped
<1>1. IInv => RightUnlessOverlapped
  BY DEF IInv, SizeInv, ScreenInv, RightUnlessOverlapped, Quiet, Applying
<1>. QED
  BY <1>1, Invariance, PTL

\* On Windows the size mutex keeps the screen with the PTY even when sizes are
\* decided on while others are applied (windows.rs, resize).
THEOREM ScreenKeepsUp == Spec => []ScreenFollows
<1>1. IInv => ScreenFollows
  BY DEF IInv, MutexInv, ScreenFollows, Quiet, Applying
<1>. QED
  BY <1>1, Invariance, PTL
=============================================================================
