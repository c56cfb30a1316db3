---------------------------- MODULE SessionProofs ----------------------------
(***************************************************************************)
(* Session.tla, for every value of its constants: whatever the threads of  *)
(* the masters, the connections and the terminals do, a terminal shows one *)
(* picture and exactly the bytes that follow it (TerminalExact, from       *)
(* IInv). And it keeps the promise of TerminalStream.tla: a terminal       *)
(* only moves forward, by repaints and by exactly the bytes that come      *)
(* next, and no client of the broadcast has missed anything. Those two     *)
(* rest on PromiseInv (SessionInvariant.tla).                              *)
(***************************************************************************)
EXTENDS SessionInvariant, SequenceTheorems, TLAPS

-----------------------------------------------------------------------------
\* Sequences of frames: what is left of one that fits still does.
LEMMA FittingPrefix ==
    ASSUME NEW v, NEW a \in Seq(Frame), NEW b \in Seq(Frame),
           Fitting(v, a \o b)
    PROVE  Fitting(v, a)
<1> DEFINE s == a \o b
<1>1. /\ Len(s) = Len(a) + Len(b)
      /\ Len(a) \in Nat /\ Len(b) \in Nat
      /\ \A i \in 1..Len(a) + Len(b) :
           s[i] = IF i <= Len(a) THEN a[i] ELSE b[i - Len(a)]
  BY ConcatProperties, LenProperties
<1>2. \A i \in 1..Len(a) : i \in 1..Len(s) /\ s[i] = a[i]
  <2> HIDE DEF s
  <2> QED  BY <1>1
<1>3. a # <<>> => 1 \in 1..Len(a)
  BY <1>1, EmptySeq
<1>4. a # <<>> => s # <<>>
  BY <1>2, <1>3
<1>5. Fitting(v, s)
  OBVIOUS
<1> HIDE DEF s
<1> QED  BY <1>2, <1>3, <1>4, <1>5 DEF Fitting

\* A frame that is due keeps a sequence fitting, and says what is due next.
LEMMA FittingAppend ==
    ASSUME NEW v, NEW s \in Seq(Frame), NEW f \in Frame,
           Fitting(v, s), Spans(f),
           Continues(v, s, f.epoch, f.kind, f.from),
           v.mode = "plain" => f.kind = "output"
    PROVE  /\ Fitting(v, Append(s, f))
           /\ \A kind \in After(f.kind) :
                Continues(v, Append(s, f), f.epoch, kind, f.to)
<1> DEFINE r == Append(s, f)
<1>1. /\ r # <<>> /\ Len(r) = Len(s) + 1 /\ Len(s) \in Nat
      /\ \A i \in 1..Len(s) : r[i] = s[i]
      /\ r[Len(s) + 1] = f
  BY AppendProperties, LenProperties
<1>2. s # <<>> => Len(s) >= 1
  BY <1>1, EmptySeq
<1> HIDE DEF r
<1>3. ASSUME NEW i \in 1..Len(r), i # Len(s) + 1 PROVE i \in 1..Len(s)
  BY <1>1, <1>3
<1>4. \A i \in 1..Len(r) : Spans(r[i])
  BY <1>1, <1>3 DEF Fitting
<1>5. ASSUME NEW i \in 1..Len(r), NEW j \in 1..Len(r), j = i + 1
      PROVE  Follows(r[i], r[j])
  <2>1. i \in 1..Len(s)
    BY <1>1, <1>5
  <2>2. CASE j \in 1..Len(s)
    BY <1>1, <1>5, <2>1, <2>2 DEF Fitting
  <2>3. CASE j = Len(s) + 1
    <3>1. i = Len(s) /\ s # <<>>
      BY <1>1, <1>5, <2>1, <2>3
    <3> QED  BY <1>1, <2>1, <2>3, <3>1 DEF Continues, Follows
  <2> QED  BY <1>3, <2>2, <2>3
<1>6. r[1].kind \in Ready(v) /\ Reaches(v, r[1].epoch, r[1].from)
  <2>1. CASE s = <<>>
    <3>1. r[1] = f
      BY <1>1, <2>1
    <3> QED  BY <2>1, <3>1 DEF Continues
  <2>2. CASE s # <<>>
    <3>1. r[1] = s[1]
      BY <1>1, <1>2, <2>2
    <3> QED  BY <2>2, <3>1 DEF Fitting
  <2> QED  BY <2>1, <2>2
<1>7. v.mode = "plain" => \A i \in 1..Len(r) : r[i].kind = "output"
  BY <1>1, <1>3 DEF Fitting
<1>8. Fitting(v, r)
  BY <1>4, <1>5, <1>6, <1>7 DEF Fitting
<1>9. \A kind \in After(f.kind) : Continues(v, r, f.epoch, kind, f.to)
  BY <1>1 DEF Continues
<1> QED  BY <1>8, <1>9 DEF r

-----------------------------------------------------------------------------
\* The three places a frame can be on its way, and the moves between them: into
\* the queue, to the writer thread, to the socket, and to the terminal.
LEMMA QueueMove ==
    ASSUME NEW S, NEW a \in Seq(S), NEW w \in Seq(S), NEW q \in Seq(S),
           NEW f \in S
    PROVE  (a \o w) \o Append(q, f) = Append((a \o w) \o q, f)
<1>1. /\ a \o w \in Seq(S) /\ (a \o w) \o q \in Seq(S) /\ <<f>> \in Seq(S)
  BY ConcatProperties
<1>2. Append(q, f) = q \o <<f>>
  BY AppendIsConcat
<1>3. Append((a \o w) \o q, f) = ((a \o w) \o q) \o <<f>>
  BY <1>1, AppendIsConcat
<1> QED  BY <1>1, <1>2, <1>3, ConcatAssociative

LEMMA HeadAndTail ==
    ASSUME NEW S, NEW q \in Seq(S), q # <<>>
    PROVE  /\ <<Head(q)>> \in Seq(S) /\ Tail(q) \in Seq(S)
           /\ <<Head(q)>> \o Tail(q) = q
<1>1. /\ Head(q) \in S /\ Tail(q) \in Seq(S)
      /\ Len(Tail(q)) = Len(q) - 1
      /\ \A i \in 1..Len(Tail(q)) : Tail(q)[i] = q[i + 1]
  BY HeadTailProperties
<1>2. <<Head(q)>> \in Seq(S) /\ Len(<<Head(q)>>) = 1
  BY <1>1
<1> DEFINE h == <<Head(q)>>
           r == h \o Tail(q)
<1>3. /\ r \in Seq(S)
      /\ Len(r) = 1 + Len(Tail(q))
      /\ \A i \in 1 .. 1 + Len(Tail(q)) :
           r[i] = IF i <= 1 THEN h[i] ELSE Tail(q)[i - 1]
  BY <1>1, <1>2, ConcatProperties
<1>4. Len(q) \in Nat /\ Len(q) >= 1
  BY LenProperties, EmptySeq
<1>5. h[1] = q[1]
  BY <1>1
<1> HIDE DEF r, h
<1>6. ASSUME NEW i \in 1..Len(r) PROVE r[i] = q[i]
  <2>1. CASE i = 1
    BY <1>1, <1>3, <1>4, <1>5, <2>1
  <2>2. CASE i # 1
    <3>1. i - 1 \in 1..Len(Tail(q)) /\ i - 1 + 1 = i /\ ~(i <= 1)
      BY <1>1, <1>3, <1>4, <2>2
    <3> QED  BY <1>1, <1>3, <3>1
  <2> QED  BY <2>1, <2>2
<1>7. r = q
  BY <1>1, <1>3, <1>4, <1>6, SeqEqual
<1> QED  BY <1>1, <1>2, <1>7 DEF r, h

LEMMA PopMove ==
    ASSUME NEW S, NEW a \in Seq(S), NEW q \in Seq(S), q # <<>>
    PROVE  (a \o <<Head(q)>>) \o Tail(q) = (a \o <<>>) \o q
<1>1. a \o <<>> = a
  BY ConcatEmptySeq
<1> QED  BY <1>1, HeadAndTail, ConcatAssociative

LEMMA WriteMove ==
    ASSUME NEW S, NEW a \in Seq(S), NEW w \in Seq(S), NEW q \in Seq(S)
    PROVE  ((a \o w) \o <<>>) \o q = (a \o w) \o q
<1>1. a \o w \in Seq(S)
  BY ConcatProperties
<1> QED  BY <1>1, ConcatEmptySeq

LEMMA ReadMove ==
    ASSUME NEW S, NEW a \in Seq(S), NEW w \in Seq(S), NEW q \in Seq(S),
           a # <<>>
    PROVE  (a \o w) \o q = <<Head(a)>> \o ((Tail(a) \o w) \o q)
<1>1. /\ <<Head(a)>> \in Seq(S) /\ Tail(a) \in Seq(S)
      /\ <<Head(a)>> \o Tail(a) = a
  BY HeadAndTail
<1>2. Tail(a) \o w \in Seq(S)
  BY <1>1, ConcatProperties
<1>3. a \o w = <<Head(a)>> \o (Tail(a) \o w)
  BY <1>1, ConcatAssociative
<1> QED  BY <1>1, <1>2, <1>3, ConcatAssociative

-----------------------------------------------------------------------------
\* The frame at the front of a sequence that fits.
LEMMA FrontOfFitting ==
    ASSUME NEW v, NEW f \in Frame, NEW r \in Seq(Frame),
           Fitting(v, <<f>> \o r)
    PROVE  /\ Spans(f)
           /\ f.kind \in Ready(v)
           /\ Reaches(v, f.epoch, f.from)
           /\ v.mode = "plain" => f.kind = "output"
           /\ r # <<>> => Follows(f, r[1])
           /\ \A i \in 1..Len(r) : Spans(r[i])
           /\ \A i, j \in 1..Len(r) : j = i + 1 => Follows(r[i], r[j])
           /\ v.mode = "plain" => \A i \in 1..Len(r) : r[i].kind = "output"
           /\ r # <<>> => (<<f>> \o r)[Len(<<f>> \o r)] = r[Len(r)]
           /\ r = <<>> => (<<f>> \o r)[Len(<<f>> \o r)] = f
           /\ <<f>> \o r # <<>>
<1> DEFINE s == <<f>> \o r
           h == <<f>>
<1>1. h \in Seq(Frame) /\ Len(h) = 1 /\ h[1] = f
  OBVIOUS
<1>2. /\ Len(s) = 1 + Len(r) /\ Len(r) \in Nat
      /\ \A i \in 1 .. 1 + Len(r) :
           s[i] = IF i <= 1 THEN h[i] ELSE r[i - 1]
      /\ s \in Seq(Frame)
  <2>1. /\ Len(s) = Len(h) + Len(r) /\ Len(r) \in Nat
        /\ \A i \in 1 .. Len(h) + Len(r) :
             s[i] = IF i <= Len(h) THEN h[i] ELSE r[i - Len(h)]
        /\ s \in Seq(Frame)
    BY <1>1, ConcatProperties, LenProperties
  <2> HIDE DEF s, h
  <2> QED  BY <1>1, <2>1
<1>3. r # <<>> <=> Len(r) >= 1
  BY <1>2, EmptySeq
<1>4. Fitting(v, s)
  OBVIOUS
<1> HIDE DEF s, h
<1>5. s[1] = f
  BY <1>1, <1>2
<1>6. \A i \in 1..Len(r) : i + 1 \in 1..Len(s) /\ s[i + 1] = r[i]
  <2> TAKE i \in 1..Len(r)
  <2>1. i + 1 \in 1 .. 1 + Len(r) /\ ~(i + 1 <= 1) /\ i + 1 - 1 = i
    BY <1>2
  <2> QED  BY <1>2, <2>1
<1>7. s # <<>> /\ 1 \in 1..Len(s)
  BY <1>2, EmptySeq
<1>8. /\ Spans(f)
      /\ f.kind \in Ready(v)
      /\ Reaches(v, f.epoch, f.from)
      /\ v.mode = "plain" => f.kind = "output"
  BY <1>4, <1>5, <1>7 DEF Fitting
<1>9. r # <<>> => Follows(f, r[1])
  <2> HAVE r # <<>>
  <2>1. 1 \in 1..Len(r) /\ 1 + 1 \in 1..Len(s) /\ s[1 + 1] = r[1]
    BY <1>2, <1>3, <1>6
  <2> QED  BY <1>4, <1>5, <1>7, <2>1 DEF Fitting
<1>10. \A i \in 1..Len(r) : Spans(r[i])
  BY <1>4, <1>6 DEF Fitting
<1>11. \A i, j \in 1..Len(r) : j = i + 1 => Follows(r[i], r[j])
  <2> TAKE i, j \in 1..Len(r)
  <2> HAVE j = i + 1
  <2>1. j + 1 = (i + 1) + 1
    OBVIOUS
  <2>2. /\ i + 1 \in 1..Len(s) /\ s[i + 1] = r[i]
        /\ j + 1 \in 1..Len(s) /\ s[j + 1] = r[j]
    BY <1>6
  <2> QED  BY <1>4, <2>1, <2>2 DEF Fitting
<1>12. v.mode = "plain" => \A i \in 1..Len(r) : r[i].kind = "output"
  BY <1>4, <1>6 DEF Fitting
<1>13. r # <<>> => s[Len(s)] = r[Len(r)]
  <2> HAVE r # <<>>
  <2>1. Len(r) \in 1..Len(r) /\ Len(s) = Len(r) + 1
    BY <1>2, <1>3
  <2> QED  BY <1>6, <2>1
<1>14. r = <<>> => s[Len(s)] = f
  BY <1>2, <1>3, <1>5
<1> QED  BY <1>7, <1>8, <1>9, <1>10, <1>11, <1>12, <1>13, <1>14 DEF s

\* Once the terminal has taken the frame at the front and is ready for what may
\* follow it, the rest fits, and continues where it did.
LEMMA FittingTail ==
    ASSUME NEW v, NEW u, NEW f \in Frame, NEW r \in Seq(Frame),
           Fitting(v, <<f>> \o r),
           u.mode = v.mode,
           Reaches(u, f.epoch, f.to),
           \A kind \in After(f.kind) :
             (v.mode = "plain" => kind = "output") => kind \in Ready(u)
    PROVE  /\ Fitting(u, r)
           /\ \A e, kind, x :
                /\ v.mode = "plain" => kind = "output"
                /\ Continues(v, <<f>> \o r, e, kind, x)
                => Continues(u, r, e, kind, x)
<1>1. r # <<>> => r[1].kind \in Ready(u) /\ Reaches(u, r[1].epoch, r[1].from)
  <2> HAVE r # <<>>
  <2>1. Follows(f, r[1])
    BY FrontOfFitting
  <2>2. v.mode = "plain" => r[1].kind = "output"
    <3>1. 1 \in 1..Len(r)
      BY EmptySeq
    <3> QED  BY <3>1, FrontOfFitting
  <2> QED  BY <2>1, <2>2 DEF Follows
<1>2. Fitting(u, r)
  <2>1. /\ \A i \in 1..Len(r) : Spans(r[i])
        /\ \A i, j \in 1..Len(r) : j = i + 1 => Follows(r[i], r[j])
        /\ u.mode = "plain" => \A i \in 1..Len(r) : r[i].kind = "output"
    <3>1. \A i \in 1..Len(r) : Spans(r[i])
      BY FrontOfFitting
    <3>2. \A i, j \in 1..Len(r) : j = i + 1 => Follows(r[i], r[j])
      BY FrontOfFitting
    <3>3. v.mode = "plain" => \A i \in 1..Len(r) : r[i].kind = "output"
      BY FrontOfFitting
    <3> QED  BY <3>1, <3>2, <3>3
  <2> QED  BY <1>1, <2>1 DEF Fitting
<1>3. ASSUME NEW e, NEW kind, NEW x, v.mode = "plain" => kind = "output",
             Continues(v, <<f>> \o r, e, kind, x)
      PROVE  Continues(u, r, e, kind, x)
  <2> DEFINE last == (<<f>> \o r)[Len(<<f>> \o r)]
  <2>1. kind \in After(last.kind) /\ last.epoch = e /\ last.to = x
    BY <1>3, FrontOfFitting DEF Continues
  <2>2. CASE r = <<>>
    <3>1. last = f
      BY <2>2, FrontOfFitting
    <3> HIDE DEF last
    <3> QED  BY <1>3, <2>1, <2>2, <3>1 DEF Continues
  <2>3. CASE r # <<>>
    <3>1. last = r[Len(r)]
      BY <2>3, FrontOfFitting
    <3> HIDE DEF last
    <3> QED  BY <2>1, <2>3, <3>1 DEF Continues
  <2> QED  BY <2>2, <2>3
<1> QED  BY <1>2, <1>3

-----------------------------------------------------------------------------
\* What a terminal does with the next frame.
Views == [live : BOOLEAN, base : Nat \cup {None}, bytes : Seq(Byte),
          mark : Position \cup {None}, mode : {"plain", "resume", "replay"}]

Prepared(v, u, f) ==
    /\ Received(u)
    /\ Reaches(u, f.epoch, f.to)
    /\ \A kind \in After(f.kind) :
         (v.mode = "plain" => kind = "output") => kind \in Ready(u)

LEMMA FrameFields ==
    ASSUME NEW f \in Frame
    PROVE  /\ f.kind \in {"output", "snapshot", "replayDone", "resumeDone"}
           /\ f.epoch \in Epochs /\ f.from \in Nat /\ f.to \in Nat
           /\ f.size \in Nat
BY DEF Frame

LEMMA BytesOfFrame ==
    ASSUME NEW f \in Frame, Spans(f)
    PROVE  /\ BytesOf(f) \in Seq(Byte)
           /\ Len(BytesOf(f)) = f.to - f.from
           /\ \A i \in 1 .. f.to - f.from :
                BytesOf(f)[i] = <<f.epoch, f.from + i>>
<1> DEFINE n == f.to - f.from
<1>1. n \in Nat
  BY FrameFields DEF Spans
<1>2. \A i \in 1..n : <<f.epoch, f.from + i>> \in Byte
  BY <1>1, FrameFields DEF Byte
<1>3. BytesOf(f) = [i \in 1..n |-> <<f.epoch, f.from + i>>]
  BY DEF BytesOf
<1> HIDE DEF n
<1>4. /\ BytesOf(f) \in Seq(Byte)
      /\ Len(BytesOf(f)) = n
      /\ \A i \in 1..n : BytesOf(f)[i] = <<f.epoch, f.from + i>>
  BY <1>1, <1>2, <1>3
<1> QED  BY <1>4 DEF n

LEMMA TakeSnapshot ==
    ASSUME NEW v \in Views, NEW u \in Views, NEW f \in Frame, Received(v),
           Spans(f), f.kind \in Ready(v), Reaches(v, f.epoch, f.from),
           f.kind = "snapshot",
           u = [v EXCEPT !.base = f.from]
    PROVE  Prepared(v, u, f)
<1>1. /\ u.live = v.live /\ u.base = f.from /\ u.bytes = v.bytes
      /\ u.mark = v.mark /\ u.mode = v.mode
  BY DEF Views
<1>2. ~v.live /\ (v.base # None \/ v.mode = "replay") /\ v.bytes = <<>>
  BY DEF Ready, Received
<1>3. u.base # None
  BY <1>1, FrameFields, NoneAssumption
<1>4. Received(u)
  BY <1>1, <1>2 DEF Received
<1>5. Reaches(u, f.epoch, f.to)
  <2>1. f.to = f.from
    BY DEF Spans
  <2> QED  BY <1>1, <2>1 DEF Reaches
<1> QED  BY <1>1, <1>2, <1>3, <1>4, <1>5 DEF Prepared, Ready, After

LEMMA TakeMarker ==
    ASSUME NEW v \in Views, NEW u \in Views, NEW f \in Frame, Spans(f),
           f.kind \in {"replayDone", "resumeDone"},
           u.live = TRUE, u.base = None, u.bytes = <<>>,
           u.mark = [epoch |-> f.epoch, offset |-> f.from]
    PROVE  Prepared(v, u, f)
<1>1. f.to = f.from
  BY DEF Spans
<1>2. u.mark \in Position /\ u.mark # None
  BY FrameFields, NoneAssumption DEF Position
<1>3. Len(u.bytes) = 0
  OBVIOUS
<1>4. Received(u)
  BY <1>2, <1>3 DEF Received
<1>5. Reaches(u, f.epoch, f.to)
  BY <1>1, NoneAssumption DEF Reaches
<1> QED  BY <1>4, <1>5 DEF Prepared, Ready, After

LEMMA TakeOutputLive ==
    ASSUME NEW v \in Views, NEW u \in Views, NEW f \in Frame, Received(v),
           Spans(f), Reaches(v, f.epoch, f.from),
           f.kind = "output", v.live,
           u = [v EXCEPT !.mark = [epoch |-> v.mark.epoch,
                                   offset |-> v.mark.offset + (f.to - f.from)]]
    PROVE  Prepared(v, u, f)
<1> DEFINE m == [epoch |-> v.mark.epoch,
                 offset |-> v.mark.offset + (f.to - f.from)]
<1>1. /\ u.live = v.live /\ u.base = v.base /\ u.bytes = v.bytes
      /\ u.mark = m /\ u.mode = v.mode
  BY DEF Views
<1>2. /\ v.mark # None /\ v.base = None /\ v.bytes = <<>>
      /\ v.mark \in Position
  BY DEF Received, Views
<1>3. v.mark.epoch = f.epoch /\ v.mark.offset = f.from
  BY DEF Reaches
<1>4. m.epoch = f.epoch /\ m.offset = f.to
  BY <1>3, FrameFields
<1>5. m # None
  <2>1. m \in Position
    <3>1. f.epoch \in Epochs /\ f.to \in Nat /\ m = [epoch |-> f.epoch, offset |-> f.to]
      BY <1>3, FrameFields
    <3> QED  BY <3>1 DEF Position
  <2> QED  BY <2>1, NoneAssumption
<1> HIDE DEF m
<1>6. Received(u)
  BY <1>1, <1>2, <1>5 DEF Received
<1>7. Reaches(u, f.epoch, f.to)
  BY <1>1, <1>2, <1>4 DEF Reaches
<1> QED  BY <1>1, <1>6, <1>7 DEF Prepared, Ready, After

LEMMA TakeOutputHeld ==
    ASSUME NEW v \in Views, NEW u \in Views, NEW f \in Frame, Received(v),
           Spans(f), f.kind \in Ready(v), Reaches(v, f.epoch, f.from),
           f.kind = "output", ~v.live,
           u = [v EXCEPT !.bytes = v.bytes \o BytesOf(f)]
    PROVE  Prepared(v, u, f)
<1> DEFINE w == v.bytes \o BytesOf(f)
<1>1. /\ u.live = v.live /\ u.base = v.base /\ u.bytes = w
      /\ u.mark = v.mark /\ u.mode = v.mode
  BY DEF Views
<1>2. v.base = None /\ v.mode # "replay"
  BY DEF Ready
<1> DEFINE n == Len(v.bytes)
           d == f.to - f.from
<1>3. /\ w \in Seq(Byte)
      /\ Len(w) = n + d
      /\ n \in Nat /\ d \in Nat
      /\ \A i \in 1 .. n + d :
           w[i] = IF i <= n THEN v.bytes[i] ELSE BytesOf(f)[i - n]
  <2>1. v.bytes \in Seq(Byte)
    BY DEF Views
  <2>2. d \in Nat
    BY FrameFields DEF Spans
  <2>3. BytesOf(f) \in Seq(Byte) /\ Len(BytesOf(f)) = d
    BY BytesOfFrame
  <2>4. n \in Nat
    BY <2>1, LenProperties
  <2> DEFINE b == v.bytes
             g == BytesOf(f)
  <2>5. b \in Seq(Byte) /\ g \in Seq(Byte) /\ Len(b) = n /\ Len(g) = d
        /\ w = b \o g
    BY <2>1, <2>3
  <2> HIDE DEF b, g, n, d, w
  <2>6. /\ w \in Seq(Byte) /\ Len(w) = n + d
        /\ \A i \in 1 .. n + d : w[i] = IF i <= n THEN b[i] ELSE g[i - n]
    BY <2>5, ConcatProperties
  <2> QED  BY <2>2, <2>4, <2>6 DEF b, g
<1>4. ASSUME v.mode = "resume"
      PROVE  /\ v.mark \in Position /\ v.mark # None
             /\ v.mark.epoch = f.epoch /\ v.mark.offset + n = f.from
             /\ \A i \in 1..n : v.bytes[i] = <<v.mark.epoch, v.mark.offset + i>>
  BY <1>4 DEF Views, Received, Reaches
<1>5. \A i \in 1..d : BytesOf(f)[i] = <<f.epoch, f.from + i>>
  BY BytesOfFrame
<1>6. v.mode = "resume" =>
        \A i \in 1..Len(w) : w[i] = <<v.mark.epoch, v.mark.offset + i>>
  <2> SUFFICES ASSUME v.mode = "resume", NEW i \in 1..Len(w)
               PROVE  w[i] = <<v.mark.epoch, v.mark.offset + i>>
    OBVIOUS
  <2> DEFINE o == v.mark.offset
  <2>0. o \in Nat /\ o + n = f.from /\ i \in 1 .. n + d /\ f.from \in Nat
    BY <1>3, <1>4, FrameFields DEF Position
  <2> HIDE DEF w, n, d, o
  <2>1. CASE i <= n
    <3>1. i \in 1..n /\ w[i] = v.bytes[i]
      BY <1>3, <2>0, <2>1
    <3> QED  BY <1>4, <3>1
  <2>2. CASE ~(i <= n)
    <3>1. i - n \in 1..d /\ w[i] = BytesOf(f)[i - n]
      BY <1>3, <2>0, <2>2
    <3>2. f.from + (i - n) = o + i
      BY <1>3, <2>0
    <3>3. w[i] = <<f.epoch, f.from + (i - n)>>
      BY <1>5, <3>1
    <3> QED  BY <1>4, <3>2, <3>3 DEF o
  <2> QED  BY <2>1, <2>2
<1>7. Received(u)
  <2> HIDE DEF w
  <2> QED  BY <1>1, <1>2, <1>4, <1>6 DEF Received
<1>8. v.mode = "resume" => /\ v.mark.epoch = f.epoch
                          /\ v.mark.offset + Len(w) = f.to
  <2> HAVE v.mode = "resume"
  <2> DEFINE o == v.mark.offset
  <2>1. /\ o \in Nat /\ o + n = f.from /\ d = f.to - f.from
        /\ f.from \in Nat /\ f.to \in Nat
    BY <1>4, FrameFields DEF Position
  <2> HIDE DEF w, n, d, o
  <2>2. o + Len(w) = f.to
    BY <1>3, <2>1
  <2> QED  BY <1>4, <2>2 DEF o
<1>9. Reaches(u, f.epoch, f.to)
  <2> HIDE DEF w
  <2> QED  BY <1>1, <1>2, <1>8 DEF Reaches
<1>10. v.mode \in {"plain", "resume", "replay"}
  BY DEF Views
<1> HIDE DEF w
<1> QED  BY <1>1, <1>2, <1>7, <1>9, <1>10 DEF Prepared, Ready, After

-----------------------------------------------------------------------------
\* Steps that leave the terminals alone. For the connection a terminal reads,
\* one of them keeps what is on its way, cuts it short, or adds what is due.
\* An attach stays unanswered, or there is none any more.
StillAsked(k) ==
    /\ pc[k] # "unused" => pc'[k] # "unused"
    /\ pc'[k] = "handshake" => pc[k] = "handshake" /\ request'[k] = request[k]

Kept(k) ==
    /\ Stream(k)' = Stream(k)
    /\ epoch' = epoch
    /\ Due(k)' \subseteq Due(k)
    /\ StillAsked(k)

Cut(k) ==
    /\ \E rest \in Seq(Frame) : Stream(k) = Stream(k)' \o rest
    /\ Due(k)' = {}
    /\ StillAsked(k)

Sent(k) ==
    /\ \E f \in Frame :
         /\ Spans(f)
         /\ f.epoch = epoch
         /\ mode[k] = "plain" => f.kind = "output"
         /\ <<f.kind, f.from>> \in Due(k)
         /\ Stream(k)' = Append(Stream(k), f)
         /\ f.to <= Total'
         /\ \A d \in Due(k)' : d[1] \in After(f.kind) /\ d[2] = f.to
    /\ epoch' = epoch
    /\ StillAsked(k)

Smooth == \A k \in Conns : Kept(k) \/ Cut(k) \/ Sent(k)

LEMMA StreamTyped ==
    ASSUME TypeOK, NEW k \in Conns
    PROVE  /\ wire[k] \in Seq(Frame) /\ writing[k] \in Seq(Frame)
           /\ queue[k].frames \in Seq(Frame)
           /\ Stream(k) \in Seq(Frame)
<1>1. /\ wire[k] \in Seq(Frame) /\ writing[k] \in Seq(Frame)
      /\ queue[k].frames \in Seq(Frame)
  BY DEF TypeOK
<1>2. wire[k] \o writing[k] \in Seq(Frame)
  BY <1>1, ConcatProperties
<1>3. Stream(k) \in Seq(Frame)
  BY <1>1, <1>2, ConcatProperties DEF Stream
<1> QED  BY <1>1, <1>3

LEMMA ServesKept ==
    ASSUME TypeOK, TypeOK', UNCHANGED termVars,
           NEW t \in Terminals, NEW k \in Conns, Serves(k, t),
           mode'[k] = mode[k],
           Kept(k) \/ Cut(k) \/ Sent(k)
    PROVE  Serves(k, t)'
<1>1. View(t, k)' = View(t, k)
  BY DEF View, termVars
<1>2. StillAsked(k)
  BY DEF Kept, Cut, Sent
<1>3. Unanswered(t, k)' /\ (pc[k] # "unused")'
  BY <1>2 DEF Serves, Unanswered, StillAsked, termVars
<1> DEFINE v == View(t, k)
           s == Stream(k)
           z == Stream(k)'
<1>4. Fitting(v, z) /\ \A d \in Due(k)' : Continues(v, z, epoch', d[1], d[2])
  <2>0. /\ s \in Seq(Frame) /\ Fitting(v, s)
        /\ \A d \in Due(k) : Continues(v, s, epoch, d[1], d[2])
    BY StreamTyped DEF Serves
  <2>1. CASE Kept(k)
    <3>1. z = s /\ epoch' = epoch /\ Due(k)' \subseteq Due(k)
      BY <2>1 DEF Kept
    <3> HIDE DEF v, s, z
    <3> QED  BY <2>0, <3>1
  <2>2. CASE Cut(k)
    <3>1. z \in Seq(Frame)
      <4>1. /\ wire'[k] \in Seq(Frame) /\ writing'[k] \in Seq(Frame)
            /\ queue'[k].frames \in Seq(Frame)
        BY DEF TypeOK
      <4>2. wire'[k] \o writing'[k] \in Seq(Frame)
        BY <4>1, ConcatProperties
      <4> QED  BY <4>1, <4>2, ConcatProperties DEF Stream
    <3>2. PICK rest \in Seq(Frame) : s = z \o rest
      BY <2>2 DEF Cut
    <3>3. Due(k)' = {}
      BY <2>2 DEF Cut
    <3> HIDE DEF v, s, z
    <3> QED  BY <2>0, <3>1, <3>2, <3>3, FittingPrefix
  <2>3. CASE Sent(k)
    <3>1. PICK f \in Frame :
            /\ Spans(f)
            /\ f.epoch = epoch
            /\ mode[k] = "plain" => f.kind = "output"
            /\ <<f.kind, f.from>> \in Due(k)
            /\ z = Append(s, f)
            /\ \A d \in Due(k)' : d[1] \in After(f.kind) /\ d[2] = f.to
      BY <2>3 DEF Sent
    <3>2. epoch' = epoch /\ v.mode = mode[k]
      BY <2>3 DEF Sent, View
    <3> HIDE DEF v, s, z
    <3>3. Continues(v, s, f.epoch, f.kind, f.from)
      <4>1. Continues(v, s, epoch, <<f.kind, f.from>>[1], <<f.kind, f.from>>[2])
        BY <2>0, <3>1
      <4> QED  BY <3>1, <4>1
    <3>4. /\ Fitting(v, Append(s, f))
          /\ \A kind \in After(f.kind) :
               Continues(v, Append(s, f), f.epoch, kind, f.to)
      BY <2>0, <3>1, <3>2, <3>3, FittingAppend
    <3> QED  BY <3>1, <3>2, <3>4
  <2> QED  BY <2>1, <2>2, <2>3
<1> QED  BY <1>1, <1>3, <1>4 DEF Serves

LEMMA TerminalsAlone ==
    ASSUME IInv, UNCHANGED termVars,
           \A t \in Terminals, k \in Conns : link[t] = k => Serves(k, t)'
    PROVE  TerminalInv' /\ OneEach' /\ ScreensInv' /\ TerminalExact'
<1>1. OneEach' /\ ScreensInv'
  BY DEF IInv, OneEach, ScreensInv, termVars
<1>2. TerminalExact'
  BY DEF IInv, TerminalExact, termVars
<1>3. ASSUME NEW t \in Terminals, link'[t] = None
      PROVE  ~live'[t] /\ pending'[t] = NothingPending
  BY <1>3 DEF IInv, TerminalInv, termVars
<1>4. ASSUME NEW t \in Terminals, NEW k \in Conns, link'[t] = k
      PROVE  Serves(k, t)'
  BY <1>4 DEF termVars
<1>5. TerminalInv'
  BY <1>3, <1>4 DEF TerminalInv, NothingPending
<1> QED  BY <1>1, <1>2, <1>5

LEMMA MasterStep ==
    ASSUME IInv, TypeOK', UNCHANGED termVars, mode' = mode,
           Smooth
    PROVE  TerminalInv' /\ OneEach' /\ ScreensInv' /\ TerminalExact'
<1>1. ASSUME NEW t \in Terminals, NEW k \in Conns, link[t] = k
      PROVE  Serves(k, t)'
  <2>1. Serves(k, t) /\ TypeOK
    BY <1>1 DEF IInv, TerminalInv
  <2>2. Kept(k) \/ Cut(k) \/ Sent(k)
    BY DEF Smooth
  <2> QED  BY <2>1, <2>2, ServesKept
<1> QED  BY <1>1, TerminalsAlone

-----------------------------------------------------------------------------
\* The operations of ClientQueue.
Queues == [frames : Seq(Frame), bytes : Nat, closed : BOOLEAN]

LEMMA QueueOps ==
    ASSUME NEW q \in Queues, NEW f \in Frame
    PROVE  /\ Pushed(q, f) \in Queues
           /\ Pushed(q, f).frames = Append(q.frames, f)
           /\ Pushed(q, f).closed = q.closed
           /\ Closed(q) \in Queues
           /\ Closed(q).frames = <<>> /\ Closed(q).closed
           /\ Counted(q, f) \in Queues
           /\ Counted(q, f).frames = q.frames
           /\ Counted(q, f).closed = q.closed
           /\ q.frames # <<>> =>
                /\ Popped(q) \in Queues
                /\ Popped(q).frames = Tail(q.frames)
                /\ Popped(q).closed = q.closed
<1>1. q.frames \in Seq(Frame) /\ q.bytes \in Nat /\ q.closed \in BOOLEAN
  BY DEF Queues
<1>2. f.size \in Nat
  BY FrameFields
<1>3. Append(q.frames, f) \in Seq(Frame)
  BY <1>1, AppendProperties
<1> DEFINE b == q.bytes + f.size
           c == IF q.bytes >= f.size THEN q.bytes - f.size ELSE 0
           a == Append(q.frames, f)
<1>4. b \in Nat /\ c \in Nat
  BY <1>1, <1>2
<1>5. Pushed(q, f) = [q EXCEPT !.frames = a, !.bytes = b]
  BY DEF Pushed
<1>6. Counted(q, f) = [q EXCEPT !.bytes = c]
  BY DEF Counted
<1>7. q.frames # <<>> => Tail(q.frames) \in Seq(Frame)
  BY <1>1, HeadTailProperties
<1> HIDE DEF a, b, c
<1>8. /\ Pushed(q, f) \in Queues
      /\ Pushed(q, f).frames = a
      /\ Pushed(q, f).closed = q.closed
  BY <1>3, <1>4, <1>5 DEF Queues, a
<1>9. /\ Closed(q) \in Queues
      /\ Closed(q).frames = <<>> /\ Closed(q).closed
  BY DEF Closed, Queues
<1>10. /\ Counted(q, f) \in Queues
       /\ Counted(q, f).frames = q.frames
       /\ Counted(q, f).closed = q.closed
  BY <1>4, <1>6 DEF Queues
<1>11. q.frames # <<>> => /\ Popped(q) \in Queues
                         /\ Popped(q).frames = Tail(q.frames)
                         /\ Popped(q).closed = q.closed
  BY <1>7 DEF Popped, Queues
<1> QED  BY <1>8, <1>9, <1>10, <1>11 DEF a

LEMMA TotalTyped ==
    ASSUME TypeOK
    PROVE  Total \in Nat /\ epoch \in Epochs
BY DEF TypeOK, Total

LEMMA NoConnIsReader ==
    ASSUME NEW k \in Conns
    PROVE  k # None /\ k # "reader"
BY SessionAssumption

\* A frame that is queued is the last on its way.
LEMMA PushMove ==
    ASSUME TypeOK, NEW k \in Conns, NEW f \in Frame,
           wire'[k] = wire[k], writing'[k] = writing[k],
           queue'[k].frames = Append(queue[k].frames, f)
    PROVE  Stream(k)' = Append(Stream(k), f)
<1> DEFINE a == wire[k]
           w == writing[k]
           q == queue[k].frames
<1>1. a \in Seq(Frame) /\ w \in Seq(Frame) /\ q \in Seq(Frame)
  BY StreamTyped
<1>2. Stream(k)' = (a \o w) \o Append(q, f) /\ Stream(k) = (a \o w) \o q
  BY DEF Stream
<1> HIDE DEF a, w, q
<1>3. (a \o w) \o Append(q, f) = Append((a \o w) \o q, f)
  BY <1>1, QueueMove
<1> QED  BY <1>2, <1>3

\* A channel that is closed drops what was queued.
LEMMA CloseMove ==
    ASSUME TypeOK, NEW k \in Conns,
           wire'[k] = wire[k], writing'[k] \in {writing[k], <<>>},
           queue'[k].frames = <<>>
    PROVE  \E rest \in Seq(Frame) : Stream(k) = Stream(k)' \o rest
<1> DEFINE a == wire[k]
           w == writing[k]
           q == queue[k].frames
<1>1. a \in Seq(Frame) /\ w \in Seq(Frame) /\ q \in Seq(Frame)
  BY StreamTyped
<1>2. Stream(k)' = (a \o writing'[k]) \o <<>> /\ Stream(k) = (a \o w) \o q
  BY DEF Stream
<1>3. writing'[k] = w \/ writing'[k] = <<>>
  OBVIOUS
<1> HIDE DEF a, w, q
<1>4. a \o w \in Seq(Frame) /\ w \o q \in Seq(Frame)
  BY <1>1, ConcatProperties
<1>5. CASE writing'[k] = w
  <2>1. Stream(k)' = a \o w
    BY <1>2, <1>4, <1>5, ConcatEmptySeq
  <2> QED  BY <1>1, <1>2, <2>1
<1>6. CASE writing'[k] = <<>>
  <2>1. a \o <<>> = a /\ <<>> \in Seq(Frame)
    BY <1>1, ConcatEmptySeq
  <2>2. Stream(k)' = a
    BY <1>2, <1>6, <2>1
  <2>3. Stream(k) = a \o (w \o q)
    BY <1>1, <1>2, ConcatAssociative
  <2> QED  BY <1>4, <2>2, <2>3
<1> QED  BY <1>3, <1>5, <1>6

-----------------------------------------------------------------------------
\* A connection that a step does not touch.
LEMMA Untouched ==
    ASSUME NEW k \in Conns,
           epoch' = epoch, Total' = Total,
           pc'[k] = pc[k], request'[k] = request[k],
           mode'[k] = mode[k], left'[k] = left[k],
           queue'[k] = queue[k], writing'[k] = writing[k], wire'[k] = wire[k],
           k \in clients' => k \in clients,
           k \in clients => reader'.pc = "sending" /\ k \in reader'.todo
                          <=> reader.pc = "sending" /\ k \in reader.todo,
           reader.pc = "sending" /\ k \in reader.todo
             => reader'.from = reader.from
    PROVE  Kept(k)
<1>1. Stream(k)' = Stream(k)
  BY DEF Stream
<1>2. Due(k)' \subseteq Due(k)
  <2>1. DueAnswer(k)' = DueAnswer(k)
    BY DEF DueAnswer
  <2>2. CASE queue[k].closed \/ pc[k] \in {"filling", "inserting"}
    BY <2>1, <2>2 DEF Due
  <2>3. CASE ~queue[k].closed /\ pc[k] \notin {"filling", "inserting"}
    <3>1. CASE k \in clients'
      <4> DEFINE sending == reader.pc = "sending" /\ k \in reader.todo
                 x == IF sending THEN reader.from ELSE Total
      <4>1. x' = x
        BY <3>1
      <4>2. Due(k) = {"output"} \X {x} /\ Due(k)' = {"output"} \X {x'}
        BY <2>3, <3>1 DEF Due
      <4> QED  BY <4>1, <4>2
    <3>2. CASE k \notin clients'
      BY <2>3, <3>2 DEF Due
    <3> QED  BY <3>1, <3>2
  <2> QED  BY <2>2, <2>3
<1> QED  BY <1>1, <1>2 DEF Kept, StillAsked

-----------------------------------------------------------------------------
\* The reader thread.
LEMMA ReadOutputStep ==
    ASSUME IInv, NEW n \in ReadSizes, ReadOutput(n)
    PROVE  IInv' /\ Smooth
<1> USE DEF masterVars, connVars, channelVars
<1>1. TypeOK /\ n \in Nat /\ Total \in Nat /\ epoch \in Epochs
  BY TotalTyped, SessionAssumption DEF IInv
<1>2. /\ epoch' = epoch /\ clients' = clients /\ UNCHANGED <<connVars, channelVars>>
      /\ UNCHANGED termVars /\ lock' = "reader" /\ lock = None
      /\ reader' = [pc |-> "sending", todo |-> clients, failed |-> {},
                    from |-> Total]
      /\ total' = [total EXCEPT ![epoch] = Total + n]
      /\ reader.pc = "idle"
  BY DEF ReadOutput, Total
<1> DEFINE m == Total + n
<1>3. m \in Nat /\ m >= Total
  BY <1>1
<1>4. Total' = m
  BY <1>1, <1>2 DEF TypeOK, Total
<1>5. total' = [total EXCEPT ![epoch] = m]
  BY <1>2
<1> HIDE DEF m
<1>6. TypeOK'
  BY <1>1, <1>2, <1>3, <1>5 DEF TypeOK, termVars
<1>7. ReaderInv'
  BY <1>2, <1>3, <1>4 DEF ReaderInv
<1>8. ASSUME NEW k \in Conns
      PROVE  ConnInv(k)' /\ pc[k] \notin {"filling", "inserting"}
  <2>1. ConnInv(k) /\ lock # k
    BY <1>2, NoConnIsReader DEF IInv
  <2> QED  BY <1>2, <2>1 DEF ConnInv
<1>9. ASSUME NEW k \in Conns PROVE Kept(k)
  <2>1. Stream(k)' = Stream(k)
    BY <1>2 DEF Stream
  <2>2. Due(k)' \subseteq Due(k)
    BY <1>2, <1>8 DEF Due
  <2> QED  BY <1>2, <2>1, <2>2 DEF Kept, StillAsked
<1> QED  BY <1>2, <1>6, <1>7, <1>8, <1>9, MasterStep DEF IInv, Smooth

\* What a send leaves of the broadcast that it is part of.
LEMMA SentRecord ==
    ASSUME NEW r, NEW P, NEW k, NEW s,
           r \in [pc : P, todo : SUBSET Conns, failed : SUBSET Conns, from : Nat],
           k \in Conns,
           \/ s = [r EXCEPT !.todo = @ \ {k}]
           \/ s = [r EXCEPT !.todo = @ \ {k}, !.failed = @ \cup {k}]
    PROVE  /\ s.pc = r.pc /\ s.todo = r.todo \ {k} /\ s.from = r.from
           /\ s \in [pc : P, todo : SUBSET Conns, failed : SUBSET Conns, from : Nat]
<1>1. CASE s = [r EXCEPT !.todo = @ \ {k}]
  BY <1>1
<1>2. CASE s = [r EXCEPT !.todo = @ \ {k}, !.failed = @ \cup {k}]
  BY <1>2
<1> QED  BY <1>1, <1>2

LEMMA SendOutputStep ==
    ASSUME IInv, NEW k \in Conns, SendOutput(k)
    PROVE  IInv' /\ Smooth
<1> USE DEF masterVars, connVars
<1> DEFINE f == Output(reader.from, Total)
<1>1. /\ TypeOK /\ ReaderInv /\ ConnInv(k) /\ Total \in Nat /\ epoch \in Epochs
  BY TotalTyped DEF IInv
<1>2. /\ reader.pc = "sending" /\ k \in reader.todo
      /\ UNCHANGED <<epoch, total, lock, clients, connVars, writing, wire,
                     termVars>>
      /\ reader'.pc = "sending" /\ reader'.todo = reader.todo \ {k}
      /\ reader'.from = reader.from
      /\ reader' \in [pc : {"idle", "sending", "removing"},
                      todo : SUBSET Conns, failed : SUBSET Conns, from : Nat]
  <2>1. /\ reader.pc = "sending" /\ k \in reader.todo
        /\ UNCHANGED <<epoch, total, lock, clients, connVars, writing, wire,
                       termVars>>
    BY DEF SendOutput
  <2>2. \/ reader' = [reader EXCEPT !.todo = @ \ {k}]
        \/ reader' = [reader EXCEPT !.todo = @ \ {k},
                                    !.failed = @ \cup {k}]
    BY DEF SendOutput
  <2>3. reader \in [pc : {"idle", "sending", "removing"},
                   todo : SUBSET Conns, failed : SUBSET Conns, from : Nat]
    BY <1>1 DEF TypeOK
  <2>4. /\ reader'.pc = "sending" /\ reader'.todo = reader.todo \ {k}
        /\ reader'.from = reader.from
        /\ reader' \in [pc : {"idle", "sending", "removing"},
                        todo : SUBSET Conns, failed : SUBSET Conns, from : Nat]
    <3> HIDE DEF f
    <3> QED  BY <2>1, <2>2, <2>3, SentRecord
  <2> QED  BY <2>1, <2>4
<1>3. /\ f \in Frame /\ Spans(f) /\ f.kind = "output" /\ f.epoch = epoch
      /\ f.from = reader.from /\ f.to = Total
  <2> DEFINE d == Total - reader.from
  <2>1. reader.from \in Nat /\ reader.from <= Total
    BY <1>1, <1>2 DEF TypeOK, ReaderInv
  <2>2. d \in Nat
    BY <1>1, <2>1
  <2>3. f = [kind |-> "output", epoch |-> epoch, from |-> reader.from,
             to |-> Total, size |-> d]
    BY DEF Output
  <2> HIDE DEF d, f
  <2> QED  BY <1>1, <2>1, <2>2, <2>3 DEF Frame, Spans
<1>4. queue[k] \in Queues
  BY <1>1 DEF TypeOK, Queues
<1>5. /\ queue' = [queue EXCEPT ![k] = queue'[k]]
      /\ \/ queue'[k] = Pushed(queue[k], f) /\ ~queue[k].closed
         \/ queue'[k] = Closed(queue[k])
  BY <1>1 DEF SendOutput, Accepts, TypeOK
<1> HIDE DEF f
<1>6. /\ queue'[k] \in Queues
      /\ \A j \in Conns \ {k} : queue'[j] = queue[j]
      /\ queue' \in [Conns -> Queues]
  <2>1. queue'[k] \in Queues
    BY <1>3, <1>4, <1>5, QueueOps
  <2>2. queue \in [Conns -> Queues]
    BY <1>1 DEF TypeOK, Queues
  <2> QED  BY <1>5, <2>1, <2>2
<1>7. TypeOK'
  BY <1>1, <1>2, <1>6 DEF TypeOK, termVars, Queues
<1>8. Total' = Total
  BY <1>2 DEF Total
<1>9. ReaderInv'
  BY <1>1, <1>2, <1>8 DEF ReaderInv
<1>10. k \in clients /\ pc[k] \in {"attached", "leaving"}
  BY <1>1, <1>2 DEF ReaderInv, ConnInv
<1>11. \A j \in Conns : ConnInv(j)'
  <2> TAKE j \in Conns
  <2>1. ConnInv(j)
    BY DEF IInv
  <2>2. CASE j = k
    <3>1. queue'[k].closed => queue'[k].frames = <<>>
      BY <1>3, <1>4, <1>5, QueueOps
    <3> QED  BY <1>2, <1>8, <1>10, <2>1, <2>2, <3>1 DEF ConnInv
  <2>3. CASE j # k
    BY <1>2, <1>6, <1>8, <2>1, <2>3 DEF ConnInv
  <2> QED  BY <2>2, <2>3
<1>12. ASSUME NEW j \in Conns, j # k PROVE Kept(j)
  <2>1. queue'[j] = queue[j]
    BY <1>6, <1>12
  <2>2. reader'.pc = "sending" /\ j \in reader'.todo
          <=> reader.pc = "sending" /\ j \in reader.todo
    BY <1>2, <1>12
  <2> QED  BY <1>2, <1>8, <2>1, <2>2, Untouched
<1>13. StillAsked(k)
  BY <1>2 DEF StillAsked
<1>14. CASE queue'[k] = Pushed(queue[k], f) /\ ~queue[k].closed
  <2>1. Stream(k)' = Append(Stream(k), f)
    <3>1. /\ wire'[k] = wire[k] /\ writing'[k] = writing[k]
          /\ queue'[k].frames = Append(queue[k].frames, f)
      <4>1. Pushed(queue[k], f).frames = Append(queue[k].frames, f)
        BY <1>3, <1>4, QueueOps
      <4> QED  BY <1>2, <1>14, <4>1
    <3> QED  BY <1>1, <1>3, <3>1, PushMove
  <2>2. <<f.kind, f.from>> \in Due(k)
    BY <1>2, <1>3, <1>10, <1>14 DEF Due
  <2>3. \A d \in Due(k)' : d[1] = "output" /\ d[2] = Total
    BY <1>2, <1>8, <1>10 DEF Due
  <2>4. "output" \in After("output")
    BY DEF After
  <2>5. Sent(k)
    <3>1. f.to <= Total'
      BY <1>1, <1>3, <1>8
    <3> QED  BY <1>2, <1>3, <1>13, <2>1, <2>2, <2>3, <2>4, <3>1 DEF Sent
  <2> QED  BY <1>2, <1>7, <1>9, <1>11, <1>12, <2>5, MasterStep DEF IInv, Smooth
<1>15. CASE queue'[k] = Closed(queue[k])
  <2>1. queue'[k].frames = <<>> /\ queue'[k].closed
    BY <1>3, <1>4, <1>15, QueueOps
  <2>2. \E rest \in Seq(Frame) : Stream(k) = Stream(k)' \o rest
    BY <1>1, <1>2, <2>1, CloseMove
  <2>3. Due(k)' = {}
    BY <2>1 DEF Due
  <2>4. Cut(k)
    BY <1>13, <2>2, <2>3 DEF Cut
  <2> QED  BY <1>2, <1>7, <1>9, <1>11, <1>12, <2>4, MasterStep DEF IInv, Smooth
<1> QED  BY <1>5, <1>14, <1>15

LEMMA SentToAllStep ==
    ASSUME IInv, SentToAll
    PROVE  IInv' /\ Smooth
<1> USE DEF masterVars, connVars, channelVars
<1>1. /\ TypeOK /\ ReaderInv /\ Total' = Total
      /\ reader.pc = "sending" /\ reader.todo = {} /\ lock = "reader"
      /\ lock' = None
      /\ UNCHANGED <<epoch, total, clients, connVars, channelVars, termVars>>
  BY DEF IInv, SentToAll, ReaderInv, Total
<1>2. /\ reader'.pc # "sending"
      /\ reader' \in [pc : {"idle", "sending", "removing"},
                      todo : SUBSET Conns, failed : SUBSET Conns, from : Nat]
  <2>1. reader' = Idle \/ reader' = [reader EXCEPT !.pc = "removing"]
    BY DEF SentToAll
  <2>2. reader \in [pc : {"idle", "sending", "removing"},
                   todo : SUBSET Conns, failed : SUBSET Conns, from : Nat]
    BY <1>1 DEF TypeOK
  <2> QED  BY <2>1, <2>2 DEF Idle
<1>3. TypeOK'
  BY <1>1, <1>2 DEF TypeOK, termVars
<1>4. ReaderInv'
  BY <1>2 DEF ReaderInv
<1>5. ASSUME NEW k \in Conns PROVE ConnInv(k)'
  <2>1. ConnInv(k)
    BY DEF IInv
  <2> QED  BY <1>1, <2>1, NoConnIsReader DEF ConnInv
<1>6. ASSUME NEW k \in Conns PROVE Kept(k)
  BY <1>1, <1>2, Untouched
<1> QED  BY <1>1, <1>3, <1>4, <1>5, <1>6, MasterStep DEF IInv, Smooth

LEMMA RemoveFailedStep ==
    ASSUME IInv, RemoveFailed
    PROVE  IInv' /\ Smooth
<1> USE DEF masterVars, connVars, channelVars
<1>1. /\ TypeOK /\ Total' = Total
      /\ reader.pc = "removing" /\ reader' = Idle
      /\ clients' \subseteq clients
      /\ UNCHANGED <<epoch, total, lock, connVars, channelVars, termVars>>
  BY DEF IInv, RemoveFailed, Total
<1>2. TypeOK'
  BY <1>1 DEF TypeOK, termVars, Idle
<1>3. ReaderInv' /\ reader'.pc # "sending"
  BY <1>1 DEF ReaderInv, Idle
<1>4. ASSUME NEW k \in Conns PROVE ConnInv(k)'
  <2>1. ConnInv(k)
    BY DEF IInv
  <2> QED  BY <1>1, <2>1 DEF ConnInv
<1>5. ASSUME NEW k \in Conns PROVE Kept(k)
  <2>1. k \in clients' => k \in clients
    BY <1>1
  <2> QED  BY <1>1, <1>3, <2>1, Untouched
<1> QED  BY <1>1, <1>2, <1>3, <1>4, <1>5, MasterStep DEF IInv, Smooth

-----------------------------------------------------------------------------
\* The thread and the writer of one connection.
OthersAlone(k) ==
    \A j \in Conns \ {k} :
      /\ pc'[j] = pc[j] /\ mode'[j] = mode[j] /\ left'[j] = left[j]
      /\ queue'[j] = queue[j] /\ writing'[j] = writing[j] /\ wire'[j] = wire[j]
      /\ j \in clients' <=> j \in clients

LEMMA OthersKept ==
    ASSUME IInv, NEW k \in Conns, NEW j \in Conns \ {k},
           UNCHANGED <<epoch, total, reader, request>>,
           OthersAlone(k), lock = j => lock' = j
    PROVE  Kept(j) /\ ConnInv(j)'
<1>1. Total' = Total /\ ConnInv(j)
  BY DEF Total, IInv
<1>2. Kept(j)
  BY <1>1, Untouched DEF OthersAlone
<1>3. ConnInv(j)'
  BY <1>1 DEF OthersAlone, ConnInv
<1> QED  BY <1>2, <1>3

LEMMA ConnStep ==
    ASSUME IInv, NEW k \in Conns, TypeOK', OthersAlone(k),
           UNCHANGED <<epoch, total, reader, request, mode, termVars>>,
           lock' = lock \/ lock = k,
           reader.pc = "sending" => clients \subseteq clients',
           ConnInv(k)',
           Kept(k) \/ Cut(k) \/ Sent(k)
    PROVE  IInv' /\ Smooth
<1>1. ASSUME NEW j \in Conns, j # k PROVE Kept(j) /\ ConnInv(j)'
  BY <1>1, OthersKept
<1>2. ReaderInv'
  <2>1. Total' = Total /\ ReaderInv
    BY DEF Total, IInv
  <2> QED  BY <2>1, NoConnIsReader DEF ReaderInv
<1> QED  BY <1>1, <1>2, MasterStep DEF IInv, Smooth

LEMMA InsertStep ==
    ASSUME IInv, NEW k \in Conns, Insert(k)
    PROVE  IInv' /\ Smooth
<1> USE DEF connVars, channelVars
<1>1. /\ TypeOK /\ ConnInv(k) /\ ReaderInv /\ Total' = Total
      /\ pc[k] = "inserting" /\ lock = k /\ lock' = None
      /\ clients' = clients \cup {k}
      /\ pc' = [pc EXCEPT ![k] = "attached"]
      /\ UNCHANGED <<epoch, total, reader, request, mode, left, channelVars,
                     termVars>>
  BY DEF IInv, Insert, ConnInv, Total
<1>2. TypeOK'
  BY <1>1 DEF TypeOK, termVars
<1>3. pc'[k] = "attached" /\ OthersAlone(k)
  BY <1>1 DEF OthersAlone, TypeOK
<1>4. ConnInv(k)'
  BY <1>1, <1>3 DEF ConnInv
<1>5. reader.pc # "sending"
  BY <1>1, NoConnIsReader DEF ReaderInv
<1>6. Kept(k)
  <2>1. Stream(k)' = Stream(k)
    BY <1>1 DEF Stream
  <2>2. Due(k)' \subseteq Due(k)
    BY <1>1, <1>3, <1>5 DEF Due
  <2> QED  BY <1>1, <1>3, <2>1, <2>2 DEF Kept, StillAsked
<1> QED  BY <1>1, <1>2, <1>3, <1>4, <1>6, ConnStep

LEMMA LoopEndsStep ==
    ASSUME IInv, NEW k \in Conns, LoopEnds(k)
    PROVE  IInv' /\ Smooth
<1> USE DEF masterVars, channelVars
<1>1. /\ TypeOK /\ ConnInv(k)
      /\ pc[k] \in {"handshake", "attached"}
      /\ pc[k] = "attached" => pc'[k] = "leaving"
      /\ pc[k] = "handshake" => pc'[k] = "closing"
      /\ pc' \in [Conns -> {"unused", "handshake", "filling", "inserting",
                            "attached", "leaving", "closing", "gone"}]
      /\ \A j \in Conns \ {k} : pc'[j] = pc[j]
      /\ UNCHANGED <<masterVars, request, mode, left, channelVars, termVars>>
  <2>1. /\ TypeOK /\ ConnInv(k)
        /\ pc[k] \in {"handshake", "attached"}
        /\ UNCHANGED <<masterVars, request, mode, left, channelVars, termVars>>
    BY DEF IInv, LoopEnds
  <2>2. \/ pc[k] = "attached" /\ pc' = [pc EXCEPT ![k] = "leaving"]
        \/ pc[k] = "handshake" /\ pc' = [pc EXCEPT ![k] = "closing"]
    BY <2>1 DEF LoopEnds
  <2> QED  BY <2>1, <2>2 DEF TypeOK
<1>2. TypeOK'
  BY <1>1 DEF TypeOK, termVars
<1>3. OthersAlone(k)
  BY <1>1 DEF OthersAlone
<1>4. Total' = Total
  BY <1>1 DEF Total
<1>5. ConnInv(k)'
  BY <1>1, <1>4 DEF ConnInv
<1>6. Kept(k)
  <2>1. Stream(k)' = Stream(k)
    BY <1>1 DEF Stream
  <2>2. Due(k)' \subseteq Due(k)
    BY <1>1, <1>4 DEF Due
  <2> QED  BY <1>1, <2>1, <2>2 DEF Kept, StillAsked
<1> QED  BY <1>1, <1>2, <1>3, <1>5, <1>6, ConnStep

LEMMA RemoveClientStep ==
    ASSUME IInv, NEW k \in Conns, RemoveClient(k)
    PROVE  IInv' /\ Smooth
<1> USE DEF connVars, channelVars
<1>1. /\ TypeOK /\ ConnInv(k) /\ Total' = Total
      /\ pc[k] = "leaving" /\ reader.pc # "sending"
      /\ clients' = clients \ {k}
      /\ pc' = [pc EXCEPT ![k] = "closing"]
      /\ UNCHANGED <<epoch, total, lock, reader, request, mode, left,
                     channelVars, termVars>>
  BY DEF IInv, RemoveClient, Total
<1>2. TypeOK'
  BY <1>1 DEF TypeOK, termVars
<1>3. pc'[k] = "closing" /\ OthersAlone(k)
  BY <1>1 DEF OthersAlone, TypeOK
<1>4. ConnInv(k)'
  BY <1>1, <1>3 DEF ConnInv
<1>5. Kept(k)
  <2>1. Stream(k)' = Stream(k)
    BY <1>1 DEF Stream
  <2>2. Due(k)' = {}
    BY <1>1, <1>3 DEF Due
  <2> QED  BY <1>1, <1>3, <2>1, <2>2 DEF Kept, StillAsked
<1> QED  BY <1>1, <1>2, <1>3, <1>4, <1>5, ConnStep

LEMMA CloseChannelStep ==
    ASSUME IInv, NEW k \in Conns, CloseChannel(k)
    PROVE  IInv' /\ Smooth
<1> USE DEF masterVars
<1>1. /\ TypeOK /\ ConnInv(k) /\ Total' = Total
      /\ pc[k] = "closing"
      /\ queue' = [queue EXCEPT ![k] = Closed(queue[k])]
      /\ pc' = [pc EXCEPT ![k] = "gone"]
      /\ UNCHANGED <<masterVars, request, mode, left, writing, wire, termVars>>
  BY DEF IInv, CloseChannel, Total
<1>2. Closed(queue[k]) = [frames |-> <<>>, bytes |-> 0, closed |-> TRUE]
  BY DEF Closed
<1>3. TypeOK'
  <2>1. queue \in [Conns -> Queues]
    BY <1>1 DEF TypeOK, Queues
  <2> DEFINE q == Closed(queue[k])
  <2>2. q \in Queues
    BY <1>2 DEF Queues
  <2> HIDE DEF q
  <2>3. queue' \in [Conns -> Queues]
    BY <1>1, <2>1, <2>2 DEF q
  <2> QED  BY <1>1, <2>3 DEF TypeOK, termVars, Queues
<1>4. /\ pc'[k] = "gone" /\ OthersAlone(k)
      /\ queue'[k].closed /\ queue'[k].frames = <<>>
  BY <1>1, <1>2 DEF OthersAlone, TypeOK
<1>5. ConnInv(k)'
  BY <1>1, <1>4 DEF ConnInv
<1>6. Cut(k)
  <2>1. \E rest \in Seq(Frame) : Stream(k) = Stream(k)' \o rest
    BY <1>1, <1>4, CloseMove
  <2>2. Due(k)' = {}
    BY <1>4 DEF Due
  <2> QED  BY <1>1, <1>4, <2>1, <2>2 DEF Cut, StillAsked
<1> QED  BY <1>1, <1>3, <1>4, <1>5, <1>6, ConnStep

LEMMA WriterFailsStep ==
    ASSUME IInv, NEW k \in Conns, WriterFails(k)
    PROVE  IInv' /\ Smooth
<1> USE DEF masterVars, connVars
<1>1. /\ TypeOK /\ ConnInv(k) /\ Total' = Total
      /\ writing[k] # <<>>
      /\ writing' = [writing EXCEPT ![k] = <<>>]
      /\ queue' = [queue EXCEPT ![k] = Closed(queue[k])]
      /\ UNCHANGED <<masterVars, connVars, wire, termVars>>
  BY DEF IInv, WriterFails, Total
<1>2. Closed(queue[k]) = [frames |-> <<>>, bytes |-> 0, closed |-> TRUE]
  BY DEF Closed
<1>3. TypeOK'
  <2>1. queue \in [Conns -> Queues]
    BY <1>1 DEF TypeOK, Queues
  <2> DEFINE q == Closed(queue[k])
  <2>2. q \in Queues
    BY <1>2 DEF Queues
  <2> HIDE DEF q
  <2>3. queue' \in [Conns -> Queues]
    BY <1>1, <2>1, <2>2 DEF q
  <2>4. writing' \in [Conns -> Seq(Frame)]
    BY <1>1 DEF TypeOK
  <2> QED  BY <1>1, <2>3, <2>4 DEF TypeOK, termVars, Queues
<1>4. /\ writing'[k] = <<>> /\ OthersAlone(k)
      /\ queue'[k].closed /\ queue'[k].frames = <<>>
  BY <1>1, <1>2 DEF OthersAlone, TypeOK
<1>5. ConnInv(k)'
  BY <1>1, <1>4 DEF ConnInv
<1>6. Cut(k)
  <2>1. \E rest \in Seq(Frame) : Stream(k) = Stream(k)' \o rest
    BY <1>1, <1>4, CloseMove
  <2>2. Due(k)' = {}
    BY <1>4 DEF Due
  <2> QED  BY <1>1, <2>1, <2>2 DEF Cut, StillAsked
<1> QED  BY <1>1, <1>3, <1>4, <1>5, <1>6, ConnStep

\* The queue and the writer hand a frame on; nothing else moves.
LEMMA WriterKeeps ==
    ASSUME IInv, NEW k \in Conns, TypeOK', OthersAlone(k),
           UNCHANGED <<masterVars, connVars, termVars>>,
           queue'[k].closed = queue[k].closed,
           Stream(k)' = Stream(k),
           ConnInv(k)'
    PROVE  IInv' /\ Smooth
<1> USE DEF masterVars, connVars
<1>1. Total' = Total
  BY DEF Total
<1>2. Due(k)' = Due(k)
  <2>1. DueAnswer(k)' = DueAnswer(k)
    BY <1>1 DEF DueAnswer
  <2> QED  BY <1>1, <2>1 DEF Due
<1>3. Kept(k)
  BY <1>2 DEF Kept, StillAsked
<1> QED  BY <1>3, ConnStep

LEMMA WriterPopsStep ==
    ASSUME IInv, NEW k \in Conns, WriterPops(k)
    PROVE  IInv' /\ Smooth
<1> DEFINE q == queue[k].frames
<1>1. /\ TypeOK /\ ConnInv(k)
      /\ writing[k] = <<>> /\ q # <<>>
      /\ writing' = [writing EXCEPT ![k] = <<Head(q)>>]
      /\ queue' = [queue EXCEPT ![k] = Popped(queue[k])]
      /\ UNCHANGED <<masterVars, connVars, wire, termVars>>
  BY DEF IInv, WriterPops
<1>2. queue[k] \in Queues /\ q \in Seq(Frame) /\ wire[k] \in Seq(Frame)
  BY <1>1 DEF TypeOK, Queues
<1>3. /\ Popped(queue[k]) \in Queues
      /\ Popped(queue[k]).frames = Tail(q)
      /\ Popped(queue[k]).closed = queue[k].closed
  <2>1. Head(q) \in Frame
    BY <1>1, <1>2, HeadTailProperties
  <2> QED  BY <1>1, <1>2, <2>1, QueueOps
<1>4. <<Head(q)>> \in Seq(Frame)
  BY <1>1, <1>2, HeadAndTail
<1> HIDE DEF q
<1>5. TypeOK'
  BY <1>1, <1>3, <1>4 DEF TypeOK, termVars, masterVars, connVars, Queues
<1>6. /\ writing'[k] = <<Head(q)>> /\ OthersAlone(k)
      /\ queue'[k].frames = Tail(q) /\ queue'[k].closed = queue[k].closed
  BY <1>1, <1>3 DEF OthersAlone, TypeOK, masterVars, connVars
<1>7. Stream(k)' = Stream(k)
  <2>1. Stream(k)' = (wire[k] \o <<Head(q)>>) \o Tail(q)
    BY <1>1, <1>6 DEF Stream
  <2>2. Stream(k) = (wire[k] \o <<>>) \o q
    BY <1>1 DEF Stream, q
  <2> QED  BY <1>1, <1>2, <2>1, <2>2, PopMove
<1>8. ConnInv(k)'
  <2>1. queue[k].frames # <<>> /\ ~queue[k].closed
    BY <1>1 DEF ConnInv, q
  <2>2. pc[k] \notin {"unused", "handshake"}
    BY <1>1, <2>1 DEF ConnInv, EmptyQueue
  <2>3. Total' = Total
    BY <1>1 DEF Total, masterVars
  <2> QED  BY <1>1, <1>6, <2>1, <2>2, <2>3 DEF ConnInv, masterVars, connVars
<1> QED  BY <1>1, <1>5, <1>6, <1>7, <1>8, WriterKeeps

LEMMA WriterWritesStep ==
    ASSUME IInv, NEW k \in Conns, WriterWrites(k)
    PROVE  IInv' /\ Smooth
<1> DEFINE a == wire[k]
           w == writing[k]
<1>1. /\ TypeOK /\ ConnInv(k) /\ w # <<>>
      /\ wire' = [wire EXCEPT ![k] = a \o w]
      /\ writing' = [writing EXCEPT ![k] = <<>>]
      /\ queue' = [queue EXCEPT ![k] = Counted(queue[k], w[1])]
      /\ UNCHANGED <<masterVars, connVars, termVars>>
  BY DEF IInv, WriterWrites
<1>2. /\ queue[k] \in Queues /\ a \in Seq(Frame) /\ w \in Seq(Frame)
      /\ queue[k].frames \in Seq(Frame)
  BY <1>1 DEF TypeOK, Queues
<1>3. /\ Counted(queue[k], w[1]) \in Queues
      /\ Counted(queue[k], w[1]).frames = queue[k].frames
      /\ Counted(queue[k], w[1]).closed = queue[k].closed
  <2>1. w[1] \in Frame
    BY <1>1, <1>2, EmptySeq
  <2> QED  BY <1>2, <2>1, QueueOps
<1>4. a \o w \in Seq(Frame)
  BY <1>2, ConcatProperties
<1>5. pc[k] \notin {"unused", "handshake"}
  BY <1>1 DEF ConnInv
<1> DEFINE b == a \o w
           c == Counted(queue[k], w[1])
<1> HIDE DEF b, c
<1>6. TypeOK'
  <2>1. b \in Seq(Frame) /\ c \in Queues
    BY <1>3, <1>4 DEF b, c
  <2>2. wire' = [wire EXCEPT ![k] = b] /\ queue' = [queue EXCEPT ![k] = c]
    BY <1>1 DEF b, c
  <2>3. /\ TypeOK /\ writing' = [writing EXCEPT ![k] = <<>>]
        /\ UNCHANGED <<masterVars, connVars, termVars>>
    BY <1>1
  <2> HIDE DEF a, w
  <2>4. queue' \in [Conns -> Queues]
    BY <2>1, <2>2, <2>3 DEF TypeOK, Queues
  <2>5. wire' \in [Conns -> Seq(Frame)]
    BY <2>1, <2>2, <2>3 DEF TypeOK
  <2>6. writing' \in [Conns -> Seq(Frame)]
    BY <2>3 DEF TypeOK
  <2> QED  BY <2>3, <2>4, <2>5, <2>6
           DEF TypeOK, termVars, masterVars, connVars, Queues
<1>7. /\ writing'[k] = <<>> /\ OthersAlone(k) /\ wire'[k] = a \o w
      /\ queue'[k].frames = queue[k].frames
      /\ queue'[k].closed = queue[k].closed
  BY <1>1, <1>3 DEF OthersAlone, TypeOK, masterVars, connVars
<1>8. Stream(k)' = Stream(k)
  <2>1. Stream(k)' = ((a \o w) \o <<>>) \o queue[k].frames
    BY <1>1, <1>7 DEF Stream
  <2>2. Stream(k) = (a \o w) \o queue[k].frames
    BY DEF Stream
  <2> QED  BY <1>2, <2>1, <2>2, WriteMove
<1>9. ConnInv(k)'
  <2>1. Total' = Total
    BY <1>1 DEF Total, masterVars
  <2> QED  BY <1>1, <1>5, <1>7, <2>1 DEF ConnInv, masterVars, connVars
<1> QED  BY <1>1, <1>6, <1>7, <1>8, <1>9, WriterKeeps

-----------------------------------------------------------------------------
\* add_client answers the attach.
LEMMA AttachStep ==
    ASSUME IInv, NEW k \in Conns, Attach(k)
    PROVE  /\ IInv'
           /\ Stream(k)' = <<>>
           /\ \A j \in Conns \ {k} : Kept(j)
<1> USE DEF channelVars
<1>1. /\ TypeOK /\ ConnInv(k) /\ ReaderInv /\ Total' = Total
      /\ Total \in Nat /\ epoch \in Epochs
      /\ pc[k] = "handshake" /\ lock = None /\ lock' = k
      /\ pc' = [pc EXCEPT ![k] = "filling"]
      /\ UNCHANGED <<epoch, total, clients, reader, request, channelVars,
                     termVars>>
  BY TotalTyped DEF IInv, Attach, Total
<1>2. /\ queue[k] = EmptyQueue /\ writing[k] = <<>> /\ wire[k] = <<>>
      /\ mode[k] = "plain" /\ left[k] = 0
  BY <1>1 DEF ConnInv
<1> DEFINE p == request[k].resume
           missed == Total - p.offset
<1>3. \/ /\ p # None /\ Held(p)
         /\ mode' = [mode EXCEPT ![k] = "resume"]
         /\ left' = [left EXCEPT ![k] = missed]
      \/ /\ mode' = [mode EXCEPT ![k] = "replay"]
         /\ \E n \in SnapshotSizes : left' = [left EXCEPT ![k] = n]
      \/ mode' = mode /\ left' = left
  BY DEF Attach
<1>4. p # None /\ Held(p) => /\ p.epoch = epoch /\ p.offset \in Nat
                             /\ missed \in Nat /\ missed <= Total
                             /\ Total - missed = p.offset
  <2> HAVE p # None /\ Held(p)
  <2>1. p \in Position
    BY <1>1 DEF TypeOK
  <2>2. p.offset \in Nat /\ p.offset <= Total /\ p.epoch = epoch
    BY <2>1 DEF Position, Held
  <2> QED  BY <1>1, <2>2
<1> HIDE DEF missed, p
<1>5. /\ left' \in [Conns -> Nat]
      /\ mode' \in [Conns -> {"plain", "resume", "replay"}]
      /\ \A j \in Conns \ {k} : left'[j] = left[j] /\ mode'[j] = mode[j]
      /\ \/ /\ p # None /\ Held(p) /\ mode'[k] = "resume"
            /\ left'[k] = missed
         \/ mode'[k] = "replay" /\ left'[k] > 0
         \/ mode'[k] = "plain" /\ left'[k] = 0
  <2>1. left \in [Conns -> Nat] /\ mode \in [Conns -> {"plain", "resume", "replay"}]
    BY <1>1 DEF TypeOK
  <2>2. \A n \in SnapshotSizes : n \in Nat /\ n > 0
    BY SessionAssumption
  <2> QED  BY <1>2, <1>3, <1>4, <2>1, <2>2
<1>6. TypeOK'
  BY <1>1, <1>5 DEF TypeOK, termVars
<1>7. OthersAlone(k) /\ pc'[k] = "filling"
  BY <1>1, <1>5 DEF OthersAlone, TypeOK
<1>8. ReaderInv'
  BY <1>1, SessionAssumption DEF ReaderInv
<1>9. ASSUME NEW j \in Conns, j # k PROVE Kept(j) /\ ConnInv(j)'
  <2>1. j \in Conns \ {k} /\ lock # j
    BY <1>1, <1>9, NoConnIsReader
  <2> QED  BY <1>1, <1>7, <2>1, OthersKept
<1>10. ConnInv(k)'
  <2>1. mode'[k] = "resume" => left'[k] <= Total'
    BY <1>1, <1>4, <1>5
  <2>2. mode'[k] = "plain" => left'[k] = 0
    BY <1>5
  <2> QED  BY <1>1, <1>2, <1>7, <2>1, <2>2 DEF ConnInv, EmptyQueue
<1>11. Stream(k)' = <<>>
  <2>1. wire'[k] = <<>> /\ writing'[k] = <<>> /\ queue'[k].frames = <<>>
    BY <1>1, <1>2 DEF EmptyQueue
  <2> QED  BY <2>1 DEF Stream
<1>12. ASSUME NEW t \in Terminals, link[t] = k PROVE Serves(k, t)'
  <2> DEFINE v == View(t, k)'
  <2>1. /\ ~live[t] /\ pending[t] = NothingPending
        /\ p # None => p = mark[t]
    <3>1. Unanswered(t, k)
      BY <1>12 DEF IInv, TerminalInv, Serves
    <3> QED  BY <1>1, <3>1 DEF Unanswered, p
  <2>2. /\ v.live = FALSE /\ v.base = None /\ v.bytes = <<>>
        /\ v.mark = mark[t] /\ v.mode = mode'[k] /\ Len(v.bytes) = 0
    <3>1. v = [live |-> FALSE, base |-> None, bytes |-> <<>>,
               mark |-> mark[t], mode |-> mode'[k]]
      <4>1. live[t] = FALSE
        BY <1>1, <2>1 DEF TypeOK
      <4>2. pending[t].base = None /\ pending[t].bytes = <<>>
        BY <2>1 DEF NothingPending
      <4>3. live' = live /\ pending' = pending /\ mark' = mark
        BY <1>1 DEF termVars
      <4> QED  BY <4>1, <4>2, <4>3 DEF View
    <3> HIDE DEF v
    <3> QED  BY <3>1
  <2>3. Stream(k)' = <<>>
    BY <1>11
  <2> HIDE DEF v
  <2>4. Received(v)
    BY <1>5, <2>1, <2>2 DEF Received
  <2>5. Fitting(v, <<>>)
    BY DEF Fitting
  <2>6. ASSUME NEW d \in Due(k)'
        PROVE  Continues(v, <<>>, epoch', d[1], d[2])
    <3>1. d \in DueAnswer(k)'
      BY <1>7, <2>6 DEF Due
    <3>2. CASE p # None /\ Held(p) /\ mode'[k] = "resume" /\ left'[k] = missed
      <4>1. d[1] \in {"output", "resumeDone"} /\ d[2] = Total - missed
        BY <1>1, <3>1, <3>2 DEF DueAnswer
      <4>2. d[2] = p.offset /\ p = mark[t] /\ p.epoch = epoch /\ p.offset + 0 = p.offset
        BY <1>4, <2>1, <3>2, <4>1
      <4>3. d[1] \in Ready(v)
        BY <2>2, <3>2, <4>1 DEF Ready
      <4>4. Reaches(v, epoch, d[2])
        BY <2>2, <4>2 DEF Reaches
      <4> QED  BY <1>1, <4>3, <4>4 DEF Continues
    <3>3. CASE mode'[k] = "replay" /\ left'[k] > 0
      BY <2>2, <3>1, <3>3 DEF DueAnswer, Continues, Ready, Reaches
    <3>4. CASE mode'[k] = "plain" /\ left'[k] = 0
      BY <2>2, <3>1, <3>4 DEF DueAnswer, Continues, Ready, Reaches
    <3> QED  BY <1>5, <3>2, <3>3, <3>4
  <2>7. Unanswered(t, k)' /\ (pc[k] # "unused")'
    BY <1>7 DEF Unanswered
  <2> QED  BY <2>3, <2>4, <2>5, <2>6, <2>7 DEF Serves, v
<1>13. ASSUME NEW t \in Terminals, NEW j \in Conns, link[t] = j, j # k
       PROVE  Serves(j, t)'
  <2>1. Serves(j, t) /\ mode'[j] = mode[j]
    BY <1>7, <1>13 DEF IInv, TerminalInv, OthersAlone
  <2> QED  BY <1>1, <1>6, <1>9, <1>13, <2>1, ServesKept
<1> QED  BY <1>1, <1>6, <1>8, <1>9, <1>10, <1>12, <1>13, <1>11, TerminalsAlone
         DEF IInv

\* A frame that answers the attach is the one that is due.
LEMMA AnswerStep ==
    ASSUME IInv, NEW k \in Conns, NEW f \in Frame,
           NEW next \in {"filling", "inserting"},
           pc[k] = "filling", mode[k] # "plain", Answer(k, f, next),
           UNCHANGED <<epoch, total, clients, reader, request, mode, writing,
                       wire, termVars>>,
           left' \in [Conns -> Nat],
           \A j \in Conns \ {k} : left'[j] = left[j],
           left'[k] <= left[k],
           Spans(f), f.epoch = epoch, <<f.kind, f.from>> \in DueAnswer(k),
           f.to <= Total,
           next = "inserting" => "output" \in After(f.kind) /\ f.to = Total,
           next = "filling" =>
             \A d \in DueAnswer(k)' : d[1] \in After(f.kind) /\ d[2] = f.to
    PROVE  IInv' /\ Smooth
<1>1. /\ TypeOK /\ ConnInv(k) /\ Total' = Total /\ Total \in Nat
      /\ lock = k /\ k \notin clients
  BY TotalTyped DEF IInv, ConnInv, Total
<1>2. queue[k] \in Queues /\ queue \in [Conns -> Queues]
  BY <1>1 DEF TypeOK, Queues
<1>3. \/ /\ ~queue[k].closed
         /\ queue' = [queue EXCEPT ![k] = Pushed(queue[k], f)]
         /\ pc' = [pc EXCEPT ![k] = next]
         /\ lock' = lock
      \/ /\ queue' = [queue EXCEPT ![k] = Closed(queue[k])]
         /\ pc' = [pc EXCEPT ![k] = "leaving"]
         /\ lock' = None
  BY DEF Answer, Accepts
<1>4. /\ queue' \in [Conns -> Queues] /\ \A j \in Conns \ {k} : queue'[j] = queue[j]
      /\ pc' \in [Conns -> {"unused", "handshake", "filling", "inserting",
                            "attached", "leaving", "closing", "gone"}]
      /\ \A j \in Conns \ {k} : pc'[j] = pc[j]
      /\ lock' \in Conns \cup {None, "reader"}
      /\ \/ /\ ~queue[k].closed /\ queue'[k] = Pushed(queue[k], f)
            /\ pc'[k] = next /\ lock' = lock
         \/ queue'[k] = Closed(queue[k]) /\ pc'[k] = "leaving"
  <2>1. Pushed(queue[k], f) \in Queues /\ Closed(queue[k]) \in Queues
    BY <1>2, QueueOps
  <2>2. /\ pc \in [Conns -> {"unused", "handshake", "filling", "inserting",
                             "attached", "leaving", "closing", "gone"}]
        /\ lock \in Conns \cup {None, "reader"}
    BY <1>1 DEF TypeOK
  <2> QED  BY <1>2, <1>3, <2>1, <2>2
<1>5. TypeOK'
  BY <1>1, <1>4 DEF TypeOK, termVars, Queues
<1>6. OthersAlone(k)
  BY <1>4 DEF OthersAlone
<1>7. CASE /\ ~queue[k].closed /\ queue'[k] = Pushed(queue[k], f)
           /\ pc'[k] = next /\ lock' = lock
  <2>1. queue'[k].frames = Append(queue[k].frames, f) /\ ~queue'[k].closed
    <3>1. Pushed(queue[k], f).frames = Append(queue[k].frames, f)
      BY <1>2, QueueOps
    <3>2. Pushed(queue[k], f).closed = queue[k].closed
      BY <1>2, QueueOps
    <3> QED  BY <1>7, <3>1, <3>2
  <2>2. left[k] \in Nat /\ left'[k] \in Nat
    BY <1>1 DEF TypeOK
  <2>3. mode'[k] = "resume" /\ pc'[k] = "filling" => left'[k] <= Total'
    <3>1. mode[k] = "resume" => left[k] <= Total
      BY <1>1 DEF ConnInv
    <3> QED  BY <1>1, <2>2, <3>1
  <2>4. ConnInv(k)'
    BY <1>1, <1>7, <2>1, <2>3 DEF ConnInv
  <2>5. Stream(k)' = Append(Stream(k), f)
    BY <1>1, <2>1, PushMove
  <2>6. <<f.kind, f.from>> \in Due(k)
    BY <1>7 DEF Due
  <2>7. \A d \in Due(k)' : d[1] \in After(f.kind) /\ d[2] = f.to
    <3>1. CASE next = "filling"
      BY <1>7, <2>1, <3>1 DEF Due
    <3>2. CASE next = "inserting"
      BY <1>1, <1>7, <2>1, <3>2 DEF Due
    <3> QED  BY <3>1, <3>2
  <2>8. StillAsked(k)
    BY <1>7 DEF StillAsked
  <2>9. Sent(k)
    BY <1>1, <2>5, <2>6, <2>7, <2>8 DEF Sent
  <2> QED  BY <1>1, <1>5, <1>6, <2>4, <2>9, ConnStep
<1>8. CASE queue'[k] = Closed(queue[k]) /\ pc'[k] = "leaving"
  <2>1. queue'[k].frames = <<>> /\ queue'[k].closed
    BY <1>2, <1>8, QueueOps
  <2>2. ConnInv(k)'
    BY <1>1, <1>8, <2>1 DEF ConnInv
  <2>3. \E rest \in Seq(Frame) : Stream(k) = Stream(k)' \o rest
    BY <1>1, <2>1, CloseMove
  <2>4. Due(k)' = {}
    BY <2>1 DEF Due
  <2>5. Cut(k)
    BY <1>8, <2>3, <2>4 DEF Cut, StillAsked
  <2> QED  BY <1>1, <1>5, <1>6, <2>2, <2>5, ConnStep
<1> QED  BY <1>4, <1>7, <1>8

LEMMA SendChunkStep ==
    ASSUME IInv, NEW k \in Conns, SendChunk(k)
    PROVE  IInv' /\ Smooth
<1> DEFINE n == IF left[k] < ChunkSize THEN left[k] ELSE ChunkSize
           c == Chunk(k, n)
           b == left[k] - n
<1>1. /\ TypeOK /\ ConnInv(k) /\ Total' = Total /\ Total \in Nat
      /\ epoch \in Epochs
      /\ pc[k] = "filling" /\ left[k] > 0 /\ Answer(k, c, "filling")
      /\ left' = [left EXCEPT ![k] = b]
      /\ UNCHANGED <<epoch, total, clients, reader, request, mode, writing,
                     wire, termVars>>
  BY TotalTyped DEF IInv, SendChunk, Total
<1>2. /\ left[k] \in Nat /\ left \in [Conns -> Nat]
      /\ mode[k] \in {"resume", "replay"}
  BY <1>1 DEF TypeOK, ConnInv
<1>3. n \in Nat /\ b \in Nat /\ n > 0 /\ b <= left[k] /\ n <= left[k]
  BY <1>1, <1>2, SessionAssumption
<1>4. /\ left' \in [Conns -> Nat] /\ left'[k] = b
      /\ \A j \in Conns \ {k} : left'[j] = left[j]
  <2> HIDE DEF b
  <2> QED  BY <1>1, <1>2, <1>3
<1>5. CASE mode[k] = "resume"
  <2> DEFINE x == Total - left[k]
             y == x + n
             z == y - x
  <2>1. left[k] <= Total
    BY <1>1, <1>5 DEF ConnInv
  <2>2. /\ x \in Nat /\ y \in Nat /\ x <= y /\ z \in Nat
        /\ Total - b = y /\ y <= Total
    <3> DEFINE l == left[k]
    <3>1. l \in Nat /\ l <= Total /\ n \in Nat /\ n <= l /\ b = l - n
      BY <1>2, <1>3, <2>1
    <3> HIDE DEF n, l
    <3> QED  BY <1>1, <3>1 DEF l
  <2>3. c = [kind |-> "output", epoch |-> epoch, from |-> x, to |-> y,
             size |-> z]
    <3> HIDE DEF n
    <3> QED  BY <1>5 DEF Chunk, Output
  <2> HIDE DEF c, z, y
  <2>4. /\ c \in Frame /\ Spans(c) /\ c.epoch = epoch /\ c.kind = "output"
        /\ c.from = x /\ c.to = y
    <3> HIDE DEF x
    <3> QED  BY <1>1, <2>2, <2>3 DEF Frame, Spans
  <2>5. <<c.kind, c.from>> \in DueAnswer(k)
    BY <1>5, <2>4 DEF DueAnswer
  <2>6. DueAnswer(k)' = {"output", "resumeDone"} \X {Total - b}
    <3> HIDE DEF b
    <3> QED  BY <1>1, <1>4, <1>5 DEF DueAnswer
  <2>7. \A d \in DueAnswer(k)' : d[1] \in After(c.kind) /\ d[2] = c.to
    BY <2>2, <2>4, <2>6 DEF After
  <2>8. c.to <= Total
    BY <2>2, <2>4
  <2> HIDE DEF b, x, n
  <2> QED  BY <1>1, <1>3, <1>4, <1>5, <2>4, <2>5, <2>7, <2>8, AnswerStep
<1>6. CASE mode[k] = "replay"
  <2>1. c = [kind |-> "snapshot", epoch |-> epoch, from |-> Total,
             to |-> Total, size |-> n]
    <3> HIDE DEF n
    <3> QED  BY <1>6 DEF Chunk
  <2> HIDE DEF c, b
  <2>2. /\ c \in Frame /\ Spans(c) /\ c.epoch = epoch /\ c.kind = "snapshot"
        /\ c.from = Total /\ c.to = Total
    <3> HIDE DEF n
    <3> QED  BY <1>1, <1>3, <2>1 DEF Frame, Spans
  <2>3. <<c.kind, c.from>> \in DueAnswer(k)
    BY <1>1, <1>6, <2>2 DEF DueAnswer
  <2>4. \A d \in DueAnswer(k)' : d[1] \in After(c.kind) /\ d[2] = c.to
    BY <1>1, <1>6, <2>2 DEF DueAnswer, After
  <2> HIDE DEF n
  <2> QED  BY <1>1, <1>3, <1>4, <1>6, <2>2, <2>3, <2>4, AnswerStep
<1> QED  BY <1>2, <1>5, <1>6

LEMMA SendMarkerStep ==
    ASSUME IInv, NEW k \in Conns, SendMarker(k)
    PROVE  IInv' /\ Smooth
<1> DEFINE kind == IF mode[k] = "resume" THEN "resumeDone" ELSE "replayDone"
           f == [kind |-> kind, epoch |-> epoch, from |-> Total, to |-> Total,
                 size |-> MarkerSize]
<1>1. /\ TypeOK /\ ConnInv(k) /\ Total' = Total /\ Total \in Nat
      /\ epoch \in Epochs
      /\ pc[k] = "filling" /\ left[k] = 0
      /\ UNCHANGED <<epoch, total, clients, reader, request, mode, left,
                     writing, wire, termVars>>
      /\ mode[k] \in {"plain", "resume", "replay"}
      /\ left \in [Conns -> Nat]
  BY TotalTyped DEF IInv, SendMarker, Total, TypeOK
<1>2. CASE mode[k] = "plain"
  <2>1. pc' = [pc EXCEPT ![k] = "inserting"] /\ UNCHANGED <<queue, lock>>
    BY <1>2 DEF SendMarker
  <2>2. TypeOK'
    BY <1>1, <2>1 DEF TypeOK, termVars
  <2>3. pc'[k] = "inserting" /\ OthersAlone(k)
    BY <1>1, <2>1 DEF OthersAlone, TypeOK
  <2>4. ConnInv(k)'
    BY <1>1, <2>1, <2>3 DEF ConnInv
  <2>5. Kept(k)
    <3>1. Stream(k)' = Stream(k)
      BY <1>1, <2>1 DEF Stream
    <3>2. Due(k)' \subseteq Due(k)
      BY <1>1, <1>2, <2>1, <2>3 DEF Due, DueAnswer
    <3> QED  BY <1>1, <2>3, <3>1, <3>2 DEF Kept, StillAsked
  <2> QED  BY <1>1, <2>1, <2>2, <2>3, <2>4, <2>5, ConnStep
<1>3. CASE mode[k] # "plain"
  <2>1. Answer(k, f, "inserting")
    BY <1>3 DEF SendMarker
  <2>2. kind \in {"resumeDone", "replayDone"}
    OBVIOUS
  <2>3. <<kind, Total>> \in DueAnswer(k)
    <3>1. CASE mode[k] = "resume"
      <4>1. Total - left[k] = Total
        BY <1>1
      <4> QED  BY <3>1, <4>1 DEF DueAnswer
    <3>2. CASE mode[k] = "replay"
      BY <1>1, <3>2 DEF DueAnswer
    <3> QED  BY <1>1, <1>3, <3>1, <3>2
  <2> HIDE DEF kind
  <2>4. /\ f \in Frame /\ Spans(f) /\ f.epoch = epoch /\ f.kind = kind
        /\ f.from = Total /\ f.to = Total
    BY <1>1, <2>2, SessionAssumption DEF Frame, Spans
  <2> HIDE DEF f
  <2>5. "output" \in After(f.kind)
    BY <2>2, <2>4 DEF After
  <2>6. left[k] <= left[k]
    BY <1>1
  <2> QED  BY <1>1, <1>3, <2>1, <2>3, <2>4, <2>5, <2>6, AnswerStep
<1> QED  BY <1>2, <1>3

-----------------------------------------------------------------------------
\* Masters and terminals come and go.
LEMMA ReplacedStep ==
    ASSUME IInv, NEW seed \in Seeds, Replaced(seed)
    PROVE  IInv' /\ Smooth
<1>1. /\ TypeOK /\ epoch < MaxEpoch /\ epoch' = epoch + 1
      /\ total' = [total EXCEPT ![epoch + 1] = seed]
      /\ lock' = None /\ clients' = {} /\ reader' = Idle
      /\ pc' = [k \in Conns |-> IF pc[k] = "unused" THEN "unused" ELSE "gone"]
      /\ queue' = [k \in Conns |-> IF pc[k] = "unused" THEN queue[k]
                                   ELSE Closed(queue[k])]
      /\ writing' = [k \in Conns |-> <<>>]
      /\ UNCHANGED <<request, mode, left, wire, termVars>>
  BY DEF IInv, Replaced
<1>2. epoch' \in Epochs
  BY <1>1, SessionAssumption DEF TypeOK, Epochs
<1>3. ASSUME NEW k \in Conns
      PROVE  /\ queue[k] \in Queues /\ writing'[k] = <<>>
             /\ pc[k] = "unused" => pc'[k] = "unused" /\ queue'[k] = queue[k]
             /\ pc[k] # "unused" =>
                  pc'[k] = "gone" /\ queue'[k] = Closed(queue[k])
  BY <1>1 DEF TypeOK, Queues
<1>4. ASSUME NEW q \in Queues
      PROVE  Closed(q) = [frames |-> <<>>, bytes |-> 0, closed |-> TRUE]
  BY DEF Closed
<1>5. TypeOK'
  <2>1. queue' \in [Conns -> Queues]
    <3>1. [frames |-> <<>>, bytes |-> 0, closed |-> TRUE] \in Queues
      BY DEF Queues
    <3>2. ASSUME NEW k \in Conns PROVE queue'[k] \in Queues
      <4>1. Closed(queue[k]) \in Queues
        BY <1>3, <1>4, <3>1
      <4> QED  BY <1>3, <4>1
    <3> QED  BY <1>1, <3>2
  <2>2. total' \in [Epochs -> Nat]
    BY <1>1, SessionAssumption DEF TypeOK
  <2>3. pc' \in [Conns -> {"unused", "handshake", "filling", "inserting",
                           "attached", "leaving", "closing", "gone"}]
    BY <1>1
  <2>4. reader' \in [pc : {"idle", "sending", "removing"},
                     todo : SUBSET Conns, failed : SUBSET Conns, from : Nat]
    BY <1>1 DEF Idle
  <2>5. writing' \in [Conns -> Seq(Frame)]
    BY <1>1
  <2> QED  BY <1>1, <1>2, <2>1, <2>2, <2>3, <2>4, <2>5
           DEF TypeOK, termVars, Queues
<1>6. ReaderInv'
  BY <1>1 DEF ReaderInv, Idle
<1>7. ASSUME NEW k \in Conns PROVE ConnInv(k)'
  <2>1. ConnInv(k)
    BY DEF IInv
  <2>2. CASE pc[k] = "unused"
    BY <1>1, <1>3, <2>1, <2>2 DEF ConnInv
  <2>3. CASE pc[k] # "unused"
    BY <1>1, <1>3, <1>4, <2>3 DEF ConnInv
  <2> QED  BY <2>2, <2>3
<1>8. ASSUME NEW k \in Conns PROVE Cut(k)
  <2>1. queue'[k].frames = <<>> /\ Due(k)' = {} /\ pc'[k] \in {"unused", "gone"}
    <3>1. CASE pc[k] = "unused"
      <4>1. queue'[k] = EmptyQueue /\ pc'[k] = "unused" /\ k \notin clients'
        BY <1>1, <1>3, <3>1 DEF IInv, ConnInv
      <4> QED  BY <4>1 DEF Due, EmptyQueue
    <3>2. CASE pc[k] # "unused"
      <4>1. pc'[k] = "gone" /\ queue'[k].frames = <<>> /\ queue'[k].closed
        BY <1>3, <1>4, <3>2
      <4> QED  BY <4>1 DEF Due
    <3> QED  BY <3>1, <3>2
  <2>2. \E rest \in Seq(Frame) : Stream(k) = Stream(k)' \o rest
    BY <1>1, <1>3, <2>1, CloseMove
  <2>3. StillAsked(k)
    BY <1>3, <2>1 DEF StillAsked
  <2> QED  BY <2>1, <2>2, <2>3 DEF Cut
<1> QED  BY <1>1, <1>5, <1>6, <1>7, <1>8, MasterStep DEF IInv, Smooth

\* A terminal and its connection that a step leaves alone.
LEMMA ServesSame ==
    ASSUME NEW t \in Terminals, NEW k \in Conns, Serves(k, t),
           UNCHANGED masterVars,
           pc'[k] = pc[k], request'[k] = request[k],
           mode'[k] = mode[k], left'[k] = left[k],
           queue'[k] = queue[k], writing'[k] = writing[k], wire'[k] = wire[k],
           live'[t] = live[t], pending'[t] = pending[t], mark'[t] = mark[t]
    PROVE  Serves(k, t)'
<1> USE DEF masterVars
<1>1. View(t, k)' = View(t, k) /\ Stream(k)' = Stream(k)
  BY DEF View, Stream
<1>2. Total' = Total
  BY DEF Total
<1>3. DueAnswer(k)' = DueAnswer(k)
  BY <1>2 DEF DueAnswer
<1>4. Due(k)' = Due(k)
  BY <1>2, <1>3 DEF Due
<1>5. Unanswered(t, k)'
  BY DEF Serves, Unanswered
<1> QED  BY <1>1, <1>4, <1>5 DEF Serves

LEMMA DialStep ==
    ASSUME IInv, NEW t \in Terminals, NEW k \in Conns, NEW replay \in BOOLEAN,
           NEW resume, Dial(t, k, replay, resume)
    PROVE  IInv'
<1> USE DEF masterVars, channelVars
<1>1. /\ TypeOK /\ ConnInv(k) /\ ReaderInv /\ Total' = Total
      /\ link[t] = None /\ pc[k] = "unused" /\ resume \in {None, mark[t]}
      /\ pc' = [pc EXCEPT ![k] = "handshake"]
      /\ request' = [request EXCEPT ![k] =
                       [replay |-> replay, resume |-> resume]]
      /\ link' = [link EXCEPT ![t] = k]
      /\ UNCHANGED <<masterVars, mode, left, channelVars, live, pending,
                     screen, mark>>
  BY DEF IInv, Dial, Total
<1>2. TypeOK'
  <2> DEFINE asked == [replay |-> replay, resume |-> resume]
  <2>1. asked \in [replay : BOOLEAN, resume : Position \cup {None}]
    BY <1>1 DEF TypeOK
  <2>2. request' = [request EXCEPT ![k] = asked]
    BY <1>1
  <2> HIDE DEF asked
  <2>3. request' \in [Conns -> [replay : BOOLEAN, resume : Position \cup {None}]]
    BY <1>1, <2>1, <2>2 DEF TypeOK
  <2>4. pc' \in [Conns -> {"unused", "handshake", "filling", "inserting",
                           "attached", "leaving", "closing", "gone"}]
    BY <1>1 DEF TypeOK
  <2>5. link' \in [Terminals -> Conns \cup {None}]
    BY <1>1 DEF TypeOK
  <2> QED  BY <1>1, <2>3, <2>4, <2>5 DEF TypeOK
<1>3. /\ pc'[k] = "handshake" /\ \A j \in Conns \ {k} : pc'[j] = pc[j]
      /\ request'[k].resume = resume
      /\ \A j \in Conns \ {k} : request'[j] = request[j]
      /\ link'[t] = k /\ \A u \in Terminals \ {t} : link'[u] = link[u]
  BY <1>1 DEF TypeOK
<1>4. \A u \in Terminals : link[u] # k
  BY <1>1 DEF IInv, TerminalInv, Serves
<1>5. ReaderInv'
  BY <1>1 DEF ReaderInv
<1>6. ASSUME NEW j \in Conns PROVE ConnInv(j)'
  <2>1. ConnInv(j)
    BY DEF IInv
  <2>2. CASE j = k
    BY <1>1, <1>3, <2>1, <2>2 DEF ConnInv
  <2>3. CASE j # k
    BY <1>1, <1>3, <2>1, <2>3 DEF ConnInv
  <2> QED  BY <2>2, <2>3
<1>7. OneEach'
  <2> SUFFICES ASSUME NEW u \in Terminals, NEW w \in Terminals,
                      link'[u] = link'[w], link'[u] # None
               PROVE  u = w
    BY DEF OneEach
  <2>1. u = t <=> w = t
    BY <1>3, <1>4
  <2> QED  BY <1>3, <2>1 DEF IInv, OneEach
<1>8. ScreensInv' /\ TerminalExact'
  <2>1. ScreensInv'
    BY <1>1 DEF IInv, ScreensInv
  <2>2. TerminalExact'
    BY <1>1 DEF IInv, TerminalExact
  <2> QED  BY <2>1, <2>2
<1>9. Serves(k, t)'
  <2> DEFINE v == View(t, k)'
  <2>1. ~live[t] /\ pending[t] = NothingPending
    BY <1>1 DEF IInv, TerminalInv
  <2>2. v.live = FALSE /\ v.base = None /\ v.bytes = <<>> /\ v.mode = "plain"
    <3>1. live'[t] = FALSE
      BY <1>1, <2>1 DEF TypeOK
    <3>2. pending'[t].base = None /\ pending'[t].bytes = <<>>
      BY <1>1, <2>1 DEF NothingPending
    <3>3. mode'[k] = "plain"
      BY <1>1 DEF ConnInv
    <3> QED  BY <3>1, <3>2, <3>3 DEF View
  <2> HIDE DEF v
  <2>3. Received(v) /\ Fitting(v, <<>>)
    BY <2>2 DEF Received, Fitting
  <2>4. Stream(k)' = <<>>
    <3>1. /\ wire'[k] = <<>> /\ writing'[k] = <<>> /\ queue'[k].frames = <<>>
      BY <1>1 DEF ConnInv, EmptyQueue
    <3> QED  BY <3>1 DEF Stream
  <2>5. Due(k)' = {}
    BY <1>1, <1>3 DEF Due, ConnInv
  <2>6. Unanswered(t, k)'
    <3>1. ~live'[t] /\ pending'[t] = NothingPending
      BY <1>1, <2>1
    <3>2. request'[k].resume # None => request'[k].resume = mark'[t]
      BY <1>1, <1>3
    <3> QED  BY <3>1, <3>2 DEF Unanswered, NothingPending
  <2>7. (pc[k] # "unused")'
    BY <1>3
  <2> QED  BY <2>3, <2>4, <2>5, <2>6, <2>7 DEF Serves, v
<1>10. TerminalInv'
  <2>1. ASSUME NEW u \in Terminals, link'[u] = None
        PROVE  ~live'[u] /\ pending'[u] = NothingPending
    <3>1. link[u] = None
      BY <1>1, <1>3, <2>1
    <3> QED  BY <1>1, <3>1 DEF IInv, TerminalInv
  <2>2. ASSUME NEW u \in Terminals, NEW j \in Conns, link'[u] = j
        PROVE  Serves(j, u)'
    <3>1. CASE u = t
      BY <1>3, <1>9, <2>2, <3>1
    <3>2. CASE u # t
      <4>1. link[u] = j /\ j # k
        BY <1>3, <1>4, <2>2, <3>2
      <4>2. Serves(j, u)
        BY <4>1 DEF IInv, TerminalInv
      <4>3. pc'[j] = pc[j] /\ request'[j] = request[j]
        BY <1>3, <4>1
      <4> QED  BY <1>1, <4>2, <4>3, ServesSame
    <3> QED  BY <3>1, <3>2
  <2> QED  BY <2>1, <2>2 DEF TerminalInv, NothingPending
<1> QED  BY <1>2, <1>5, <1>6, <1>7, <1>8, <1>10 DEF IInv

LEMMA UnlinkStep ==
    ASSUME IInv, NEW t \in Terminals, Unlink(t)
    PROVE  IInv'
<1> USE DEF masterVars, connVars
<1>1. PICK k \in Conns : link[t] = k
  BY DEF IInv, TypeOK, Unlink
<1>2. /\ TypeOK /\ ReaderInv /\ Total' = Total
      /\ link' = [link EXCEPT ![t] = None]
      /\ live' = [live EXCEPT ![t] = FALSE]
      /\ pending' = [pending EXCEPT ![t] = NothingPending]
      /\ wire' = [wire EXCEPT ![k] = <<>>]
      /\ UNCHANGED <<masterVars, connVars, queue, writing, screen, mark>>
  BY <1>1 DEF IInv, Unlink, Total
<1>3. TypeOK'
  <2>1. NothingPending \in [base : Nat \cup {None}, bytes : Seq(Byte)]
    BY DEF NothingPending
  <2>2. pending' \in [Terminals -> [base : Nat \cup {None}, bytes : Seq(Byte)]]
    BY <1>2, <2>1 DEF TypeOK
  <2>3. wire' \in [Conns -> Seq(Frame)]
    BY <1>2 DEF TypeOK
  <2>4. link' \in [Terminals -> Conns \cup {None}]
    BY <1>2 DEF TypeOK
  <2>5. live' \in [Terminals -> BOOLEAN]
    BY <1>2 DEF TypeOK
  <2> QED  BY <1>2, <2>2, <2>3, <2>4, <2>5 DEF TypeOK
<1>4. /\ wire'[k] = <<>> /\ \A j \in Conns \ {k} : wire'[j] = wire[j]
      /\ link'[t] = None /\ live'[t] = FALSE /\ pending'[t] = NothingPending
      /\ \A u \in Terminals \ {t} : /\ link'[u] = link[u] /\ live'[u] = live[u]
                                   /\ pending'[u] = pending[u]
  BY <1>2 DEF TypeOK
<1>5. ReaderInv'
  BY <1>2 DEF ReaderInv
<1>6. ASSUME NEW j \in Conns PROVE ConnInv(j)'
  <2>1. ConnInv(j)
    BY DEF IInv
  <2>2. wire[j] = <<>> => wire'[j] = <<>>
    BY <1>4
  <2> QED  BY <1>2, <2>1, <2>2 DEF ConnInv
<1>7. OneEach' /\ ScreensInv' /\ TerminalExact'
  <2>1. OneEach'
    BY <1>4 DEF IInv, OneEach
  <2>2. ScreensInv'
    BY <1>2 DEF IInv, ScreensInv
  <2>3. TerminalExact'
    BY <1>2 DEF IInv, TerminalExact
  <2> QED  BY <2>1, <2>2, <2>3
<1>8. TerminalInv'
  <2>1. ASSUME NEW u \in Terminals, link'[u] = None
        PROVE  ~live'[u] /\ pending'[u] = NothingPending
    <3>1. CASE u = t
      BY <1>4, <3>1
    <3>2. CASE u # t
      BY <1>4, <2>1, <3>2 DEF IInv, TerminalInv
    <3> QED  BY <3>1, <3>2
  <2>2. ASSUME NEW u \in Terminals, NEW j \in Conns, link'[u] = j
        PROVE  Serves(j, u)'
    <3>1. u # t
      BY <1>4, <2>2, NoConnIsReader
    <3>2. link[u] = j /\ live'[u] = live[u] /\ pending'[u] = pending[u]
      BY <1>4, <2>2, <3>1
    <3>3. Serves(j, u)
      BY <3>2 DEF IInv, TerminalInv
    <3>4. j # k
      BY <1>1, <3>1, <3>2, NoConnIsReader DEF IInv, OneEach
    <3>5. wire'[j] = wire[j]
      BY <1>4, <3>4
    <3> QED  BY <1>2, <3>2, <3>3, <3>5, ServesSame
  <2> QED  BY <2>1, <2>2 DEF TerminalInv, NothingPending
<1> QED  BY <1>2, <1>3, <1>5, <1>6, <1>7, <1>8 DEF IInv

-----------------------------------------------------------------------------
\* A terminal reads a frame. What TerminalExact says of one terminal:
Exact(s, m) ==
    IF s = None
    THEN m = None
    ELSE /\ m = EndOf(s)
         /\ \A i \in 1..Len(s.bytes) : s.bytes[i] = <<s.epoch, s.base + i>>

\* Bytes that come next leave a screen exact.
LEMMA ExtendScreen ==
    ASSUME NEW s \in Screen, NEW m, Exact(s, m), NEW b \in Seq(Byte),
           \A i \in 1..Len(b) : b[i] = <<m.epoch, m.offset + i>>
    PROVE  /\ [s EXCEPT !.bytes = s.bytes \o b] \in Screen
           /\ m.offset \in Nat /\ m.epoch \in Epochs
           /\ m.offset + Len(b) \in Nat
           /\ Exact([s EXCEPT !.bytes = s.bytes \o b],
                    [epoch |-> m.epoch, offset |-> m.offset + Len(b)])
<1> DEFINE a == s.bytes
           w == a \o b
           z == [s EXCEPT !.bytes = w]
           la == Len(a)
           lb == Len(b)
           n == m.offset + lb
<1>1. /\ s = [epoch |-> s.epoch, base |-> s.base, bytes |-> a]
      /\ s.epoch \in Epochs /\ s.base \in Nat /\ a \in Seq(Byte)
  BY DEF Screen
<1>2. s # None
  BY NoneAssumption
<1>3. m = [epoch |-> s.epoch, offset |-> s.base + la]
  BY <1>2 DEF Exact, EndOf
<1>4. la \in Nat /\ lb \in Nat
  BY <1>1, LenProperties
<1>5. /\ w \in Seq(Byte) /\ Len(w) = la + lb
      /\ \A i \in 1 .. la + lb : w[i] = IF i <= la THEN a[i] ELSE b[i - la]
  <2> HIDE DEF a
  <2> QED  BY <1>1, ConcatProperties
<1>6. z \in Screen /\ z.epoch = s.epoch /\ z.base = s.base /\ z.bytes = w
  <2> HIDE DEF w
  <2> QED  BY <1>5 DEF Screen
<1> DEFINE o == s.base + la
<1>7. m.epoch = s.epoch /\ m.offset = o /\ o \in Nat /\ n \in Nat
  BY <1>1, <1>3, <1>4
<1>8. s.base + Len(w) = n
  <2> DEFINE x == s.base
  <2>1. x \in Nat /\ o = x + la /\ n = o + lb
    BY <1>1, <1>7
  <2> HIDE DEF w, x, o, n, la, lb
  <2>2. x + Len(w) = n
    BY <1>4, <1>5, <2>1
  <2> QED  BY <2>2 DEF x
<1>9. \A i \in 1..Len(w) : w[i] = <<s.epoch, s.base + i>>
  <2> TAKE i \in 1..Len(w)
  <2>1. \A j \in 1..la : a[j] = <<s.epoch, s.base + j>>
    BY <1>2 DEF Exact
  <2>2. \A j \in 1..lb : b[j] = <<s.epoch, o + j>>
    BY <1>7
  <2> DEFINE x == s.base
  <2>3. x \in Nat /\ o = x + la
    BY <1>1
  <2> HIDE DEF w, x, o, la, lb
  <2>4. i \in 1 .. la + lb
    BY <1>5
  <2>5. CASE i <= la
    <3>1. i \in 1..la /\ w[i] = a[i]
      BY <1>4, <1>5, <2>4, <2>5
    <3> QED  BY <2>1, <3>1
  <2>6. CASE ~(i <= la)
    <3>1. i - la \in 1..lb /\ w[i] = b[i - la]
      BY <1>4, <1>5, <2>4, <2>6
    <3>2. o + (i - la) = x + i
      BY <1>4, <2>3, <2>4
    <3>3. b[i - la] = <<s.epoch, o + (i - la)>>
      BY <2>2, <3>1
    <3> QED  BY <3>1, <3>2, <3>3 DEF x
  <2> QED  BY <2>5, <2>6
<1>10. z # None
  BY <1>6, NoneAssumption
<1> HIDE DEF z
<1>11. [epoch |-> m.epoch, offset |-> n] = EndOf(z)
  BY <1>6, <1>7, <1>8 DEF EndOf
<1>12. Exact(z, [epoch |-> m.epoch, offset |-> n])
  BY <1>6, <1>9, <1>10, <1>11 DEF Exact
<1> QED  BY <1>1, <1>6, <1>7, <1>12 DEF z

\* The cases of ReadFrame, for the frame at the front.
ReadCase(t, f) ==
    \/ /\ f.kind = "snapshot"
       /\ pending' = [pending EXCEPT ![t].base = f.from]
       /\ UNCHANGED <<live, screen, mark>>
    \/ /\ f.kind = "output" /\ ~live[t]
       /\ pending' = [pending EXCEPT ![t].bytes = @ \o BytesOf(f)]
       /\ UNCHANGED <<live, screen, mark>>
    \/ /\ f.kind = "output" /\ live[t]
       /\ screen' = [screen EXCEPT ![t].bytes = @ \o BytesOf(f)]
       /\ mark' = [mark EXCEPT ![t].offset = @ + (f.to - f.from)]
       /\ UNCHANGED <<live, pending>>
    \/ /\ f.kind = "replayDone"
       /\ screen' = [screen EXCEPT ![t] = [epoch |-> f.epoch,
                                           base |-> pending[t].base,
                                           bytes |-> pending[t].bytes]]
       /\ mark' = [mark EXCEPT ![t] = [epoch |-> f.epoch, offset |-> f.from]]
       /\ live' = [live EXCEPT ![t] = TRUE]
       /\ pending' = [pending EXCEPT ![t] = NothingPending]
    \/ /\ f.kind = "resumeDone"
       /\ screen' = [screen EXCEPT ![t].bytes = @ \o pending[t].bytes]
       /\ mark' = [mark EXCEPT ![t] = [epoch |-> f.epoch, offset |-> f.from]]
       /\ live' = [live EXCEPT ![t] = TRUE]
       /\ pending' = [pending EXCEPT ![t] = NothingPending]

\* What the case leaves behind, of the types and of the terminal.
Taken(t, v, u, f) ==
    /\ live' \in [Terminals -> BOOLEAN]
    /\ pending' \in [Terminals -> [base : Nat \cup {None}, bytes : Seq(Byte)]]
    /\ screen' \in [Terminals -> Screen \cup {None}]
    /\ mark' \in [Terminals -> Position \cup {None}]
    /\ \A w \in Terminals \ {t} :
         /\ live'[w] = live[w] /\ pending'[w] = pending[w]
         /\ screen'[w] = screen[w] /\ mark'[w] = mark[w]
    /\ Exact(screen'[t], mark'[t])
    /\ screen'[t] = None <=> mark'[t] = None
    /\ Prepared(v, u, f)

LEMMA ReadCases ==
    ASSUME NEW t \in Terminals, ReadFrame(t), NEW f, f = Head(wire[link[t]]),
           f.kind \in {"output", "snapshot", "replayDone", "resumeDone"}
    PROVE  ReadCase(t, f)
<1>1. CASE f.kind = "snapshot"
  BY <1>1 DEF ReadFrame, ReadCase
<1>2. CASE f.kind = "output" /\ ~live[t]
  BY <1>2 DEF ReadFrame, ReadCase
<1>3. CASE f.kind = "output" /\ live[t]
  BY <1>3 DEF ReadFrame, ReadCase
<1>4. CASE f.kind = "replayDone"
  BY <1>4 DEF ReadFrame, ReadCase
<1>5. CASE f.kind = "resumeDone"
  BY <1>5 DEF ReadFrame, ReadCase
<1> QED  BY <1>1, <1>2, <1>3, <1>4, <1>5

LEMMA ViewTyped ==
    ASSUME TypeOK, NEW t \in Terminals, NEW k \in Conns
    PROVE  /\ View(t, k) \in Views
           /\ View(t, k).live = live[t] /\ View(t, k).base = pending[t].base
           /\ View(t, k).bytes = pending[t].bytes
           /\ View(t, k).mark = mark[t] /\ View(t, k).mode = mode[k]
<1>1. /\ live[t] \in BOOLEAN /\ mark[t] \in Position \cup {None}
      /\ pending[t].base \in Nat \cup {None}
      /\ pending[t].bytes \in Seq(Byte)
      /\ mode[k] \in {"plain", "resume", "replay"}
  BY DEF TypeOK
<1> QED  BY <1>1 DEF View, Views

LEMMA ReadTakes ==
    ASSUME TypeOK, NEW t \in Terminals, NEW k \in Conns, NEW f \in Frame,
           ReadCase(t, f), mode' = mode,
           Exact(screen[t], mark[t]), screen[t] = None <=> mark[t] = None,
           Received(View(t, k)), Spans(f), f.kind \in Ready(View(t, k)),
           Reaches(View(t, k), f.epoch, f.from)
    PROVE  Taken(t, View(t, k), View(t, k)', f)
<1> DEFINE v == View(t, k)
           u == View(t, k)'
           p == [epoch |-> f.epoch, offset |-> f.from]
<1>1. /\ v \in Views /\ v.live = live[t] /\ v.base = pending[t].base
      /\ v.bytes = pending[t].bytes /\ v.mark = mark[t] /\ v.mode = mode[k]
  BY ViewTyped
<1>2. /\ live \in [Terminals -> BOOLEAN]
      /\ pending \in [Terminals -> [base : Nat \cup {None}, bytes : Seq(Byte)]]
      /\ screen \in [Terminals -> Screen \cup {None}]
      /\ mark \in [Terminals -> Position \cup {None}]
      /\ mode[k] \in {"plain", "resume", "replay"}
  BY DEF TypeOK
<1>3. u = [live |-> live'[t], base |-> pending'[t].base,
           bytes |-> pending'[t].bytes, mark |-> mark'[t], mode |-> mode[k]]
  BY DEF View
<1>4. v = [live |-> live[t], base |-> pending[t].base,
           bytes |-> pending[t].bytes, mark |-> mark[t], mode |-> mode[k]]
  BY DEF View
<1>5. /\ Received(v) /\ Spans(f) /\ f.kind \in Ready(v)
      /\ Reaches(v, f.epoch, f.from)
      /\ Exact(screen[t], mark[t]) /\ (screen[t] = None <=> mark[t] = None)
  OBVIOUS
<1>6. /\ f.epoch \in Epochs /\ f.from \in Nat /\ f.to \in Nat
      /\ f.kind \in {"output", "snapshot", "replayDone", "resumeDone"}
      /\ p \in Position /\ p # None
  BY FrameFields, NoneAssumption DEF Position
<1>7. NothingPending \in [base : Nat \cup {None}, bytes : Seq(Byte)]
      /\ NothingPending.base = None /\ NothingPending.bytes = <<>>
  BY DEF NothingPending
<1> HIDE DEF v, u
<1>8. CASE /\ f.kind = "snapshot"
           /\ pending' = [pending EXCEPT ![t].base = f.from]
           /\ UNCHANGED <<live, screen, mark>>
  <2>1. /\ pending' \in [Terminals -> [base : Nat \cup {None},
                                       bytes : Seq(Byte)]]
        /\ \A w \in Terminals \ {t} : pending'[w] = pending[w]
        /\ pending'[t].base = f.from /\ pending'[t].bytes = pending[t].bytes
    BY <1>2, <1>6, <1>8
  <2>2. u = [v EXCEPT !.base = f.from]
    BY <1>3, <1>4, <1>8, <2>1
  <2>3. u \in Views
    BY <1>1, <1>6, <2>2 DEF Views
  <2>4. Prepared(v, u, f)
    BY <1>1, <1>5, <1>8, <2>2, <2>3, TakeSnapshot
  <2> QED  BY <1>2, <1>5, <1>8, <2>1, <2>4 DEF Taken, v, u
<1>9. CASE /\ f.kind = "output" /\ ~live[t]
           /\ pending' = [pending EXCEPT ![t].bytes = @ \o BytesOf(f)]
           /\ UNCHANGED <<live, screen, mark>>
  <2> DEFINE b == v.bytes \o BytesOf(f)
  <2>1. b \in Seq(Byte)
    <3>1. v.bytes \in Seq(Byte)
      BY <1>1 DEF Views
    <3> QED  BY <1>5, <3>1, BytesOfFrame, ConcatProperties
  <2>2. pending' = [pending EXCEPT ![t].bytes = b]
    BY <1>1, <1>2, <1>9
  <2> HIDE DEF b
  <2>3. /\ pending' \in [Terminals -> [base : Nat \cup {None},
                                       bytes : Seq(Byte)]]
        /\ \A w \in Terminals \ {t} : pending'[w] = pending[w]
        /\ pending'[t].base = pending[t].base /\ pending'[t].bytes = b
    BY <1>2, <2>1, <2>2
  <2>4. u = [v EXCEPT !.bytes = b]
    <3>1. live' = live /\ mark' = mark
      BY <1>9
    <3> QED  BY <1>3, <1>4, <2>3, <3>1
  <2>5. u \in Views
    BY <1>1, <2>1, <2>4 DEF Views
  <2>6. Prepared(v, u, f)
    BY <1>1, <1>5, <1>9, <2>4, <2>5, TakeOutputHeld DEF b
  <2> QED  BY <1>2, <1>5, <1>9, <2>3, <2>6 DEF Taken, v, u
<1>10. CASE /\ f.kind = "output" /\ live[t]
            /\ screen' = [screen EXCEPT ![t].bytes = @ \o BytesOf(f)]
            /\ mark' = [mark EXCEPT ![t].offset = @ + (f.to - f.from)]
            /\ UNCHANGED <<live, pending>>
  <2> DEFINE s == screen[t]
             m == mark[t]
             d == f.to - f.from
             b == BytesOf(f)
             z == [s EXCEPT !.bytes = s.bytes \o b]
             q == [epoch |-> m.epoch, offset |-> m.offset + d]
  <2>1. /\ m.epoch = f.epoch /\ m.offset = f.from /\ m # None
        /\ s # None /\ s \in Screen /\ m \in Position
    BY <1>1, <1>2, <1>5, <1>10 DEF Reaches, Received
  <2>2. b \in Seq(Byte) /\ Len(b) = d /\ \A i \in 1..d : b[i] = <<m.epoch, m.offset + i>>
    BY <1>5, <2>1, BytesOfFrame
  <2>3. /\ z \in Screen /\ m.offset + Len(b) \in Nat /\ m.epoch \in Epochs
        /\ Exact(z, [epoch |-> m.epoch, offset |-> m.offset + Len(b)])
    <3> HIDE DEF s, m, b, d
    <3>1. Exact(s, m)
      BY <1>5 DEF s, m
    <3> QED  BY <2>1, <2>2, <3>1, ExtendScreen
  <2>4. Exact(z, q) /\ m.offset + d \in Nat
    BY <2>2, <2>3
  <2>5. q \in Position
    <3> HIDE DEF d
    <3> QED  BY <2>3, <2>4 DEF Position
  <2>6. screen' = [screen EXCEPT ![t] = z] /\ mark' = [mark EXCEPT ![t] = q]
    <3>1. mark' = [mark EXCEPT ![t] = [m EXCEPT !.offset = m.offset + d]]
      BY <1>2, <1>10
    <3>2. [m EXCEPT !.offset = m.offset + d] = q
      <4>1. m = [epoch |-> m.epoch, offset |-> m.offset]
        BY <2>1 DEF Position
      <4> HIDE DEF m, d
      <4> QED  BY <4>1
    <3> QED  BY <1>2, <1>10, <3>1, <3>2
  <2> HIDE DEF z, q
  <2>7. /\ screen' \in [Terminals -> Screen \cup {None}]
        /\ mark' \in [Terminals -> Position \cup {None}]
        /\ screen'[t] = z /\ mark'[t] = q
        /\ \A w \in Terminals \ {t} : screen'[w] = screen[w] /\ mark'[w] = mark[w]
    BY <1>2, <2>3, <2>5, <2>6
  <2>8. z # None /\ q # None
    BY <2>3, <2>5, NoneAssumption
  <2>9. u = [v EXCEPT !.mark = q]
    <3>1. live' = live /\ pending' = pending /\ mark'[t] = q
      BY <1>10, <2>7
    <3> QED  BY <1>3, <1>4, <3>1
  <2>10. u \in Views
    BY <1>1, <2>5, <2>9 DEF Views
  <2>11. v.live /\ q = [epoch |-> v.mark.epoch,
                        offset |-> v.mark.offset + (f.to - f.from)]
    BY <1>1, <1>10 DEF q
  <2>12. Prepared(v, u, f)
    BY <1>1, <1>5, <1>10, <2>9, <2>10, <2>11, TakeOutputLive
  <2> QED  BY <1>2, <1>10, <2>4, <2>7, <2>8, <2>12 DEF Taken, v, u
<1>11. CASE /\ f.kind = "replayDone"
            /\ screen' = [screen EXCEPT ![t] = [epoch |-> f.epoch,
                                                base |-> pending[t].base,
                                                bytes |-> pending[t].bytes]]
            /\ mark' = [mark EXCEPT ![t] = p]
            /\ live' = [live EXCEPT ![t] = TRUE]
            /\ pending' = [pending EXCEPT ![t] = NothingPending]
  <2> DEFINE z == [epoch |-> f.epoch, base |-> f.from, bytes |-> <<>>]
  <2>1. pending[t].base = f.from /\ pending[t].bytes = <<>>
    <3>1. v.base # None
      BY <1>5, <1>11 DEF Ready
    <3> QED  BY <1>1, <1>5, <3>1 DEF Reaches, Received
  <2>2. screen' = [screen EXCEPT ![t] = z]
    BY <1>11, <2>1
  <2>3. /\ z \in Screen /\ z # None /\ z.epoch = f.epoch /\ z.base = f.from
        /\ z.bytes = <<>> /\ Len(z.bytes) = 0
    <3>1. z \in Screen
      BY <1>6 DEF Screen
    <3>2. z # None
      BY <3>1, NoneAssumption
    <3> QED  BY <3>1, <3>2
  <2> HIDE DEF z
  <2>4. Exact(z, p)
    <3>1. EndOf(z) = p
      BY <1>6, <2>3 DEF EndOf
    <3> QED  BY <2>3, <3>1 DEF Exact
  <2> HIDE DEF p
  <2>5. /\ screen' \in [Terminals -> Screen \cup {None}]
        /\ mark' \in [Terminals -> Position \cup {None}]
        /\ live' \in [Terminals -> BOOLEAN]
        /\ pending' \in [Terminals -> [base : Nat \cup {None},
                                       bytes : Seq(Byte)]]
        /\ screen'[t] = z /\ mark'[t] = p /\ live'[t] = TRUE
        /\ pending'[t] = NothingPending
        /\ \A w \in Terminals \ {t} :
             /\ live'[w] = live[w] /\ pending'[w] = pending[w]
             /\ screen'[w] = screen[w] /\ mark'[w] = mark[w]
    BY <1>2, <1>6, <1>7, <1>11, <2>2, <2>3
  <2>6. u = [live |-> TRUE, base |-> None, bytes |-> <<>>, mark |-> p,
             mode |-> mode[k]]
    BY <1>3, <1>7, <2>5
  <2>7. u \in Views
    BY <1>2, <1>6, <2>6 DEF Views
  <2>8. Prepared(v, u, f)
    BY <1>1, <1>5, <1>11, <2>6, <2>7, TakeMarker DEF p
  <2> QED  BY <1>6, <2>3, <2>4, <2>5, <2>8 DEF Taken, v, u
<1>12. CASE /\ f.kind = "resumeDone"
            /\ screen' = [screen EXCEPT ![t].bytes = @ \o pending[t].bytes]
            /\ mark' = [mark EXCEPT ![t] = p]
            /\ live' = [live EXCEPT ![t] = TRUE]
            /\ pending' = [pending EXCEPT ![t] = NothingPending]
  <2> DEFINE s == screen[t]
             m == mark[t]
             b == pending[t].bytes
             z == [s EXCEPT !.bytes = s.bytes \o b]
  <2>1. b \in Seq(Byte) /\ m \in Position \cup {None}
    BY <1>2
  <2>2. /\ m # None /\ m.epoch = f.epoch /\ m.offset + Len(b) = f.from
        /\ \A i \in 1..Len(b) : b[i] = <<m.epoch, m.offset + i>>
    <3>1. CASE v.live
      <4>1. /\ m # None /\ m.epoch = f.epoch /\ m.offset = f.from
            /\ b = <<>>
        BY <1>1, <1>5, <3>1 DEF Received, Reaches
      <4>2. Len(b) = 0 /\ f.from + 0 = f.from
        BY <1>6, <4>1
      <4> QED  BY <4>1, <4>2
    <3>2. CASE ~v.live
      <4>1. v.mode = "resume"
        BY <1>5, <1>12, <3>2 DEF Ready
      <4> QED  BY <1>1, <1>5, <3>2, <4>1 DEF Received, Reaches
    <3> QED  BY <3>1, <3>2
  <2>3. s # None /\ s \in Screen
    BY <1>2, <1>5, <2>2
  <2>4. /\ z \in Screen
        /\ Exact(z, [epoch |-> m.epoch, offset |-> m.offset + Len(b)])
    <3>1. Exact(s, m)
      BY <1>5
    <3> HIDE DEF s, m, b
    <3> QED  BY <2>1, <2>2, <2>3, <3>1, ExtendScreen
  <2>5. Exact(z, p)
    BY <2>2, <2>4
  <2>6. screen' = [screen EXCEPT ![t] = z]
    BY <1>2, <1>12
  <2>7. z # None
    BY <2>4, NoneAssumption
  <2> HIDE DEF z, p
  <2>8. /\ screen' \in [Terminals -> Screen \cup {None}]
        /\ mark' \in [Terminals -> Position \cup {None}]
        /\ live' \in [Terminals -> BOOLEAN]
        /\ pending' \in [Terminals -> [base : Nat \cup {None},
                                       bytes : Seq(Byte)]]
        /\ screen'[t] = z /\ mark'[t] = p /\ live'[t] = TRUE
        /\ pending'[t] = NothingPending
        /\ \A w \in Terminals \ {t} :
             /\ live'[w] = live[w] /\ pending'[w] = pending[w]
             /\ screen'[w] = screen[w] /\ mark'[w] = mark[w]
    <3>1. /\ screen' \in [Terminals -> Screen \cup {None}] /\ screen'[t] = z
          /\ \A w \in Terminals \ {t} : screen'[w] = screen[w]
      BY <1>2, <2>4, <2>6
    <3>2. /\ mark' \in [Terminals -> Position \cup {None}] /\ mark'[t] = p
          /\ \A w \in Terminals \ {t} : mark'[w] = mark[w]
      BY <1>2, <1>6, <1>12
    <3>3. /\ live' \in [Terminals -> BOOLEAN] /\ live'[t] = TRUE
          /\ \A w \in Terminals \ {t} : live'[w] = live[w]
      BY <1>2, <1>12
    <3>4. /\ pending' \in [Terminals -> [base : Nat \cup {None},
                                        bytes : Seq(Byte)]]
          /\ pending'[t] = NothingPending
          /\ \A w \in Terminals \ {t} : pending'[w] = pending[w]
      BY <1>2, <1>7, <1>12
    <3> QED  BY <3>1, <3>2, <3>3, <3>4
  <2>9. u = [live |-> TRUE, base |-> None, bytes |-> <<>>, mark |-> p,
             mode |-> mode[k]]
    BY <1>3, <1>7, <2>8
  <2>10. u \in Views
    BY <1>2, <1>6, <2>9 DEF Views
  <2>11. Prepared(v, u, f)
    BY <1>1, <1>5, <1>12, <2>9, <2>10, TakeMarker DEF p
  <2> QED  BY <1>6, <2>5, <2>7, <2>8, <2>11 DEF Taken, v, u
<1> QED
  BY <1>8, <1>9, <1>10, <1>11, <1>12 DEF ReadCase, v, u

\* The frame a terminal reads, and what is on its way behind it.
Front(k) == Head(wire[k])
Behind(k) == (Tail(wire[k]) \o writing[k]) \o queue[k].frames

LEMMA FrontFrame ==
    ASSUME IInv, NEW t \in Terminals, NEW k \in Conns, link[t] = k,
           ReadFrame(t)
    PROVE  /\ Front(k) \in Frame /\ Behind(k) \in Seq(Frame)
           /\ Tail(wire[k]) \in Seq(Frame)
           /\ Stream(k) = <<Front(k)>> \o Behind(k)
           /\ Stream(k)' = Behind(k)
           /\ \A j \in Conns \ {k} : wire'[j] = wire[j]
           /\ wire' = [wire EXCEPT ![k] = Tail(wire[k])] /\ wire[k] # <<>>
           /\ UNCHANGED <<masterVars, connVars, queue, writing, link>>
           /\ ReadCase(t, Front(k))
           /\ Serves(k, t) /\ Spans(Front(k))
           /\ Front(k).kind \in Ready(View(t, k))
           /\ Reaches(View(t, k), Front(k).epoch, Front(k).from)
<1> DEFINE a == wire[k]
           f == Front(k)
           r == Behind(k)
           v == View(t, k)
<1>1. /\ TypeOK /\ a # <<>>
      /\ wire' = [wire EXCEPT ![k] = Tail(a)]
      /\ UNCHANGED <<masterVars, connVars, queue, writing, link>>
  BY DEF IInv, ReadFrame
<1>2. /\ a \in Seq(Frame) /\ f \in Frame /\ Tail(a) \in Seq(Frame)
      /\ writing[k] \in Seq(Frame) /\ queue[k].frames \in Seq(Frame)
      /\ r \in Seq(Frame)
  <2>1. /\ a \in Seq(Frame) /\ writing[k] \in Seq(Frame)
        /\ queue[k].frames \in Seq(Frame)
    BY <1>1, StreamTyped
  <2>2. f = Head(a) /\ r = (Tail(a) \o writing[k]) \o queue[k].frames
    BY DEF Front, Behind
  <2> HIDE DEF a, f, r
  <2>3. f \in Frame /\ Tail(a) \in Seq(Frame)
    BY <1>1, <2>1, <2>2, HeadTailProperties
  <2>4. Tail(a) \o writing[k] \in Seq(Frame)
    BY <2>1, <2>3, ConcatProperties
  <2> QED  BY <2>1, <2>2, <2>3, <2>4, ConcatProperties
<1>3. Stream(k) = <<f>> \o r
  <2> DEFINE w == writing[k]
             q == queue[k].frames
  <2>1. Stream(k) = (a \o w) \o q
    BY DEF Stream
  <2>2. a \in Seq(Frame) /\ w \in Seq(Frame) /\ q \in Seq(Frame) /\ a # <<>>
    BY <1>1, <1>2
  <2>3. f = Head(a) /\ r = (Tail(a) \o w) \o q
    BY DEF Front, Behind
  <2> HIDE DEF a, w, q, f, r
  <2>4. (a \o w) \o q = <<Head(a)>> \o ((Tail(a) \o w) \o q)
    BY <2>2, ReadMove
  <2> QED  BY <2>1, <2>3, <2>4
<1>4. wire'[k] = Tail(a) /\ \A j \in Conns \ {k} : wire'[j] = wire[j]
  BY <1>1 DEF TypeOK
<1>5. Stream(k)' = r
  BY <1>1, <1>4 DEF Stream, Behind
<1>6. Serves(k, t) /\ Fitting(v, <<f>> \o r)
  <2>1. Serves(k, t)
    BY DEF IInv, TerminalInv
  <2> QED  BY <1>3, <2>1 DEF Serves
<1>7. Spans(f) /\ f.kind \in Ready(v) /\ Reaches(v, f.epoch, f.from)
  <2> HIDE DEF v, f, r
  <2> QED  BY <1>2, <1>6, FrontOfFitting
<1>8. ReadCase(t, f)
  <2>1. f.kind \in {"output", "snapshot", "replayDone", "resumeDone"}
    BY <1>2, FrameFields
  <2>2. f = Head(wire[link[t]])
    BY DEF Front
  <2> QED  BY <2>1, <2>2, ReadCases
<1> HIDE DEF f, r, v
<1> QED  BY <1>1, <1>2, <1>3, <1>4, <1>5, <1>6, <1>7, <1>8 DEF f, r, v

LEMMA ReadFrameStep ==
    ASSUME IInv, NEW t \in Terminals, ReadFrame(t)
    PROVE  IInv'
<1> USE DEF masterVars, connVars
<1>0. PICK k \in Conns : link[t] = k
  BY DEF IInv, TypeOK, ReadFrame
<1> DEFINE a == wire[k]
           f == Front(k)
           r == Behind(k)
           v == View(t, k)
           u == View(t, k)'
<1>1. /\ TypeOK /\ ReaderInv /\ Total' = Total
      /\ a # <<>>
      /\ wire' = [wire EXCEPT ![k] = Tail(a)]
      /\ UNCHANGED <<masterVars, connVars, queue, writing, link>>
  BY <1>0, FrontFrame DEF IInv, Total
<1>2. /\ ConnInv(k) /\ Serves(k, t) /\ pc[k] \notin {"unused", "handshake"}
  <2>1. ConnInv(k) /\ Serves(k, t)
    BY <1>0 DEF IInv, TerminalInv
  <2> QED  BY <1>1, <2>1 DEF ConnInv
<1>3. /\ f \in Frame /\ Tail(a) \in Seq(Frame) /\ r \in Seq(Frame)
  BY <1>0, FrontFrame
<1>4. Stream(k) = <<f>> \o r /\ Stream(k)' = r
  BY <1>0, FrontFrame
<1>5. \A j \in Conns \ {k} : wire'[j] = wire[j]
  BY <1>0, FrontFrame
<1>6. Received(v) /\ Fitting(v, <<f>> \o r)
  BY <1>2, <1>4 DEF Serves
<1>7. Spans(f) /\ f.kind \in Ready(v) /\ Reaches(v, f.epoch, f.from)
  BY <1>0, FrontFrame
<1>8. Exact(screen[t], mark[t]) /\ (screen[t] = None <=> mark[t] = None)
  BY DEF IInv, TerminalExact, ScreensInv, Exact
<1>9. ReadCase(t, f)
  BY <1>0, FrontFrame
<1>10. Taken(t, v, u, f)
  <2>1. mode' = mode
    BY <1>1
  <2>2. TypeOK /\ f \in Frame
    BY <1>1, <1>3
  <2> HIDE DEF f
  <2> QED  BY <1>6, <1>7, <1>8, <1>9, <2>1, <2>2, ReadTakes
<1>11. TypeOK'
  <2>1. wire' \in [Conns -> Seq(Frame)]
    <3> HIDE DEF a
    <3> QED  BY <1>1, <1>3 DEF TypeOK
  <2> QED  BY <1>1, <1>10, <2>1 DEF TypeOK, Taken
<1>12. ReaderInv'
  BY <1>1 DEF ReaderInv
<1>13. ASSUME NEW j \in Conns PROVE ConnInv(j)'
  <2>1. ConnInv(j)
    BY DEF IInv
  <2>2. CASE j = k
    BY <1>1, <1>2, <2>2 DEF ConnInv
  <2>3. CASE j # k
    BY <1>1, <1>5, <2>1, <2>3 DEF ConnInv
  <2> QED  BY <2>2, <2>3
<1>14. OneEach'
  BY <1>1 DEF IInv, OneEach
<1>15. ASSUME NEW w \in Terminals
       PROVE  /\ Exact(screen'[w], mark'[w])
              /\ screen'[w] = None <=> mark'[w] = None
  <2>1. Exact(screen[w], mark[w]) /\ (screen[w] = None <=> mark[w] = None)
    BY DEF IInv, TerminalExact, ScreensInv, Exact
  <2> HIDE DEF v, u, f
  <2> QED  BY <1>10, <2>1 DEF Taken
<1>16. ScreensInv' /\ TerminalExact'
  <2>1. ScreensInv'
    BY <1>15 DEF ScreensInv
  <2>2. TerminalExact'
    BY <1>15 DEF TerminalExact, Exact, EndOf
  <2> QED  BY <2>1, <2>2
<1>17. Serves(k, t)'
  <2>1. Stream(k)' = r
    BY <1>4
  <2>2. Due(k)' = Due(k) /\ epoch' = epoch
    <3>1. DueAnswer(k)' = DueAnswer(k)
      BY <1>1 DEF DueAnswer
    <3> QED  BY <1>1, <3>1 DEF Due
  <2>3. v.mode = mode[k] /\ u.mode = v.mode
    BY <1>1 DEF View
  <2>4. v.mode = "plain" => \A d \in Due(k) : d[1] = "output"
    BY <2>3 DEF Due, DueAnswer
  <2>5. \A d \in Due(k) : Continues(v, <<f>> \o r, epoch, d[1], d[2])
    BY <1>2, <1>4 DEF Serves
  <2>6. Prepared(v, u, f)
    BY <1>10 DEF Taken
  <2> HIDE DEF v, u, f, r
  <2>7. /\ Fitting(u, r)
        /\ \A e, kind, x :
             /\ v.mode = "plain" => kind = "output"
             /\ Continues(v, <<f>> \o r, e, kind, x)
             => Continues(u, r, e, kind, x)
    BY <1>3, <1>6, <2>3, <2>6, FittingTail DEF Prepared
  <2>8. \A d \in Due(k) : Continues(u, r, epoch, d[1], d[2])
    BY <2>4, <2>5, <2>7
  <2>9. Received(u)
    BY <2>6 DEF Prepared
  <2>10. Unanswered(t, k)' /\ (pc[k] # "unused")'
    BY <1>1, <1>2 DEF Unanswered
  <2> QED  BY <2>1, <2>2, <2>7, <2>8, <2>9, <2>10 DEF Serves, u
<1>18. TerminalInv'
  <2>1. ASSUME NEW w \in Terminals, link'[w] = None
        PROVE  ~live'[w] /\ pending'[w] = NothingPending
    <3>1. w # t /\ link[w] = None
      BY <1>0, <1>1, <2>1, NoConnIsReader
    <3>2. live'[w] = live[w] /\ pending'[w] = pending[w]
      BY <1>10, <3>1 DEF Taken
    <3> QED  BY <3>1, <3>2 DEF IInv, TerminalInv
  <2>2. ASSUME NEW w \in Terminals, NEW j \in Conns, link'[w] = j
        PROVE  Serves(j, w)'
    <3>1. CASE w = t
      BY <1>0, <1>1, <1>17, <2>2, <3>1
    <3>2. CASE w # t
      <4>1. link[w] = j /\ j # k
        BY <1>0, <1>1, <2>2, <3>2, NoConnIsReader DEF IInv, OneEach
      <4>2. Serves(j, w)
        BY <4>1 DEF IInv, TerminalInv
      <4>3. /\ live'[w] = live[w] /\ pending'[w] = pending[w]
            /\ mark'[w] = mark[w] /\ wire'[j] = wire[j]
        BY <1>5, <1>10, <3>2, <4>1 DEF Taken
      <4> QED  BY <1>1, <4>2, <4>3, ServesSame
    <3> QED  BY <3>1, <3>2
  <2> QED  BY <2>1, <2>2 DEF TerminalInv, NothingPending
<1> QED  BY <1>11, <1>12, <1>13, <1>14, <1>16, <1>18 DEF IInv

-----------------------------------------------------------------------------
LEMMA InitIInv == Init => IInv
<1> SUFFICES ASSUME Init PROVE IInv
  OBVIOUS
<1>1. TypeOK
  <2>1. EmptyQueue \in [frames : Seq(Frame), bytes : Nat, closed : BOOLEAN]
    BY DEF EmptyQueue
  <2>2. NothingPending \in [base : Nat \cup {None}, bytes : Seq(Byte)]
    BY DEF NothingPending
  <2>3. 1 \in Epochs
    BY SessionAssumption DEF Epochs
  <2>4. Idle \in [pc : {"idle", "sending", "removing"},
                  todo : SUBSET Conns, failed : SUBSET Conns, from : Nat]
    BY DEF Idle
  <2> QED  BY <2>1, <2>2, <2>3, <2>4 DEF Init, TypeOK
<1>2. ReaderInv
  BY DEF Init, ReaderInv, Idle
<1>3. \A k \in Conns : ConnInv(k)
  BY DEF Init, ConnInv, EmptyQueue
<1>4. \A t \in Terminals : /\ link[t] = None /\ ~live[t]
                           /\ pending[t] = NothingPending
                           /\ screen[t] = None /\ mark[t] = None
  BY DEF Init
<1>5. OneEach /\ ScreensInv /\ TerminalExact
  BY <1>4 DEF OneEach, ScreensInv, TerminalExact
<1>6. TerminalInv
  BY <1>4, NoConnIsReader DEF TerminalInv
<1> QED  BY <1>1, <1>2, <1>3, <1>5, <1>6 DEF IInv

LEMMA NextIInv == IInv /\ [Next]_vars => IInv'
<1> SUFFICES ASSUME IInv, [Next]_vars PROVE IInv'
  OBVIOUS
<1>1. ASSUME NEW n \in ReadSizes, ReadOutput(n) PROVE IInv'
  BY <1>1, ReadOutputStep
<1>2. CASE ReaderNext
  <2>1. ASSUME NEW k \in Conns, SendOutput(k) PROVE IInv'
    BY <2>1, SendOutputStep
  <2> QED  BY <1>2, <2>1, SentToAllStep, RemoveFailedStep DEF ReaderNext
<1>3. ASSUME NEW k \in Conns, ConnNext(k) PROVE IInv'
  BY <1>3, AttachStep, SendChunkStep, SendMarkerStep, InsertStep,
     LoopEndsStep, RemoveClientStep, CloseChannelStep DEF ConnNext
<1>4. ASSUME NEW k \in Conns, WriterNext(k) PROVE IInv'
  BY <1>4, WriterPopsStep, WriterWritesStep, WriterFailsStep DEF WriterNext
<1>5. ASSUME NEW seed \in Seeds, Replaced(seed) PROVE IInv'
  BY <1>5, ReplacedStep
<1>6. ASSUME NEW t \in Terminals, NEW k \in Conns, NEW replay \in BOOLEAN,
             NEW resume \in {None, mark[t]}, Dial(t, k, replay, resume)
      PROVE  IInv'
  BY <1>6, DialStep
<1>7. ASSUME NEW t \in Terminals, ReadFrame(t) PROVE IInv'
  BY <1>7, ReadFrameStep
<1>8. ASSUME NEW t \in Terminals, Hangup(t) \/ SeesEnd(t) PROVE IInv'
  BY <1>8, UnlinkStep DEF Hangup, SeesEnd
<1>9. CASE UNCHANGED vars
  <2>1. UNCHANGED <<masterVars, connVars, channelVars, termVars>>
    BY <1>9 DEF vars
  <2> USE DEF masterVars, connVars, channelVars, termVars
  <2>2. TypeOK' /\ ReaderInv'
    BY <2>1 DEF IInv, TypeOK, ReaderInv, Total
  <2>3. ASSUME NEW k \in Conns PROVE ConnInv(k)'
    BY <2>1 DEF IInv, ConnInv, Total
  <2>4. OneEach' /\ ScreensInv' /\ TerminalExact'
    BY <2>1 DEF IInv, OneEach, ScreensInv, TerminalExact
  <2>5. ASSUME NEW t \in Terminals, NEW k \in Conns, link[t] = k
        PROVE  Serves(k, t)'
    <3>1. Serves(k, t)
      BY <2>5 DEF IInv, TerminalInv
    <3> QED  BY <2>1, <3>1, ServesSame
  <2>6. TerminalInv'
    BY <2>1, <2>5, TerminalsAlone
  <2> QED  BY <2>2, <2>3, <2>4, <2>6 DEF IInv
<1> QED
  BY <1>1, <1>2, <1>3, <1>4, <1>5, <1>6, <1>7, <1>8, <1>9 DEF Next

\* The invariant that SessionInvariant.tla strengthens TerminalExact to holds
\* of every session, whatever its constants are.
THEOREM SessionInvariantHolds == Spec => []IInv
<1> QED  BY InitIInv, NextIInv, PTL DEF Spec

\* Every variable of the master, its connections and the terminals keeps the
\* type it has in unix.rs.
THEOREM SessionTypeCorrect == Spec => []TypeOK
<1>1. IInv => TypeOK
  BY DEF IInv
<1> QED  BY <1>1, SessionInvariantHolds, PTL

\* Through every interleaving of the master's threads, any number of clients,
\* connections, replays, resumes and masters, and for every capacity of the log,
\* of the backlog and of a chunk, a terminal shows one picture and exactly the
\* bytes that follow it (add_client, broadcast_output, bridge_terminal).
THEOREM TerminalsStayExact == Spec => []TerminalExact
<1>1. IInv => TerminalExact
  BY DEF IInv
<1> QED  BY <1>1, SessionInvariantHolds, PTL

-----------------------------------------------------------------------------
\* Frames in order, and their ends.
LEMMA OrderPrefix ==
    ASSUME NEW a \in Seq(Frame), NEW b \in Seq(Frame), NEW e, NEW p, NEW m,
           InOrder(a \o b, e, p)
    PROVE  /\ InOrder(a, e, p)
           /\ NoneBehind(m, a \o b) => NoneBehind(m, a)
<1> DEFINE s == a \o b
<1>1. /\ Len(s) = Len(a) + Len(b)
      /\ Len(a) \in Nat /\ Len(b) \in Nat
      /\ \A i \in 1..Len(a) + Len(b) :
           s[i] = IF i <= Len(a) THEN a[i] ELSE b[i - Len(a)]
  BY ConcatProperties, LenProperties
<1>2. InOrder(s, e, p)
  OBVIOUS
<1> HIDE DEF s
<1>3. \A i \in 1..Len(a) : i \in 1..Len(s) /\ s[i] = a[i]
  BY <1>1
<1>4. InOrder(a, e, p)
  <2>1. ASSUME NEW i \in 1..Len(a)
        PROVE  a[i].epoch <= e /\ a[i].to <= p[a[i].epoch]
    BY <1>2, <1>3 DEF InOrder
  <2>2. ASSUME NEW i \in 1..Len(a), NEW j \in 1..Len(a), i < j
        PROVE  a[i].epoch = a[j].epoch /\ a[i].to <= a[j].from
    BY <1>2, <1>3, <2>2 DEF InOrder
  <2> QED  BY <2>1, <2>2 DEF InOrder
<1>5. NoneBehind(m, s) => NoneBehind(m, a)
  BY <1>3 DEF NoneBehind
<1> QED  BY <1>4, <1>5 DEF s

\* What a suffix of a sequence is.
LEMMA SuffixOf ==
    ASSUME NEW a \in Seq(Frame), NEW b \in Seq(Frame)
    PROVE  /\ Len(a \o b) = Len(a) + Len(b)
           /\ Len(a) \in Nat /\ Len(b) \in Nat
           /\ \A i \in 1..Len(b) : /\ Len(a) + i \in 1..Len(a \o b)
                                  /\ (a \o b)[Len(a) + i] = b[i]
<1> DEFINE s == a \o b
<1>1. /\ Len(s) = Len(a) + Len(b)
      /\ Len(a) \in Nat /\ Len(b) \in Nat
      /\ \A i \in 1..Len(a) + Len(b) :
           s[i] = IF i <= Len(a) THEN a[i] ELSE b[i - Len(a)]
  BY ConcatProperties, LenProperties
<1> HIDE DEF s
<1>2. ASSUME NEW i \in 1..Len(b)
      PROVE  Len(a) + i \in 1..Len(s) /\ s[Len(a) + i] = b[i]
  <2> DEFINE n == Len(a)
             l == Len(b)
  <2>1. n \in Nat /\ l \in Nat /\ i \in 1..l /\ Len(s) = n + l
    BY <1>1
  <2>2. n + i \in 1 .. n + l /\ ~(n + i <= n) /\ (n + i) - n = i
    BY <2>1
  <2> QED  BY <1>1, <2>1, <2>2
<1> QED  BY <1>1, <1>2 DEF s

LEMMA SuffixEnds ==
    ASSUME NEW a \in Seq(Frame), NEW b \in Seq(Frame), NEW e, NEW x,
           EndsAt(a \o b, e, x)
    PROVE  EndsAt(b, e, x)
<1> DEFINE s == a \o b
<1>1. /\ Len(s) = Len(a) + Len(b)
      /\ Len(a) \in Nat /\ Len(b) \in Nat
      /\ \A i \in 1..Len(b) : /\ Len(a) + i \in 1..Len(s)
                              /\ s[Len(a) + i] = b[i]
  BY SuffixOf
<1>2. EndsAt(s, e, x)
  OBVIOUS
<1> HIDE DEF s
<1>3. CASE b # <<>>
  <2>1. Len(b) \in 1..Len(b)
    BY <1>1, <1>3, EmptySeq
  <2>2. s[Len(s)] = b[Len(b)] /\ Len(s) \in 1..Len(s)
    BY <1>1, <2>1
  <2>3. s # <<>>
    BY <2>2
  <2> QED  BY <1>2, <2>2, <2>3 DEF EndsAt
<1> QED  BY <1>3 DEF EndsAt

LEMMA OrderTail ==
    ASSUME NEW f \in Frame, NEW r \in Seq(Frame), NEW e, NEW p,
           InOrder(<<f>> \o r, e, p)
    PROVE  /\ InOrder(r, e, p)
           /\ f.epoch <= e /\ f.to <= p[f.epoch]
           /\ \A i \in 1..Len(r) : f.epoch = r[i].epoch /\ f.to <= r[i].from
<1> DEFINE h == <<f>>
           s == h \o r
<1>1. h \in Seq(Frame) /\ Len(h) = 1 /\ h[1] = f
  OBVIOUS
<1>2. InOrder(s, e, p)
  OBVIOUS
<1> HIDE DEF h
<1>3. /\ Len(s) = 1 + Len(r) /\ Len(r) \in Nat
      /\ \A i \in 1..Len(r) : 1 + i \in 1..Len(s) /\ s[1 + i] = r[i]
  <2>1. /\ Len(s) = Len(h) + Len(r) /\ Len(r) \in Nat
        /\ \A i \in 1..Len(r) : /\ Len(h) + i \in 1..Len(s)
                                /\ s[Len(h) + i] = r[i]
    BY <1>1, SuffixOf
  <2> HIDE DEF s
  <2> QED  BY <1>1, <2>1
<1>4. s[1] = f
  <2>1. 1 \in 1..Len(h) + Len(r) /\ 1 <= Len(h)
    BY <1>1, <1>3
  <2>2. \A i \in 1..Len(h) + Len(r) :
          s[i] = IF i <= Len(h) THEN h[i] ELSE r[i - Len(h)]
    BY <1>1, ConcatProperties
  <2> HIDE DEF s
  <2> QED  BY <1>1, <2>1, <2>2
<1> HIDE DEF s
<1>5. 1 \in 1..Len(s) /\ \A i \in 1..Len(r) : 1 < 1 + i
  BY <1>3
<1>6. InOrder(r, e, p)
  <2>1. ASSUME NEW i \in 1..Len(r)
        PROVE  r[i].epoch <= e /\ r[i].to <= p[r[i].epoch]
    BY <1>2, <1>3, <2>1 DEF InOrder
  <2>2. ASSUME NEW i \in 1..Len(r), NEW j \in 1..Len(r), i < j
        PROVE  r[i].epoch = r[j].epoch /\ r[i].to <= r[j].from
    <3>1. 1 + i < 1 + j
      BY <1>3, <2>2
    <3> QED  BY <1>2, <1>3, <3>1 DEF InOrder
  <2> QED  BY <2>1, <2>2 DEF InOrder
<1>7. ASSUME NEW i \in 1..Len(r)
      PROVE  f.epoch = r[i].epoch /\ f.to <= r[i].from
  BY <1>2, <1>3, <1>4, <1>5 DEF InOrder
<1>8. f.epoch <= e /\ f.to <= p[f.epoch]
  BY <1>2, <1>4, <1>5 DEF InOrder
<1> QED  BY <1>6, <1>7, <1>8

LEMMA OrderAppend ==
    ASSUME NEW s \in Seq(Frame), NEW f \in Frame, NEW e, NEW p,
           InOrder(s, e, p), \A i \in 1..Len(s) : Spans(s[i]), Spans(f),
           EndsAt(s, f.epoch, f.from), f.epoch <= e, f.to <= p[f.epoch]
    PROVE  /\ InOrder(Append(s, f), e, p)
           /\ EndsAt(Append(s, f), f.epoch, f.to)
<1> DEFINE r == Append(s, f)
<1>1. /\ r # <<>> /\ Len(r) = Len(s) + 1 /\ Len(s) \in Nat
      /\ \A i \in 1..Len(s) : r[i] = s[i]
      /\ r[Len(s) + 1] = f
  BY AppendProperties, LenProperties
<1> HIDE DEF r
<1>2. ASSUME NEW i \in 1..Len(r), i # Len(s) + 1 PROVE i \in 1..Len(s)
  BY <1>1, <1>2
<1>3. ASSUME NEW i \in 1..Len(r)
      PROVE  r[i].epoch <= e /\ r[i].to <= p[r[i].epoch]
  BY <1>1, <1>2 DEF InOrder
<1>4. ASSUME NEW i \in 1..Len(s)
      PROVE  s[i].epoch = f.epoch /\ s[i].to <= f.from
  <2>1. /\ s # <<>> /\ Len(s) \in 1..Len(s)
        /\ s[Len(s)].epoch = f.epoch /\ s[Len(s)].to = f.from
    BY <1>1, <1>4 DEF EndsAt
  <2>2. CASE i = Len(s)
    <3>1. s[i].to \in Nat
      BY <1>4, FrameFields
    <3> QED  BY <2>1, <2>2, <3>1
  <2>3. CASE i # Len(s)
    <3>1. i < Len(s)
      BY <1>1, <1>4, <2>3
    <3>2. s[i].epoch = f.epoch /\ s[i].to <= s[Len(s)].from
      BY <2>1, <3>1 DEF InOrder
    <3>3. /\ s[i] \in Frame /\ s[Len(s)] \in Frame
          /\ s[Len(s)].from <= s[Len(s)].to
      BY <1>4, <2>1 DEF Spans
    <3>4. s[i].to \in Nat /\ s[Len(s)].from \in Nat /\ s[Len(s)].to \in Nat
      BY <3>3, FrameFields
    <3> QED  BY <2>1, <3>2, <3>3, <3>4
  <2> QED  BY <2>2, <2>3
<1>5. ASSUME NEW i \in 1..Len(r), NEW j \in 1..Len(r), i < j
      PROVE  r[i].epoch = r[j].epoch /\ r[i].to <= r[j].from
  <2>1. i \in 1..Len(s)
    BY <1>1, <1>5
  <2>2. CASE j = Len(s) + 1
    BY <1>1, <1>4, <2>1, <2>2
  <2>3. CASE j # Len(s) + 1
    BY <1>1, <1>2, <1>5, <2>1, <2>3 DEF InOrder
  <2> QED  BY <2>2, <2>3
<1>6. EndsAt(r, f.epoch, f.to)
  BY <1>1 DEF EndsAt
<1> QED  BY <1>3, <1>5, <1>6 DEF InOrder, r

-----------------------------------------------------------------------------
\* Output there has been is not taken back.
Grows ==
    /\ epoch <= epoch'
    /\ \A e \in Epochs : e <= epoch => total[e] <= total'[e]

LEMMA EpochsAreNat == \A e \in Epochs : e \in Nat
BY SessionAssumption DEF Epochs

LEMMA Produced ==
    ASSUME TypeOK, TypeOK'
    PROVE  /\ epoch \in Nat /\ epoch' \in Nat
           /\ \A e \in Epochs : /\ e \in Nat
                                /\ total[e] \in Nat /\ total'[e] \in Nat
<1>1. epoch \in Epochs /\ total \in [Epochs -> Nat]
  BY DEF TypeOK
<1>2. epoch' \in Epochs /\ total' \in [Epochs -> Nat]
  BY DEF TypeOK
<1> QED  BY <1>1, <1>2, EpochsAreNat

LEMMA MarksGrow ==
    ASSUME TypeOK, TypeOK', Grows, MarksInv, mark' = mark
    PROVE  MarksInv'
<1> SUFFICES ASSUME NEW t \in Terminals, mark[t] # None
             PROVE  /\ mark[t].epoch <= epoch'
                    /\ mark[t].offset <= total'[mark[t].epoch]
  BY DEF MarksInv
<1> DEFINE m == mark[t]
<1>1. /\ m.epoch \in Epochs /\ m.offset \in Nat
      /\ m.epoch <= epoch /\ m.offset <= total[m.epoch]
  BY DEF TypeOK, Position, MarksInv
<1>2. /\ total[m.epoch] \in Nat /\ total'[m.epoch] \in Nat
      /\ epoch \in Nat /\ epoch' \in Nat /\ m.epoch \in Nat
  BY <1>1, Produced
<1>3. epoch <= epoch' /\ total[m.epoch] <= total'[m.epoch]
  BY <1>1 DEF Grows
<1> HIDE DEF m
<1> QED  BY <1>1, <1>2, <1>3 DEF m

LEMMA OrderGrows ==
    ASSUME TypeOK, TypeOK', Grows, NEW s \in Seq(Frame),
           InOrder(s, epoch, total)
    PROVE  InOrder(s, epoch', total')
<1>1. ASSUME NEW i \in 1..Len(s)
      PROVE  s[i].epoch <= epoch' /\ s[i].to <= total'[s[i].epoch]
  <2> DEFINE f == s[i]
             e == f.epoch
  <2>1. f \in Frame /\ e <= epoch /\ f.to <= total[e]
    BY <1>1 DEF InOrder
  <2>2. e \in Epochs /\ f.to \in Nat
    BY <2>1, FrameFields
  <2>3. /\ total[e] \in Nat /\ total'[e] \in Nat
        /\ epoch \in Nat /\ epoch' \in Nat /\ e \in Nat
    BY <2>2, Produced
  <2>4. epoch <= epoch' /\ total[e] <= total'[e]
    BY <2>1, <2>2 DEF Grows
  <2> HIDE DEF f, e
  <2>5. e <= epoch' /\ f.to <= total'[e]
    BY <2>1, <2>2, <2>3, <2>4
  <2> QED  BY <2>5 DEF f, e
<1> QED  BY <1>1 DEF InOrder

\* A frame that is sent is ahead of the terminal that it is for.
LEMMA SentAhead ==
    ASSUME TypeOK, MarksInv, NEW t \in Terminals, NEW k \in Conns,
           Serves(k, t), Ahead(t, k), mode[k] # "plain", mark[t] # None,
           NEW f \in Frame, f.epoch = epoch, <<f.kind, f.from>> \in Due(k),
           EndsAt(Stream(k), f.epoch, f.from)
    PROVE  NotBehind(mark[t], f)
<1> DEFINE m == mark[t]
           s == Stream(k)
           v == View(t, k)
<1>1. /\ m.epoch \in Epochs /\ m.offset \in Nat /\ f.from \in Nat
      /\ f.epoch \in Epochs
  BY FrameFields DEF TypeOK, Position
<1>2. s \in Seq(Frame) /\ Len(s) \in Nat
  BY StreamTyped, LenProperties
<1>3. CASE s # <<>>
  <2> DEFINE l == s[Len(s)]
  <2>1. Len(s) \in 1..Len(s)
    BY <1>2, <1>3, EmptySeq
  <2>2. /\ l \in Frame /\ l.epoch = f.epoch /\ l.to = f.from
        /\ NotBehind(m, l) /\ Spans(l)
    BY <1>2, <1>3, <2>1 DEF EndsAt, Ahead, NoneBehind, Serves, Fitting
  <2>3. l.from \in Nat /\ l.to \in Nat /\ l.from <= l.to
    BY <2>2, FrameFields DEF Spans
  <2> HIDE DEF m, l, s
  <2> QED  BY <1>1, <2>2, <2>3 DEF NotBehind, m
<1>4. CASE s = <<>>
  <2>1. f.kind \in Ready(v) /\ Reaches(v, f.epoch, f.from)
    <3>1. Continues(v, s, epoch, <<f.kind, f.from>>[1], <<f.kind, f.from>>[2])
      BY DEF Serves
    <3> QED  BY <1>4, <3>1 DEF Continues
  <2>2. /\ v.live = live[t] /\ v.mark = m /\ v.mode = mode[k]
        /\ v.bytes \in Seq(Byte) /\ v.live \in BOOLEAN
        /\ v.mode \in {"resume", "replay"}
    <3>1. v \in Views /\ mode[k] \in {"plain", "resume", "replay"}
      BY ViewTyped DEF TypeOK
    <3> HIDE DEF v
    <3> QED  BY <3>1, ViewTyped DEF Views, v
  <2>3. CASE v.live
    <3>1. m.epoch = f.epoch /\ m.offset = f.from
      BY <2>1, <2>2, <2>3 DEF Reaches
    <3> HIDE DEF m
    <3> QED  BY <1>1, <3>1 DEF NotBehind, m
  <2>4. CASE ~v.live /\ v.mode = "resume"
    <3> DEFINE n == Len(v.bytes)
    <3>1. m.epoch = f.epoch /\ m.offset + n = f.from /\ n \in Nat
      BY <2>1, <2>2, <2>4, LenProperties DEF Reaches
    <3> HIDE DEF m, n
    <3> QED  BY <1>1, <3>1 DEF NotBehind, m
  <2>5. CASE ~v.live /\ v.mode = "replay"
    <3>1. f.kind \in {"snapshot", "replayDone"}
      BY <2>1, <2>5 DEF Ready
    <3>2. f.from = Total
      BY <2>2, <2>5, <3>1 DEF Due, DueAnswer
    <3>3. m.epoch <= epoch /\ m.offset <= total[m.epoch]
      BY DEF MarksInv
    <3>4. epoch \in Nat /\ m.epoch \in Nat /\ total[epoch] = f.from
      <4>1. epoch \in Epochs
        BY DEF TypeOK
      <4> QED  BY <1>1, <3>2, <4>1, EpochsAreNat DEF Total
    <3> HIDE DEF m
    <3> QED  BY <1>1, <3>3, <3>4 DEF NotBehind, m
  <2> QED  BY <2>2, <2>3, <2>4, <2>5
<1> QED  BY <1>3, <1>4

\* What a connection is left with by a step of a master.
LEMMA AheadKept ==
    ASSUME TypeOK, TypeOK', Grows, MarksInv, EndsInv,
           NEW t \in Terminals, NEW k \in Conns,
           mark'[t] = mark[t], mode'[k] = mode[k],
           Serves(k, t), Ahead(t, k), Kept(k) \/ Cut(k) \/ Sent(k)
    PROVE  Ahead(t, k)'
<1> DEFINE m == mark[t]
           s == Stream(k)
           z == Stream(k)'
<1>1. /\ s \in Seq(Frame) /\ InOrder(s, epoch, total)
      /\ mode[k] # "plain" => NoneBehind(m, s)
  BY StreamTyped DEF Ahead
<1>2. InOrder(z, epoch', total') /\ (mode[k] # "plain" => NoneBehind(m, z))
  <2>1. CASE Kept(k)
    <3>1. z = s
      BY <2>1 DEF Kept
    <3> HIDE DEF m, s, z
    <3> QED  BY <1>1, <3>1, OrderGrows
  <2>2. CASE Cut(k)
    <3>1. z \in Seq(Frame)
      <4>1. /\ wire'[k] \in Seq(Frame) /\ writing'[k] \in Seq(Frame)
            /\ queue'[k].frames \in Seq(Frame)
        BY DEF TypeOK
      <4>2. wire'[k] \o writing'[k] \in Seq(Frame)
        BY <4>1, ConcatProperties
      <4> QED  BY <4>1, <4>2, ConcatProperties DEF Stream
    <3>2. PICK rest \in Seq(Frame) : s = z \o rest
      BY <2>2 DEF Cut
    <3> HIDE DEF m, s, z
    <3>3. /\ InOrder(z, epoch, total)
          /\ mode[k] # "plain" => NoneBehind(m, z)
      BY <1>1, <3>1, <3>2, OrderPrefix
    <3> QED  BY <3>1, <3>3, OrderGrows
  <2>3. CASE Sent(k)
    <3>1. PICK f \in Frame :
            /\ Spans(f) /\ f.epoch = epoch /\ <<f.kind, f.from>> \in Due(k)
            /\ z = Append(s, f) /\ f.to <= Total'
      BY <2>3 DEF Sent
    <3>2. epoch' = epoch /\ f.epoch <= epoch' /\ f.to <= total'[f.epoch]
      <4>1. epoch' = epoch /\ epoch \in Nat
        BY <2>3, SessionAssumption DEF Sent, TypeOK, Epochs
      <4> QED  BY <3>1, <4>1 DEF Total
    <3>3. EndsAt(s, f.epoch, f.from)
      <4>1. EndsAt(s, epoch, <<f.kind, f.from>>[2])
        BY <3>1 DEF EndsInv
      <4> QED  BY <3>1, <4>1
    <3>4. \A i \in 1..Len(s) : Spans(s[i])
      BY DEF Serves, Fitting
    <3>5. mode[k] # "plain" /\ m # None => NotBehind(m, f)
      BY <3>1, <3>3, SentAhead
    <3> HIDE DEF m, s, z
    <3>6. InOrder(s, epoch', total')
      BY <1>1, OrderGrows
    <3>7. InOrder(z, epoch', total')
      BY <1>1, <3>1, <3>2, <3>3, <3>4, <3>6, OrderAppend
    <3>8. mode[k] # "plain" => NoneBehind(m, z)
      <4>1. /\ Len(z) = Len(s) + 1 /\ Len(s) \in Nat
            /\ \A i \in 1..Len(s) : z[i] = s[i]
            /\ z[Len(s) + 1] = f
        BY <1>1, <3>1, AppendProperties, LenProperties
      <4>2. \A i \in 1..Len(z) : i \in 1..Len(s) \/ i = Len(s) + 1
        BY <4>1
      <4> QED  BY <1>1, <3>5, <4>1, <4>2 DEF NoneBehind
    <3> QED  BY <3>7, <3>8
  <2> QED  BY <2>1, <2>2, <2>3
<1> QED  BY <1>2 DEF Ahead

LEMMA EndsKept ==
    ASSUME TypeOK, TypeOK', EndsInv, NEW k \in Conns,
           Kept(k) \/ Cut(k) \/ Sent(k)
    PROVE  \A d \in Due(k)' : EndsAt(Stream(k), epoch, d[2])'
<1> DEFINE s == Stream(k)
           z == Stream(k)'
<1>1. \A d \in Due(k) : EndsAt(s, epoch, d[2])
  BY DEF EndsInv
<1>2. CASE Kept(k)
  <2>1. z = s /\ epoch' = epoch /\ Due(k)' \subseteq Due(k)
    BY <1>2 DEF Kept
  <2> HIDE DEF s, z
  <2> QED  BY <1>1, <2>1 DEF s, z, EndsAt
<1>3. CASE Cut(k)
  BY <1>3 DEF Cut
<1>4. CASE Sent(k)
  <2>1. PICK f \in Frame :
          /\ f.epoch = epoch /\ z = Append(s, f)
          /\ \A d \in Due(k)' : d[2] = f.to
    BY <1>4 DEF Sent
  <2>2. epoch' = epoch /\ s \in Seq(Frame)
    BY <1>4, StreamTyped DEF Sent
  <2> HIDE DEF s, z
  <2>3. Len(z) = Len(s) + 1 /\ z[Len(s) + 1] = f
    BY <2>1, <2>2, AppendProperties
  <2> QED  BY <2>1, <2>2, <2>3 DEF EndsAt, z
<1> QED  BY <1>2, <1>3, <1>4

\* Steps of a master that change no terminal.
LEMMA SmoothStep ==
    ASSUME PromiseInv, IInv', Smooth, UNCHANGED <<mode, termVars>>, Grows
    PROVE  PromiseInv'
<1>1. TypeOK /\ TypeOK' /\ MarksInv /\ EndsInv /\ mark' = mark /\ link' = link
  BY DEF PromiseInv, IInv, termVars
<1>2. MarksInv'
  BY <1>1, MarksGrow
<1>3. EndsInv'
  <2>1. ASSUME NEW k \in Conns
        PROVE  \A d \in Due(k)' : EndsAt(Stream(k), epoch, d[2])'
    <3>1. Kept(k) \/ Cut(k) \/ Sent(k)
      BY DEF Smooth
    <3> QED  BY <1>1, <3>1, EndsKept
  <2> QED  BY <2>1 DEF EndsInv
<1>4. AheadInv'
  <2>1. ASSUME NEW t \in Terminals, NEW k \in Conns, link[t] = k
        PROVE  Ahead(t, k)'
    <3>1. Serves(k, t) /\ Ahead(t, k)
      BY <2>1 DEF PromiseInv, IInv, TerminalInv, AheadInv
    <3>2. Kept(k) \/ Cut(k) \/ Sent(k)
      BY DEF Smooth
    <3> QED  BY <1>1, <3>1, <3>2, AheadKept
  <2> QED  BY <1>1, <2>1 DEF AheadInv
<1> QED  BY <1>2, <1>3, <1>4 DEF PromiseInv

-----------------------------------------------------------------------------
\* Steps of a connection that is not yet answered, and of the terminals.
LEMMA EmptyAhead ==
    ASSUME NEW t \in Terminals, NEW k \in Conns, Stream(k)' = <<>>
    PROVE  /\ Ahead(t, k)'
           /\ \A d \in Due(k)' : EndsAt(Stream(k), epoch, d[2])'
<1>1. Len(Stream(k)') = 0 /\ \A i \in 1..0 : FALSE
  OBVIOUS
<1> QED  BY <1>1 DEF Ahead, InOrder, NoneBehind, EndsAt

LEMMA AttachKeeps ==
    ASSUME PromiseInv, NEW k \in Conns, Attach(k)
    PROVE  PromiseInv'
<1>1. /\ IInv /\ IInv' /\ Stream(k)' = <<>>
      /\ \A j \in Conns \ {k} : Kept(j)
  BY AttachStep DEF PromiseInv
<1>2. /\ UNCHANGED <<epoch, total, termVars>> /\ TypeOK /\ TypeOK'
      /\ MarksInv /\ EndsInv
      /\ \A j \in Conns \ {k} : mode'[j] = mode[j]
  <2>1. TypeOK /\ TypeOK' /\ MarksInv /\ EndsInv
    BY <1>1 DEF PromiseInv, IInv
  <2>2. mode \in [Conns -> {"plain", "resume", "replay"}]
    BY <2>1 DEF TypeOK
  <2>3. /\ UNCHANGED <<epoch, total, termVars>>
        /\ \/ mode' = [mode EXCEPT ![k] = "resume"]
           \/ mode' = [mode EXCEPT ![k] = "replay"]
           \/ mode' = mode
    BY DEF Attach
  <2> QED  BY <2>1, <2>2, <2>3
<1>3. Grows
  <2>1. \A e \in Epochs : total[e] <= total'[e]
    BY <1>2, Produced
  <2> QED  BY <1>2, <2>1, Produced DEF Grows
<1>4. mark' = mark /\ link' = link
  BY <1>2 DEF termVars
<1>5. MarksInv'
  BY <1>2, <1>3, <1>4, MarksGrow
<1>6. EndsInv'
  <2>1. ASSUME NEW j \in Conns
        PROVE  \A d \in Due(j)' : EndsAt(Stream(j), epoch, d[2])'
    <3>1. CASE j = k
      BY <1>1, <3>1 DEF EndsAt
    <3>2. CASE j # k
      BY <1>1, <1>2, <3>2, EndsKept
    <3> QED  BY <3>1, <3>2
  <2> QED  BY <2>1 DEF EndsInv
<1>7. AheadInv'
  <2>1. ASSUME NEW t \in Terminals, NEW j \in Conns, link[t] = j
        PROVE  Ahead(t, j)'
    <3>1. CASE j = k
      BY <1>1, <3>1, EmptyAhead
    <3>2. CASE j # k
      <4>1. Serves(j, t) /\ Ahead(t, j)
        BY <2>1 DEF PromiseInv, IInv, TerminalInv, AheadInv
      <4> QED  BY <1>1, <1>2, <1>3, <1>4, <3>2, <4>1, AheadKept
    <3> QED  BY <3>1, <3>2
  <2> QED  BY <1>4, <2>1 DEF AheadInv
<1> QED  BY <1>1, <1>5, <1>6, <1>7 DEF PromiseInv

LEMMA DialKeeps ==
    ASSUME PromiseInv, NEW t \in Terminals, NEW k \in Conns,
           NEW replay \in BOOLEAN, NEW resume, Dial(t, k, replay, resume)
    PROVE  PromiseInv'
<1>1. IInv /\ IInv' /\ TypeOK
  BY DialStep DEF PromiseInv, IInv
<1>2. /\ UNCHANGED <<masterVars, mode, left, channelVars, mark>>
      /\ \A j \in Conns \ {k} : pc'[j] = pc[j]
      /\ link' = [link EXCEPT ![t] = k] /\ pc[k] = "unused"
  BY <1>1 DEF Dial, TypeOK
<1> USE DEF masterVars, channelVars
<1>3. \A j \in Conns : Stream(j)' = Stream(j)
  BY <1>2 DEF Stream
<1>4. Stream(k)' = <<>>
  <2>1. wire[k] = <<>> /\ writing[k] = <<>> /\ queue[k].frames = <<>>
    <3>1. ConnInv(k)
      BY <1>1 DEF IInv
    <3> QED  BY <1>2, <3>1 DEF ConnInv, EmptyQueue
  <2>2. Stream(k) = <<>>
    BY <2>1 DEF Stream
  <2> QED  BY <1>3, <2>2
<1>5. MarksInv'
  BY <1>2 DEF PromiseInv, MarksInv
<1>6. EndsInv'
  <2>1. ASSUME NEW j \in Conns
        PROVE  \A d \in Due(j)' : EndsAt(Stream(j), epoch, d[2])'
    <3>1. CASE j = k
      BY <1>4, <3>1, EmptyAhead
    <3>2. CASE j # k
      <4>1. Due(j)' = Due(j)
        <5>1. DueAnswer(j)' = DueAnswer(j)
          BY <1>2 DEF DueAnswer, Total
        <5> QED  BY <1>2, <3>2, <5>1 DEF Due, Total
      <4> QED  BY <1>2, <1>3, <4>1 DEF PromiseInv, EndsInv, EndsAt
    <3> QED  BY <3>1, <3>2
  <2> QED  BY <2>1 DEF EndsInv
<1>7. AheadInv'
  <2>1. ASSUME NEW u \in Terminals, NEW j \in Conns, link'[u] = j
        PROVE  Ahead(u, j)'
    <3>1. CASE j = k
      BY <1>4, <3>1, EmptyAhead
    <3>2. CASE j # k
      <4>1. link[u] = j
        BY <1>1, <1>2, <2>1, <3>2 DEF TypeOK
      <4>2. Ahead(u, j)
        BY <4>1 DEF PromiseInv, AheadInv
      <4> QED  BY <1>2, <1>3, <4>2 DEF Ahead, InOrder, NoneBehind
    <3> QED  BY <3>1, <3>2
  <2> QED  BY <2>1 DEF AheadInv
<1> QED  BY <1>1, <1>5, <1>6, <1>7 DEF PromiseInv

\* A connection whose socket is read or dropped has the rest on its way.
LEMMA SuffixEndsKept ==
    ASSUME PromiseInv, NEW k \in Conns, NEW a \in Seq(Frame),
           NEW b \in Seq(Frame), Stream(k) = a \o b, Stream(k)' = b,
           UNCHANGED <<masterVars, connVars, queue>>
    PROVE  \A d \in Due(k)' : EndsAt(Stream(k), epoch, d[2])'
<1> USE DEF masterVars, connVars
<1>1. Due(k)' = Due(k)
  <2>1. DueAnswer(k)' = DueAnswer(k)
    BY DEF DueAnswer, Total
  <2> QED  BY <2>1 DEF Due, Total
<1>2. \A d \in Due(k) : EndsAt(a \o b, epoch, d[2])
  BY DEF PromiseInv, EndsInv
<1>3. \A d \in Due(k) : EndsAt(b, epoch, d[2])
  BY <1>2, SuffixEnds
<1> QED  BY <1>1, <1>3 DEF EndsAt

LEMMA UnlinkKeeps ==
    ASSUME PromiseInv, NEW t \in Terminals, Unlink(t)
    PROVE  PromiseInv'
<1>1. PICK k \in Conns : link[t] = k
  BY DEF PromiseInv, IInv, TypeOK, Unlink
<1>2. IInv /\ IInv' /\ TypeOK
  BY UnlinkStep DEF PromiseInv, IInv
<1>3. /\ link' = [link EXCEPT ![t] = None]
      /\ wire'[k] = <<>> /\ \A j \in Conns \ {k} : wire'[j] = wire[j]
      /\ UNCHANGED <<masterVars, connVars, queue, writing, mark>>
  BY <1>1, <1>2 DEF Unlink, TypeOK
<1>4. \A j \in Conns \ {k} : Stream(j)' = Stream(j)
  BY <1>3 DEF Stream
<1>5. MarksInv'
  BY <1>3 DEF PromiseInv, MarksInv, masterVars
<1>6. EndsInv'
  <2>1. ASSUME NEW j \in Conns
        PROVE  \A d \in Due(j)' : EndsAt(Stream(j), epoch, d[2])'
    <3>1. CASE j = k
      <4> DEFINE a == wire[k]
                 w == writing[k]
                 q == queue[k].frames
      <4>1. a \in Seq(Frame) /\ w \in Seq(Frame) /\ q \in Seq(Frame)
        BY <1>2, StreamTyped
      <4>2. Stream(k) = (a \o w) \o q /\ Stream(k)' = (<<>> \o w) \o q
        BY <1>3 DEF Stream
      <4> HIDE DEF a, w, q
      <4>3. w \o q \in Seq(Frame) /\ <<>> \o w = w
        BY <4>1, ConcatProperties, ConcatEmptySeq
      <4>4. Stream(k) = a \o (w \o q) /\ Stream(k)' = w \o q
        BY <4>1, <4>2, <4>3, ConcatAssociative
      <4> QED  BY <1>3, <3>1, <4>1, <4>3, <4>4, SuffixEndsKept
    <3>2. CASE j # k
      <4>1. Stream(j) \in Seq(Frame) /\ <<>> \in Seq(Frame)
        BY <1>2, StreamTyped
      <4>2. Stream(j) = <<>> \o Stream(j) /\ Stream(j)' = Stream(j)
        BY <1>4, <3>2, <4>1, ConcatEmptySeq
      <4> QED  BY <1>3, <4>1, <4>2, SuffixEndsKept
    <3> QED  BY <3>1, <3>2
  <2> QED  BY <2>1 DEF EndsInv
<1>7. AheadInv'
  <2>1. ASSUME NEW u \in Terminals, NEW j \in Conns, link'[u] = j
        PROVE  Ahead(u, j)'
    <3>1. u # t /\ link[u] = j
      BY <1>2, <1>3, <2>1, NoConnIsReader DEF TypeOK
    <3>2. j # k
      BY <1>1, <1>2, <3>1, NoConnIsReader DEF IInv, OneEach
    <3>3. Ahead(u, j)
      BY <3>1 DEF PromiseInv, AheadInv
    <3> QED  BY <1>3, <1>4, <3>2, <3>3
             DEF Ahead, InOrder, NoneBehind, masterVars, connVars
  <2> QED  BY <2>1 DEF AheadInv
<1> QED  BY <1>2, <1>5, <1>6, <1>7 DEF PromiseInv

-----------------------------------------------------------------------------
\* A terminal reads a frame: where it is then.
LEMMA MarkAfter ==
    ASSUME IInv, NEW t \in Terminals, NEW k \in Conns, link[t] = k,
           ReadFrame(t)
    PROVE  /\ \/ mark'[t] = mark[t]
              \/ /\ mark'[t] # None
                 /\ mark'[t].epoch = Front(k).epoch
                 /\ mark'[t].offset = Front(k).to
           /\ \A u \in Terminals \ {t} : mark'[u] = mark[u]
<1> DEFINE f == Front(k)
           v == View(t, k)
           u == View(t, k)'
<1>1. /\ f \in Frame /\ ReadCase(t, f) /\ mode' = mode /\ Received(v)
      /\ Spans(f) /\ f.kind \in Ready(v) /\ Reaches(v, f.epoch, f.from)
  <2>1. UNCHANGED connVars /\ Serves(k, t)
    BY FrontFrame
  <2> QED  BY <2>1, FrontFrame DEF connVars, Serves
<1>2. /\ Exact(screen[t], mark[t]) /\ (screen[t] = None <=> mark[t] = None)
      /\ TypeOK
  BY DEF IInv, TerminalExact, ScreensInv, Exact
<1>3. Taken(t, v, u, f)
  <2> HIDE DEF f
  <2> QED  BY <1>1, <1>2, ReadTakes
<1>4. \A w \in Terminals \ {t} : mark'[w] = mark[w]
  BY <1>3 DEF Taken
<1>5. Received(u) /\ Reaches(u, f.epoch, f.to)
  BY <1>3 DEF Taken, Prepared
<1>6. u.live = live'[t] /\ u.mark = mark'[t]
  BY DEF View
<1>7. mark' = mark \/ live'[t]
  <2>1. live \in [Terminals -> BOOLEAN]
    BY <1>2 DEF TypeOK
  <2> HIDE DEF f, u, v
  <2> QED  BY <1>1, <2>1 DEF ReadCase
<1> HIDE DEF u
<1>8. live'[t] => /\ mark'[t] # None /\ mark'[t].epoch = f.epoch
                  /\ mark'[t].offset = f.to
  BY <1>5, <1>6 DEF Received, Reaches
<1> QED  BY <1>4, <1>7, <1>8

LEMMA ReadKeeps ==
    ASSUME PromiseInv, NEW t \in Terminals, ReadFrame(t)
    PROVE  PromiseInv'
<1>1. PICK k \in Conns : link[t] = k
  BY DEF PromiseInv, IInv, TypeOK, ReadFrame
<1>2. IInv /\ IInv' /\ TypeOK
  BY ReadFrameStep DEF PromiseInv, IInv
<1> DEFINE f == Front(k)
           r == Behind(k)
<1>3. /\ f \in Frame /\ r \in Seq(Frame)
      /\ Stream(k) = <<f>> \o r /\ Stream(k)' = r
      /\ \A j \in Conns \ {k} : wire'[j] = wire[j]
      /\ UNCHANGED <<masterVars, connVars, queue, writing, link>>
  BY <1>1, <1>2, FrontFrame
<1>4. /\ \/ mark'[t] = mark[t]
         \/ /\ mark'[t] # None
            /\ mark'[t].epoch = f.epoch /\ mark'[t].offset = f.to
      /\ \A u \in Terminals \ {t} : mark'[u] = mark[u]
  BY <1>1, <1>2, MarkAfter
<1> HIDE DEF f, r
<1>5. \A j \in Conns \ {k} : Stream(j)' = Stream(j)
  BY <1>3 DEF Stream
<1>6. /\ InOrder(r, epoch, total) /\ f.epoch <= epoch
      /\ f.to <= total[f.epoch]
      /\ \A i \in 1..Len(r) : f.epoch = r[i].epoch /\ f.to <= r[i].from
  <2>1. InOrder(<<f>> \o r, epoch, total)
    BY <1>1, <1>3 DEF PromiseInv, AheadInv, Ahead
  <2> QED  BY <1>3, <2>1, OrderTail
<1>7. MarksInv'
  <2> SUFFICES ASSUME NEW u \in Terminals, mark'[u] # None
               PROVE  /\ mark'[u].epoch <= epoch
                      /\ mark'[u].offset <= total[mark'[u].epoch]
    BY <1>3 DEF MarksInv, masterVars
  <2>1. CASE mark'[u] = mark[u]
    BY <2>1 DEF PromiseInv, MarksInv
  <2>2. CASE mark'[u] # mark[u]
    BY <1>4, <1>6, <2>2
  <2> QED  BY <2>1, <2>2
<1>8. EndsInv'
  <2>1. ASSUME NEW j \in Conns
        PROVE  \A d \in Due(j)' : EndsAt(Stream(j), epoch, d[2])'
    <3>1. CASE j = k
      <4>1. <<f>> \in Seq(Frame)
        BY <1>3
      <4> QED  BY <1>3, <3>1, <4>1, SuffixEndsKept
    <3>2. CASE j # k
      <4>1. Stream(j) \in Seq(Frame) /\ <<>> \in Seq(Frame)
        BY <1>2, StreamTyped
      <4>2. Stream(j) = <<>> \o Stream(j) /\ Stream(j)' = Stream(j)
        BY <1>5, <3>2, <4>1, ConcatEmptySeq
      <4> QED  BY <1>3, <4>1, <4>2, SuffixEndsKept
    <3> QED  BY <3>1, <3>2
  <2> QED  BY <2>1 DEF EndsInv
<1>9. Ahead(t, k)'
  <2>1. mode[k] # "plain" => NoneBehind(mark'[t], r)
    <3> SUFFICES ASSUME mode[k] # "plain", mark'[t] # None,
                        NEW i \in 1..Len(r)
                 PROVE  NotBehind(mark'[t], r[i])
      BY DEF NoneBehind
    <3>1. CASE mark'[t] = mark[t]
      <4>1. NoneBehind(mark[t], <<f>> \o r)
        BY <1>1, <1>3 DEF PromiseInv, AheadInv, Ahead
      <4>2. <<f>> \in Seq(Frame)
        BY <1>3
      <4>3. /\ Len(<<f>>) + i \in 1..Len(<<f>> \o r)
            /\ (<<f>> \o r)[Len(<<f>>) + i] = r[i]
        BY <1>3, <4>2, SuffixOf
      <4> QED  BY <3>1, <4>1, <4>3 DEF NoneBehind
    <3>2. CASE mark'[t] # mark[t]
      BY <1>4, <1>6, <3>2 DEF NotBehind
    <3> QED  BY <3>1, <3>2
  <2> QED  BY <1>3, <1>6, <2>1 DEF Ahead, masterVars, connVars
<1>10. AheadInv'
  <2>1. ASSUME NEW u \in Terminals, NEW j \in Conns, link'[u] = j
        PROVE  Ahead(u, j)'
    <3>1. CASE u = t
      <4>1. j = k
        BY <1>1, <1>3, <2>1, <3>1
      <4> QED  BY <1>9, <3>1, <4>1
    <3>2. CASE u # t
      <4>1. link[u] = j /\ j # k
        BY <1>1, <1>2, <1>3, <2>1, <3>2, NoConnIsReader DEF IInv, OneEach
      <4>2. Ahead(u, j)
        BY <4>1 DEF PromiseInv, AheadInv
      <4>3. Stream(j)' = Stream(j) /\ mark'[u] = mark[u]
        BY <1>4, <1>5, <3>2, <4>1
      <4> QED  BY <1>3, <4>2, <4>3
               DEF Ahead, InOrder, NoneBehind, masterVars, connVars
    <3> QED  BY <3>1, <3>2
  <2> QED  BY <2>1 DEF AheadInv
<1> QED  BY <1>2, <1>7, <1>8, <1>10 DEF PromiseInv

-----------------------------------------------------------------------------
LEMMA QuietStep ==
    ASSUME IInv, IInv',
           \/ \E n \in ReadSizes : ReadOutput(n)
           \/ ReaderNext
           \/ \E k \in Conns : WriterNext(k)
           \/ \E k \in Conns : ConnNext(k) /\ ~Attach(k)
           \/ \E seed \in Seeds : Replaced(seed)
    PROVE  UNCHANGED <<mode, termVars>> /\ Grows
<1> USE DEF masterVars, connVars
<1>1. TypeOK /\ TypeOK'
  BY DEF IInv
<1>2. ASSUME NEW n \in ReadSizes, ReadOutput(n)
      PROVE  UNCHANGED <<mode, termVars>> /\ Grows
  <2> DEFINE m == total[epoch] + n
  <2>1. /\ n \in Nat /\ total \in [Epochs -> Nat] /\ epoch \in Epochs
        /\ epoch' = epoch
        /\ total' = [total EXCEPT ![epoch] = m]
        /\ UNCHANGED <<mode, termVars>>
    BY <1>1, <1>2, SessionAssumption DEF ReadOutput, TypeOK
  <2>2. total[epoch] <= m
    BY <2>1
  <2> HIDE DEF m
  <2>3. ASSUME NEW e \in Epochs PROVE total[e] <= total'[e]
    BY <1>1, <2>1, <2>2, <2>3, Produced
  <2> QED  BY <1>1, <2>1, <2>3, Produced DEF Grows
<1>3. ASSUME UNCHANGED <<epoch, total, mode, termVars>>
      PROVE  UNCHANGED <<mode, termVars>> /\ Grows
  <2>1. \A e \in Epochs : total[e] <= total'[e]
    BY <1>1, <1>3, Produced
  <2> QED  BY <1>1, <1>3, <2>1, Produced DEF Grows
<1>4. CASE ReaderNext
  <2>1. UNCHANGED <<epoch, total, mode, termVars>>
    BY <1>4 DEF ReaderNext, SendOutput, SentToAll, RemoveFailed
  <2> QED  BY <1>3, <2>1
<1>5. ASSUME NEW k \in Conns, WriterNext(k)
      PROVE  UNCHANGED <<mode, termVars>> /\ Grows
  <2>1. UNCHANGED <<epoch, total, mode, termVars>>
    BY <1>5 DEF WriterNext, WriterPops, WriterWrites, WriterFails
  <2> QED  BY <1>3, <2>1
<1>6. ASSUME NEW k \in Conns, ConnNext(k), ~Attach(k)
      PROVE  UNCHANGED <<mode, termVars>> /\ Grows
  <2>1. UNCHANGED <<epoch, total, mode, termVars>>
    BY <1>6 DEF ConnNext, SendChunk, SendMarker, Insert, LoopEnds,
                RemoveClient, CloseChannel
  <2> QED  BY <1>3, <2>1
<1>7. ASSUME NEW seed \in Seeds, Replaced(seed)
      PROVE  UNCHANGED <<mode, termVars>> /\ Grows
  <2>1. /\ UNCHANGED <<mode, termVars>> /\ epoch' = epoch + 1
        /\ total' = [total EXCEPT ![epoch + 1] = seed]
    BY <1>7 DEF Replaced
  <2>2. ASSUME NEW e \in Epochs, e <= epoch PROVE total[e] <= total'[e]
    <3>1. total[e] \in Nat /\ e \in Nat /\ epoch \in Nat
      BY <1>1, Produced
    <3>2. total \in [Epochs -> Nat]
      BY <1>1 DEF TypeOK
    <3>3. e # epoch + 1
      BY <2>2, <3>1
    <3>4. total'[e] = total[e]
      BY <2>1, <3>2, <3>3
    <3> QED  BY <3>1, <3>4
  <2> QED  BY <1>1, <2>1, <2>2, Produced DEF Grows
<1> QED  BY <1>2, <1>4, <1>5, <1>6, <1>7

LEMMA InitPromiseInv == Init => PromiseInv
<1> SUFFICES ASSUME Init PROVE PromiseInv
  OBVIOUS
<1>1. IInv
  BY InitIInv
<1>2. \A k \in Conns : Stream(k) = <<>>
  BY DEF Init, Stream, EmptyQueue
<1>3. \A t \in Terminals : mark[t] = None
  BY DEF Init
<1>4. \A k \in Conns : Due(k) = {}
  BY DEF Init, Due, EmptyQueue
<1>5. MarksInv /\ EndsInv
  BY <1>3, <1>4 DEF MarksInv, EndsInv
<1>6. AheadInv
  BY <1>3, NoConnIsReader DEF Init, AheadInv
<1> QED  BY <1>1, <1>5, <1>6 DEF PromiseInv

LEMMA NextPromiseInv == PromiseInv /\ [Next]_vars => PromiseInv'
<1> SUFFICES ASSUME PromiseInv, [Next]_vars PROVE PromiseInv'
  OBVIOUS
<1>1. IInv /\ IInv'
  BY NextIInv DEF PromiseInv
<1>2. ASSUME NEW n \in ReadSizes, ReadOutput(n) PROVE PromiseInv'
  BY <1>1, <1>2, ReadOutputStep, QuietStep, SmoothStep
<1>3. CASE ReaderNext
  <2>1. Smooth
    BY <1>1, <1>3, SendOutputStep, SentToAllStep, RemoveFailedStep
       DEF ReaderNext
  <2> QED  BY <1>1, <1>3, <2>1, QuietStep, SmoothStep
<1>4. ASSUME NEW k \in Conns, ConnNext(k) PROVE PromiseInv'
  <2>1. CASE Attach(k)
    BY <2>1, AttachKeeps
  <2>2. CASE ~Attach(k)
    <3>1. Smooth
      BY <1>1, <1>4, <2>2, SendChunkStep, SendMarkerStep, InsertStep,
         LoopEndsStep, RemoveClientStep, CloseChannelStep DEF ConnNext
    <3> QED  BY <1>1, <1>4, <2>2, <3>1, QuietStep, SmoothStep
  <2> QED  BY <2>1, <2>2
<1>5. ASSUME NEW k \in Conns, WriterNext(k) PROVE PromiseInv'
  <2>1. Smooth
    BY <1>1, <1>5, WriterPopsStep, WriterWritesStep, WriterFailsStep
       DEF WriterNext
  <2> QED  BY <1>1, <1>5, <2>1, QuietStep, SmoothStep
<1>6. ASSUME NEW seed \in Seeds, Replaced(seed) PROVE PromiseInv'
  BY <1>1, <1>6, ReplacedStep, QuietStep, SmoothStep
<1>7. ASSUME NEW t \in Terminals, NEW k \in Conns, NEW replay \in BOOLEAN,
             NEW resume \in {None, mark[t]}, Dial(t, k, replay, resume)
      PROVE  PromiseInv'
  BY <1>7, DialKeeps
<1>8. ASSUME NEW t \in Terminals, ReadFrame(t) PROVE PromiseInv'
  BY <1>8, ReadKeeps
<1>9. ASSUME NEW t \in Terminals, Hangup(t) \/ SeesEnd(t) PROVE PromiseInv'
  BY <1>9, UnlinkKeeps DEF Hangup, SeesEnd
<1>10. CASE UNCHANGED vars
  <2>1. \A k \in Conns : Stream(k)' = Stream(k) /\ Due(k)' = Due(k)
    <3> TAKE k \in Conns
    <3>1. DueAnswer(k)' = DueAnswer(k)
      BY <1>10 DEF DueAnswer, Total, vars, masterVars, connVars
    <3> QED  BY <1>10, <3>1 DEF Stream, Due, Total, vars, masterVars,
                                connVars, channelVars
  <2> USE DEF vars, masterVars, connVars, termVars
  <2>2. MarksInv'
    BY <1>10 DEF PromiseInv, MarksInv
  <2>3. EndsInv'
    BY <1>10, <2>1 DEF PromiseInv, EndsInv, EndsAt
  <2>4. AheadInv'
    BY <1>10, <2>1 DEF PromiseInv, AheadInv, Ahead, InOrder, NoneBehind
  <2> QED  BY <1>1, <2>2, <2>3, <2>4 DEF PromiseInv
<1> QED
  BY <1>2, <1>3, <1>4, <1>5, <1>6, <1>7, <1>8, <1>9, <1>10 DEF Next


\* In every state of every behaviour, what is on its way to a terminal is
\* output there has been, ahead of what the terminal shows and ending where the
\* master goes on (add_client, broadcast_output, bridge_terminal).
THEOREM PromiseInvHolds == Spec => []PromiseInv
<1> QED  BY InitPromiseInv, NextPromiseInv, PTL DEF Spec

LEMMA CompleteClients == PromiseInv => ClientsAreComplete
<1> SUFFICES ASSUME PromiseInv, NEW k \in clients, ~queue[k].closed,
                    ~(reader.pc = "sending" /\ k \in reader.todo)
             PROVE  IF Stream(k) # <<>>
                    THEN LET last == Stream(k)[Len(Stream(k))]
                         IN  last.epoch = epoch /\ last.to = Total
                    ELSE \A t \in Terminals :
                           link[t] = k /\ live[t] => mark[t] = Here
  BY DEF ClientsAreComplete
<1>1. k \in Conns /\ TypeOK
  BY DEF PromiseInv, IInv, TypeOK
<1>2. pc[k] \in {"attached", "leaving"}
  BY <1>1 DEF PromiseInv, IInv, ConnInv
<1>3. <<"output", Total>> \in Due(k)
  BY <1>2 DEF Due
<1>4. CASE Stream(k) # <<>>
  <2>1. EndsAt(Stream(k), epoch, <<"output", Total>>[2])
    BY <1>1, <1>3 DEF PromiseInv, EndsInv
  <2> QED  BY <1>4, <2>1 DEF EndsAt
<1>5. ASSUME Stream(k) = <<>>, NEW t \in Terminals, link[t] = k, live[t]
      PROVE  mark[t] = Here
  <2> DEFINE v == View(t, k)
  <2>1. Serves(k, t)
    BY <1>1, <1>5 DEF PromiseInv, IInv, TerminalInv
  <2>2. /\ Received(v)
        /\ Continues(v, Stream(k), epoch, <<"output", Total>>[1],
                     <<"output", Total>>[2])
    BY <1>3, <2>1 DEF Serves
  <2>3. v.live /\ v.mark = mark[t]
    BY <1>1, <1>5, ViewTyped
  <2> HIDE DEF v
  <2>4. Reaches(v, epoch, Total)
    BY <1>5, <2>2 DEF Continues
  <2>5. mark[t] # None /\ mark[t].epoch = epoch /\ mark[t].offset = Total
    BY <2>2, <2>3, <2>4 DEF Received, Reaches
  <2>6. mark[t] \in [epoch : Epochs, offset : Nat]
    BY <1>1, <2>5 DEF TypeOK, Position
  <2> QED  BY <2>5, <2>6 DEF Here
<1> QED  BY <1>4, <1>5

\* Nobody who is sent the output has missed any of it: what is on its way to a
\* client ends where the output does, or its terminal is there already. A client
\* that could not be sent a chunk is closed (broadcast_output, add_client).
THEOREM ClientsStayComplete == Spec => []ClientsAreComplete
<1> QED  BY PromiseInvHolds, CompleteClients, PTL

-----------------------------------------------------------------------------
\* Every step is one of the promise, or changes nothing it speaks of.
LEMMA InitPromised == Init => Promise!Init
BY DEF Init, Promise!Init, Epochs, Promise!Epochs

LEMMA OutputPromised ==
    ASSUME TypeOK, NEW n \in ReadSizes, ReadOutput(n)
    PROVE  Promise!Next
<1>1. /\ n \in Nat /\ epoch \in Epochs /\ total \in [Epochs -> Nat]
      /\ total' = [total EXCEPT ![epoch] = total[epoch] + n]
      /\ UNCHANGED <<epoch, screen>>
  BY SessionAssumption DEF TypeOK, ReadOutput, termVars
<1>2. total[epoch] \in Nat /\ total'[epoch] = total[epoch] + n
  BY <1>1
<1>3. Promise!Produce
  BY <1>1, <1>2 DEF Promise!Produce
<1> QED  BY <1>3 DEF Promise!Next

LEMMA ReplacedPromised ==
    ASSUME TypeOK, NEW seed \in Seeds, Replaced(seed)
    PROVE  Promise!Next
<1>1. /\ seed \in Nat /\ epoch \in Epochs /\ total \in [Epochs -> Nat]
      /\ epoch < MaxEpoch /\ epoch' = epoch + 1
      /\ total' = [total EXCEPT ![epoch + 1] = seed]
      /\ UNCHANGED screen
  BY SessionAssumption DEF TypeOK, Replaced, termVars
<1>2. epoch + 1 \in Epochs
  BY <1>1, SessionAssumption DEF Epochs
<1>3. total'[epoch + 1] = seed
  BY <1>1, <1>2
<1>4. Promise!NewMaster
  BY <1>1, <1>3 DEF Promise!NewMaster
<1> QED  BY <1>4 DEF Promise!Next

\* The bytes of a sequence, when each is the next one.
LEMMA NextBytes ==
    ASSUME NEW e \in Epochs, NEW p \in Nat, NEW b \in Seq(Byte),
           \A i \in 1..Len(b) : b[i] = <<e, p + i>>
    PROVE  b = [i \in 1..Len(b) |-> <<e, p + i>>]
<1> DEFINE n == Len(b)
<1>1. n \in Nat
  BY LenProperties
<1> HIDE DEF n
<1>2. \A i \in 1..n : <<e, p + i>> \in Byte
  BY <1>1 DEF Byte
<1>3. PICK c : c = [i \in 1..n |-> <<e, p + i>>]
  OBVIOUS
<1>4. \A i \in 1..n : c[i] = <<e, p + i>> /\ c[i] \in Byte
  BY <1>2, <1>3
<1>5. c = [i \in 1..n |-> c[i]]
  BY <1>3
<1>6. c \in [1..n -> Byte]
  BY <1>4, <1>5
<1>7. c \in Seq(Byte) /\ Len(c) = n
  BY <1>1, <1>6
<1>8. b = c
  BY <1>4, <1>7, SeqEqual DEF n
<1> QED  BY <1>3, <1>8 DEF n

\* Bytes that come next are an extension of the screen.
LEMMA ExtendPromised ==
    ASSUME TypeOK, NEW t \in Terminals, NEW b \in Seq(Byte),
           Exact(screen[t], mark[t]), screen[t] # None,
           \A i \in 1..Len(b) : b[i] = <<mark[t].epoch, mark[t].offset + i>>,
           mark[t].offset + Len(b) <= total[mark[t].epoch],
           screen' = [screen EXCEPT ![t].bytes = @ \o b],
           UNCHANGED <<epoch, total>>
    PROVE  Promise!Next
<1> DEFINE s == screen[t]
           e == s.epoch
           p == s.base + Len(s.bytes)
           n == Len(b)
<1>1. s \in Screen /\ screen \in [Terminals -> Screen \cup {None}]
      /\ total \in [Epochs -> Nat]
  BY DEF TypeOK
<1>2. e \in Epochs /\ s.base \in Nat /\ s.bytes \in Seq(Byte)
  BY <1>1 DEF Screen
<1>3. p \in Nat /\ n \in Nat /\ total[e] \in Nat
  <2>1. Len(s.bytes) \in Nat /\ n \in Nat
    BY <1>2, LenProperties
  <2> QED  BY <1>1, <1>2, <2>1
<1>4. mark[t].epoch = e /\ mark[t].offset = p
  <2>1. mark[t] = EndOf(s)
    BY DEF Exact
  <2> QED  BY <2>1 DEF EndOf
<1>5. p + n <= total[e] /\ \A i \in 1..n : b[i] = <<e, p + i>>
  BY <1>4
<1>6. Promise!EndOf(s) = p
  BY DEF Promise!EndOf
<1> HIDE DEF p, n
<1>7. n \in 0..total[e]
  BY <1>3, <1>5
<1>8. b = [i \in 1..n |-> <<e, p + i>>]
  BY <1>2, <1>3, <1>5, NextBytes DEF n
<1>9. screen' = [screen EXCEPT ![t].bytes =
                   @ \o [i \in 1..n |-> <<e, p + i>>]]
  BY <1>8
<1>10. Promise!Extend(t, n)
  BY <1>5, <1>6, <1>9 DEF Promise!Extend
<1> QED  BY <1>7, <1>10 DEF Promise!Next

\* The frame a terminal reads is of output there has been, and ahead of it
\* unless the attach is not answered.
LEMMA FrontAhead ==
    ASSUME PromiseInv, NEW t \in Terminals, NEW k \in Conns, link[t] = k,
           ReadFrame(t)
    PROVE  /\ Front(k).epoch <= epoch
           /\ Front(k).to <= total[Front(k).epoch]
           /\ Front(k).kind = "replayDone" /\ mark[t] # None =>
                NotBehind(mark[t], Front(k))
<1> DEFINE f == Front(k)
           r == Behind(k)
           v == View(t, k)
<1>1. /\ f \in Frame /\ r \in Seq(Frame) /\ Stream(k) = <<f>> \o r
      /\ Serves(k, t) /\ TypeOK
  BY FrontFrame DEF PromiseInv, IInv
<1>2. /\ InOrder(Stream(k), epoch, total)
      /\ mode[k] # "plain" => NoneBehind(mark[t], Stream(k))
  BY DEF PromiseInv, AheadInv, Ahead
<1>3. v.mode = mode[k]
  BY <1>1, ViewTyped
<1>4. Fitting(v, Stream(k))
  BY <1>1 DEF Serves
<1> HIDE DEF f, r, v
<1>5. f.epoch <= epoch /\ f.to <= total[f.epoch]
  BY <1>1, <1>2, OrderTail
<1>6. 1 \in 1..Len(Stream(k)) /\ Stream(k)[1] = f
  <2>1. <<f>> \in Seq(Frame) /\ Len(<<f>>) = 1 /\ <<f>>[1] = f
    BY <1>1
  <2>2. /\ Len(Stream(k)) = 1 + Len(r) /\ Len(r) \in Nat
        /\ Stream(k)[1] = f
    BY <1>1, <2>1, ConcatProperties, LenProperties
  <2> QED  BY <2>2
<1>7. ASSUME f.kind = "replayDone", mark[t] # None PROVE NotBehind(mark[t], f)
  <2>1. mode[k] # "plain"
    BY <1>3, <1>4, <1>6, <1>7 DEF Fitting
  <2> QED  BY <1>2, <1>6, <1>7, <2>1 DEF NoneBehind
<1> QED  BY <1>5, <1>7 DEF f

\* A replay repaints the terminal where it is, or later.
LEMMA RepaintPromised ==
    ASSUME TypeOK, NEW t \in Terminals, NEW f \in Frame,
           Exact(screen[t], mark[t]),
           f.epoch <= epoch, f.from <= total[f.epoch],
           mark[t] # None => NotBehind(mark[t], f),
           screen[t] # None => mark[t] # None,
           screen' = [screen EXCEPT ![t] = [epoch |-> f.epoch,
                                            base |-> f.from, bytes |-> <<>>]],
           UNCHANGED <<epoch, total>>
    PROVE  Promise!Next
<1>1. f.epoch \in Epochs /\ f.from \in Nat /\ epoch \in Epochs
  BY FrameFields DEF TypeOK
<1>2. f.epoch \in Nat /\ f.epoch >= 1 /\ epoch \in Nat
      /\ total[f.epoch] \in Nat
  BY <1>1, SessionAssumption DEF Epochs, TypeOK
<1>3. f.epoch \in 1..epoch /\ f.from \in 0..total[f.epoch]
  BY <1>1, <1>2
<1>4. ASSUME screen[t] # None
      PROVE  \/ f.epoch > screen[t].epoch
             \/ /\ f.epoch = screen[t].epoch
                /\ f.from >= screen[t].base + Len(screen[t].bytes)
  <2> DEFINE m == mark[t]
             p == screen[t].base + Len(screen[t].bytes)
  <2>1. m = [epoch |-> screen[t].epoch, offset |-> p]
    BY <1>4 DEF Exact, EndOf
  <2>2. m \in Position
    BY <1>4 DEF TypeOK
  <2>3. /\ m.epoch = screen[t].epoch /\ m.offset = p
        /\ m.epoch \in Nat /\ m.offset \in Nat
    BY <2>1, <2>2, EpochsAreNat DEF Position
  <2>4. NotBehind(m, f)
    BY <1>4
  <2> HIDE DEF m, p
  <2>5. f.epoch > m.epoch \/ (f.epoch = m.epoch /\ f.from >= m.offset)
    BY <1>1, <1>2, <2>3, <2>4 DEF NotBehind
  <2> QED  BY <2>3, <2>5 DEF p
<1>5. Promise!NotBefore(f.epoch, f.from, screen[t])
  BY <1>4 DEF Promise!NotBefore, Promise!EndOf
<1>6. Promise!Repaint(t, f.epoch, f.from)
  BY <1>3, <1>5 DEF Promise!Repaint
<1> QED  BY <1>3, <1>6 DEF Promise!Next

LEMMA ReadPromised ==
    ASSUME PromiseInv, NEW t \in Terminals, ReadFrame(t)
    PROVE  [Promise!Next]_(Promise!vars)
<1>1. PICK k \in Conns : link[t] = k
  BY DEF PromiseInv, IInv, TypeOK, ReadFrame
<1> DEFINE f == Front(k)
           v == View(t, k)
<1>2. /\ f \in Frame /\ ReadCase(t, f) /\ Received(v) /\ Spans(f)
      /\ f.kind \in Ready(v) /\ Reaches(v, f.epoch, f.from)
      /\ UNCHANGED <<epoch, total>> /\ TypeOK
  BY <1>1, FrontFrame DEF PromiseInv, IInv, Serves, masterVars
<1>3. /\ f.epoch <= epoch /\ f.to <= total[f.epoch]
      /\ f.kind = "replayDone" /\ mark[t] # None => NotBehind(mark[t], f)
  BY <1>1, FrontAhead
<1>4. Exact(screen[t], mark[t]) /\ (screen[t] = None <=> mark[t] = None)
  BY DEF PromiseInv, IInv, TerminalExact, ScreensInv, Exact
<1>5. /\ v.live = live[t] /\ v.base = pending[t].base
      /\ v.bytes = pending[t].bytes /\ v.mark = mark[t]
  BY <1>2, ViewTyped
<1>6. /\ f.from \in Nat /\ f.to \in Nat /\ f.epoch \in Epochs
      /\ f.kind # "output" => f.from = f.to
      /\ screen \in [Terminals -> Screen \cup {None}]
      /\ pending[t].bytes \in Seq(Byte)
  BY <1>2, FrameFields DEF Spans, TypeOK
<1> HIDE DEF f, v
<1>7. CASE screen' = screen
  BY <1>2, <1>7 DEF Promise!vars
<1>8. CASE /\ f.kind = "output" /\ live[t]
           /\ screen' = [screen EXCEPT ![t].bytes = @ \o BytesOf(f)]
  <2> DEFINE b == BytesOf(f)
             m == mark[t]
  <2>1. m # None /\ m.epoch = f.epoch /\ m.offset = f.from
    BY <1>2, <1>5, <1>8 DEF Received, Reaches
  <2>2. /\ b \in Seq(Byte) /\ Len(b) = f.to - f.from
        /\ \A i \in 1..Len(b) : b[i] = <<f.epoch, f.from + i>>
    BY <1>2, BytesOfFrame
  <2>3. screen[t] # None
    BY <1>4, <2>1
  <2> HIDE DEF b
  <2>4. m.offset + Len(b) = f.to
    BY <1>6, <2>1, <2>2
  <2>5. /\ \A i \in 1..Len(b) : b[i] = <<m.epoch, m.offset + i>>
        /\ m.offset + Len(b) <= total[m.epoch]
    BY <1>3, <2>1, <2>2, <2>4
  <2> QED  BY <1>2, <1>4, <1>8, <2>2, <2>3, <2>5, ExtendPromised DEF b
<1>9. CASE /\ f.kind = "replayDone"
           /\ screen' = [screen EXCEPT ![t] = [epoch |-> f.epoch,
                                               base |-> pending[t].base,
                                               bytes |-> pending[t].bytes]]
  <2>1. pending[t].base = f.from /\ pending[t].bytes = <<>>
    <3>1. v.base # None
      BY <1>2, <1>9 DEF Ready
    <3> QED  BY <1>2, <1>5, <3>1 DEF Reaches, Received
  <2>2. screen' = [screen EXCEPT ![t] = [epoch |-> f.epoch, base |-> f.from,
                                         bytes |-> <<>>]]
    BY <1>9, <2>1
  <2>3. f.from <= total[f.epoch] /\ (mark[t] # None => NotBehind(mark[t], f))
    BY <1>3, <1>6, <1>9
  <2> QED  BY <1>2, <1>3, <1>4, <2>2, <2>3, RepaintPromised
<1>10. CASE /\ f.kind = "resumeDone"
            /\ screen' = [screen EXCEPT ![t].bytes = @ \o pending[t].bytes]
  <2> DEFINE b == pending[t].bytes
             m == mark[t]
  <2>1. /\ m # None /\ m.epoch = f.epoch /\ m.offset + Len(b) = f.from
        /\ \A i \in 1..Len(b) : b[i] = <<m.epoch, m.offset + i>>
    <3>1. CASE v.live
      <4>1. m # None /\ m.epoch = f.epoch /\ m.offset = f.from /\ b = <<>>
        BY <1>2, <1>5, <3>1 DEF Received, Reaches
      <4>2. Len(b) = 0 /\ f.from + 0 = f.from
        BY <1>6, <4>1
      <4> QED  BY <4>1, <4>2
    <3>2. CASE ~v.live
      <4>1. v.mode = "resume"
        BY <1>2, <1>10, <3>2 DEF Ready
      <4> QED  BY <1>2, <1>5, <3>2, <4>1 DEF Received, Reaches
    <3> QED  BY <3>1, <3>2
  <2>2. m.offset + Len(b) <= total[m.epoch] /\ b \in Seq(Byte)
    BY <1>3, <1>6, <1>10, <2>1
  <2>3. screen[t] # None
    BY <1>4, <2>1
  <2> QED  BY <1>2, <1>4, <1>10, <2>1, <2>2, <2>3, ExtendPromised
<1> QED
  BY <1>2, <1>7, <1>8, <1>9, <1>10 DEF ReadCase

LEMMA NextPromised ==
    ASSUME PromiseInv, [Next]_vars
    PROVE  [Promise!Next]_(Promise!vars)
<1>1. TypeOK
  BY DEF PromiseInv, IInv
<1>2. CASE UNCHANGED <<epoch, total, screen>>
  BY <1>2 DEF Promise!vars
<1>3. ASSUME NEW n \in ReadSizes, ReadOutput(n) PROVE Promise!Next
  BY <1>1, <1>3, OutputPromised
<1>4. ASSUME NEW seed \in Seeds, Replaced(seed) PROVE Promise!Next
  BY <1>1, <1>4, ReplacedPromised
<1>5. ASSUME NEW t \in Terminals, ReadFrame(t)
      PROVE  [Promise!Next]_(Promise!vars)
  BY <1>5, ReadPromised
<1> USE DEF masterVars, termVars
<1>6. CASE ReaderNext
  BY <1>2, <1>6 DEF ReaderNext, SendOutput, SentToAll, RemoveFailed
<1>7. ASSUME NEW k \in Conns, ConnNext(k) PROVE UNCHANGED <<epoch, total, screen>>
  BY <1>7 DEF ConnNext, Attach, SendChunk, SendMarker, Insert, LoopEnds,
              RemoveClient, CloseChannel
<1>8. ASSUME NEW k \in Conns, WriterNext(k)
      PROVE  UNCHANGED <<epoch, total, screen>>
  BY <1>8 DEF WriterNext, WriterPops, WriterWrites, WriterFails
<1>9. ASSUME NEW t \in Terminals, NEW k \in Conns, NEW replay \in BOOLEAN,
             NEW resume \in {None, mark[t]}, Dial(t, k, replay, resume)
      PROVE  UNCHANGED <<epoch, total, screen>>
  BY <1>9 DEF Dial
<1>10. ASSUME NEW t \in Terminals, Hangup(t) \/ SeesEnd(t)
       PROVE  UNCHANGED <<epoch, total, screen>>
  BY <1>10 DEF Hangup, SeesEnd, Unlink
<1>11. CASE UNCHANGED vars
  BY <1>2, <1>11 DEF vars
<1> QED
  BY <1>2, <1>3, <1>4, <1>5, <1>6, <1>7, <1>8, <1>9, <1>10, <1>11 DEF Next

\* A session implements TerminalStream: whatever happens to connections and
\* masters, a terminal only moves forward, by a repaint at a later position or
\* by exactly the bytes that come next (broadcast_output, add_client, since,
\* bridge_terminal).
THEOREM SessionKeepsPromise == Spec => KeepsPromise
<1>1. Init => Promise!Init
  BY InitPromised
<1>2. PromiseInv /\ [Next]_vars => [Promise!Next]_(Promise!vars)
  BY NextPromised
<1> QED  BY <1>1, <1>2, PromiseInvHolds, PTL
         DEF Spec, KeepsPromise, Promise!Spec
=============================================================================
