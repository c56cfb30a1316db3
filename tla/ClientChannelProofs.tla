-------------------------- MODULE ClientChannelProofs --------------------------
(***************************************************************************)
(* What holds of a client's channel (ClientChannel.tla) for any number of  *)
(* senders, any sizes of frames and any backlog: its types, that frames    *)
(* leave in the order in which they were accepted, that the bytes counted  *)
(* are those queued and in flight, and that a drain leaves none behind.    *)
(***************************************************************************)
EXTENDS ClientChannel, CommonLemmas, SequenceTheorems, TLAPS

\* Frames that were taken off the queue: those that have left, and the one that
\* is being written or could not be.
Taken ==
    IF writer \in {"write", "failed"} THEN Len(written) + 1 ELSE Len(written)

\* Frames are numbered as they are accepted.
Numbered ==
    /\ Len(accepted) <= MaxSends
    /\ \A i \in 1..Len(accepted) : accepted[i].id = i

\* The first of them have left, and the next one is being written.
FirstLeft ==
    /\ Taken <= Len(accepted)
    /\ \A i \in 1..Len(written) : written[i] = i
    /\ writer \in {"write", "failed"} => inFlight = accepted[Len(written) + 1]

\* The queue holds the others, until the channel is closed or the writer has
\* given up on a frame.
OthersWait ==
    /\ queue.closed => queue.frames = <<>>
    /\ writer \in {"check", "write", "wrote", "failed"} /\ ~queue.closed =>
         /\ Len(queue.frames) = Len(accepted) - Taken
         /\ \A i \in 1..Len(queue.frames) : queue.frames[i] = accepted[Taken + i]

OrderInv == TypeOK /\ Numbered /\ FirstLeft /\ OthersWait

-----------------------------------------------------------------------------
LEMMA OrderInit == Init => OrderInv
<1> SUFFICES ASSUME Init
             PROVE  OrderInv
  OBVIOUS
<1>1. /\ queue \in QueuesOf(Frame)
      /\ queue.frames = <<>>
  BY EmptyQueueIs DEF Init
<1>2. TypeOK
  <2>1. queue \in [frames : Seq(Frame), bytes : Nat, closed : BOOLEAN]
    BY <1>1 DEF QueuesOf
  <2>2. accepted \in Seq(Frame) /\ written \in Seq(1..MaxSends)
    BY EmptySeq DEF Init
  <2>3. unread \in 0..SocketSpace /\ mustDrain \in 0..MaxSends
    BY ClientChannelAssumption DEF Init
  <2>. QED
    BY <2>1, <2>2, <2>3 DEF Init, TypeOK
<1>3. Numbered /\ FirstLeft /\ OthersWait
  BY <1>1, ClientChannelAssumption DEF Init, Numbered, FirstLeft, OthersWait, Taken
<1>. QED
  BY <1>2, <1>3 DEF OrderInv

\* What the steps of the writer and of `send` need of the types.
LEMMA Typed ==
    ASSUME TypeOK
    PROVE  /\ queue \in QueuesOf(Frame)
           /\ queue.frames \in Seq(Frame)
           /\ accepted \in Seq(Frame)
           /\ Len(accepted) \in Nat
           /\ written \in Seq(1..MaxSends)
           /\ Len(written) \in Nat
           /\ Taken \in Nat
           /\ inFlight.size \in Nat
<1>1. queue \in QueuesOf(Frame)
  BY DEF TypeOK, QueuesOf
<1>2. queue.frames \in Seq(Frame)
  BY <1>1 DEF QueuesOf
<1>3. /\ accepted \in Seq(Frame) /\ Len(accepted) \in Nat
      /\ written \in Seq(1..MaxSends) /\ Len(written) \in Nat
  BY DEF TypeOK
<1>4. Taken \in Nat
  BY <1>3 DEF Taken
<1>5. inFlight.size \in Nat
  <2>1. inFlight \in Frame \cup {NoFrame}
    BY DEF TypeOK
  <2>2. ASSUME NEW f \in Frame
        PROVE  f.size \in Nat
    <3>1. f.size \in Sizes
      BY DEF Frame
    <3>. QED
      BY <3>1, ClientChannelAssumption
  <2>3. NoFrame.size \in Nat
    BY DEF NoFrame
  <2>. QED
    BY <2>1, <2>2, <2>3
<1>. QED
  BY <1>1, <1>2, <1>3, <1>4, <1>5

\* A frame that is accepted goes behind all others.
LEMMA SendKeepsOrder ==
    ASSUME OrderInv, NEW s \in Senders, NEW size \in Sizes, Send(s, size)
    PROVE  OrderInv'
<1> DEFINE f == [id |-> Len(accepted) + 1, size |-> size]
<1>1. /\ queue' = Pushed(queue, f)
      /\ accepted' = Append(accepted, f)
      /\ Len(accepted) < MaxSends
      /\ ~queue.closed
      /\ waiting' = {}
      /\ UNCHANGED <<sender, writer, inFlight, drainer, shut, unread, written,
                     mustDrain>>
  BY DEF Send, NotifyAll
<1>2. f \in Frame /\ f.id = Len(accepted) + 1 /\ f.size \in Nat
  BY <1>1, Typed, ClientChannelAssumption DEF Frame, OrderInv
<1> HIDE DEF f
<1>3. /\ queue' \in QueuesOf(Frame)
      /\ queue'.frames = Append(queue.frames, f)
      /\ queue'.closed = queue.closed
  BY <1>1, <1>2, Typed, PushedIs DEF OrderInv
<1>4. /\ accepted' \in Seq(Frame)
      /\ Len(accepted') = Len(accepted) + 1
      /\ \A i \in 1..Len(accepted) : accepted'[i] = accepted[i]
      /\ accepted'[Len(accepted) + 1] = f
  BY <1>1, <1>2, Typed, AppendProperties DEF OrderInv
<1>5. /\ Len(queue'.frames) = Len(queue.frames) + 1
      /\ \A i \in 1..Len(queue.frames) : queue'.frames[i] = queue.frames[i]
      /\ queue'.frames[Len(queue.frames) + 1] = f
  BY <1>2, <1>3, Typed, AppendProperties DEF OrderInv
<1>6. TypeOK'
  BY <1>1, <1>3, <1>4 DEF OrderInv, TypeOK, QueuesOf
<1>7. Numbered'
  BY <1>1, <1>2, <1>4, Typed, ClientChannelAssumption DEF OrderInv, Numbered
<1>8. Taken' = Taken
  BY <1>1 DEF Taken
<1>9. FirstLeft'
  <2>1. Taken <= Len(accepted')
    BY <1>4, Typed DEF OrderInv, FirstLeft
  <2>2. writer \in {"write", "failed"} => Len(written) + 1 \in 1..Len(accepted)
    BY Typed DEF OrderInv, FirstLeft, Taken
  <2>. QED
    BY <1>1, <1>4, <1>8, <2>1, <2>2 DEF OrderInv, FirstLeft
<1>10. OthersWait'
  <2> SUFFICES ASSUME writer \in {"check", "write", "wrote", "failed"}
               PROVE  /\ Len(queue'.frames) = Len(accepted') - Taken
                      /\ \A i \in 1..Len(queue'.frames) :
                           queue'.frames[i] = accepted'[Taken + i]
    BY <1>1, <1>3, <1>8 DEF OthersWait
  <2>1. /\ Len(queue.frames) = Len(accepted) - Taken
        /\ \A i \in 1..Len(queue.frames) : queue.frames[i] = accepted[Taken + i]
    BY <1>1 DEF OrderInv, OthersWait
  <2>2. /\ Len(queue.frames) \in Nat /\ Len(accepted) \in Nat /\ Taken \in Nat
        /\ Len(queue'.frames) = Len(accepted') - Taken
    BY <1>4, <1>5, <2>1, Typed DEF OrderInv
  <2>3. ASSUME NEW i \in 1..Len(queue'.frames)
        PROVE  queue'.frames[i] = accepted'[Taken + i]
    <3>1. CASE i \in 1..Len(queue.frames)
      <4>1. Taken + i \in 1..Len(accepted)
        BY <2>1, <2>2, <3>1
      <4>. QED
        BY <1>4, <1>5, <2>1, <3>1, <4>1
    <3>2. CASE i = Len(queue.frames) + 1
      <4>1. Taken + i = Len(accepted) + 1
        BY <2>1, <2>2, <3>2
      <4>. QED
        BY <1>4, <1>5, <3>2, <4>1
    <3>. QED
      BY <1>5, <2>2, <3>1, <3>2
  <2>. QED
    BY <2>2, <2>3
<1>. QED
  BY <1>6, <1>7, <1>9, <1>10 DEF OrderInv

\* The writer takes the oldest frame there is.
LEMMA PopKeepsOrder ==
    ASSUME OrderInv, WriterPops
    PROVE  OrderInv'
<1>1. /\ writer = "check" /\ writer' = "write"
      /\ queue.frames # <<>>
      /\ queue' = Popped(queue)
      /\ inFlight' = Head(queue.frames)
      /\ UNCHANGED <<waiting, sender, drainer, shut, unread, accepted, written,
                     mustDrain>>
  BY DEF WriterPops
<1>2. /\ queue' \in QueuesOf(Frame)
      /\ queue'.closed = queue.closed
      /\ inFlight' \in Frame
      /\ inFlight' = queue.frames[1]
      /\ Len(queue.frames) > 0
      /\ Len(queue'.frames) = Len(queue.frames) - 1
      /\ \A i \in 1..(Len(queue.frames) - 1) :
           queue'.frames[i] = queue.frames[i + 1]
  <2>1. queue \in QueuesOf(Frame)
    BY Typed DEF OrderInv
  <2>2. queue.frames # <<>>
    BY <1>1
  <2>3. /\ Popped(queue) \in QueuesOf(Frame)
        /\ Popped(queue).frames = Tail(queue.frames)
        /\ Popped(queue).closed = queue.closed
        /\ Head(queue.frames) \in Frame
        /\ Head(queue.frames) = queue.frames[1]
        /\ Len(queue.frames) > 0
        /\ Len(Tail(queue.frames)) = Len(queue.frames) - 1
        /\ \A i \in 1..(Len(queue.frames) - 1) :
             Tail(queue.frames)[i] = queue.frames[i + 1]
    BY <2>1, <2>2, PoppedIs
  <2>. QED
    BY <1>1, <2>3
<1>3. /\ ~queue.closed
      /\ Len(queue.frames) = Len(accepted) - Len(written)
      /\ \A i \in 1..Len(queue.frames) : queue.frames[i] = accepted[Len(written) + i]
  BY <1>1 DEF OrderInv, OthersWait, Taken
<1>4. TypeOK'
  BY <1>1, <1>2 DEF OrderInv, TypeOK, QueuesOf
<1>5. Taken' = Len(written) + 1
  BY <1>1 DEF Taken
<1>6. Numbered'
  BY <1>1 DEF OrderInv, Numbered
<1>7. FirstLeft'
  BY <1>1, <1>2, <1>3, <1>5, Typed DEF OrderInv, FirstLeft
<1>8. OthersWait'
  <2>1. Len(queue'.frames) = Len(accepted') - Taken'
    BY <1>1, <1>2, <1>3, <1>5, Typed DEF OrderInv
  <2>2. ASSUME NEW i \in 1..Len(queue'.frames)
        PROVE  queue'.frames[i] = accepted'[Taken' + i]
    <3>1. i \in 1..(Len(queue.frames) - 1) /\ i + 1 \in 1..Len(queue.frames)
      BY <1>2, <1>3, Typed DEF OrderInv
    <3>2. queue'.frames[i] = accepted[Len(written) + (i + 1)]
      BY <1>2, <1>3, <3>1
    <3>3. Len(written) + (i + 1) = Taken' + i
      BY <1>5, <3>1, Typed DEF OrderInv
    <3>. QED
      BY <1>1, <3>2, <3>3
  <2>. QED
    BY <1>2, <1>3, <2>1, <2>2 DEF OthersWait
<1>. QED
  BY <1>4, <1>6, <1>7, <1>8 DEF OrderInv

\* The frame that leaves is the next one.
LEMMA WriteKeepsOrder ==
    ASSUME OrderInv, WriterWrites
    PROVE  OrderInv'
<1>1. /\ writer = "write" /\ writer' = "wrote"
      /\ unread < SocketSpace /\ unread' = unread + 1
      /\ written' = Append(written, inFlight.id)
      /\ UNCHANGED <<queue, waiting, sender, inFlight, drainer, shut, accepted,
                     mustDrain>>
  BY DEF WriterWrites
<1>2. inFlight.id = Len(written) + 1 /\ Len(written) + 1 <= Len(accepted)
  <2>1. inFlight = accepted[Len(written) + 1] /\ Len(written) + 1 <= Len(accepted)
    BY <1>1 DEF OrderInv, FirstLeft, Taken
  <2>2. Len(written) + 1 \in 1..Len(accepted)
    BY <2>1, Typed DEF OrderInv
  <2>. QED
    BY <2>1, <2>2 DEF OrderInv, Numbered
<1>3. inFlight.id \in 1..MaxSends
  BY <1>2, Typed, ClientChannelAssumption DEF OrderInv, Numbered
<1>4. /\ written' \in Seq(1..MaxSends)
      /\ Len(written') = Len(written) + 1
      /\ \A i \in 1..Len(written) : written'[i] = written[i]
      /\ written'[Len(written) + 1] = Len(written) + 1
  BY <1>1, <1>2, <1>3, Typed, AppendProperties DEF OrderInv
<1>5. TypeOK'
  BY <1>1, <1>4, ClientChannelAssumption DEF OrderInv, TypeOK
<1>6. Taken' = Taken /\ Taken = Len(written) + 1
  BY <1>1, <1>4 DEF Taken
<1>7. FirstLeft'
  BY <1>1, <1>2, <1>4, <1>6, Typed DEF OrderInv, FirstLeft
<1>8. Numbered' /\ OthersWait'
  BY <1>1, <1>6 DEF OrderInv, Numbered, OthersWait
<1>. QED
  BY <1>5, <1>7, <1>8 DEF OrderInv

\* Counting a frame out leaves the others where they are.
LEMMA CountKeepsOrder ==
    ASSUME OrderInv, WriterCounts
    PROVE  OrderInv'
<1>1. /\ writer \in {"wrote", "failed"}
      /\ writer' = IF writer = "wrote" THEN "check" ELSE "close"
      /\ queue' = Counted(queue, inFlight)
      /\ inFlight' = NoFrame /\ waiting' = {}
      /\ UNCHANGED <<sender, drainer, shut, unread, accepted, written, mustDrain>>
  BY DEF WriterCounts, NotifyAll
<1>2. /\ queue' \in QueuesOf(Frame)
      /\ queue'.frames = queue.frames
      /\ queue'.closed = queue.closed
  BY <1>1, Typed, CountedIs DEF OrderInv
<1>3. TypeOK'
  BY <1>1, <1>2 DEF OrderInv, TypeOK, QueuesOf
<1>4. Taken' = Len(written) /\ Len(written) <= Taken
  BY <1>1, Typed DEF Taken, OrderInv
<1>5. writer = "wrote" => Taken = Len(written)
  BY DEF Taken
<1>6. Numbered' /\ FirstLeft' /\ OthersWait'
  BY <1>1, <1>2, <1>4, <1>5, Typed DEF OrderInv, Numbered, FirstLeft, OthersWait
<1>. QED
  BY <1>3, <1>6 DEF OrderInv

\* Closing a channel empties it, and nothing is taken off it after that.
LEMMA CloseKeepsOrder ==
    ASSUME OrderInv, CloseChannel,
           sender' \in [Senders -> {"idle", "overflow"}],
           writer' = writer \/ (writer = "close" /\ writer' = "done"),
           UNCHANGED <<inFlight, drainer, unread, accepted, written, mustDrain>>
    PROVE  OrderInv'
<1>1. /\ queue' \in QueuesOf(Frame)
      /\ queue'.frames = <<>> /\ queue'.closed
      /\ waiting' = {} /\ shut' = TRUE
  BY ClosedIs DEF CloseChannel, NotifyAll
<1>2. TypeOK'
  BY <1>1 DEF OrderInv, TypeOK, QueuesOf
<1>3. Taken' = Taken
  BY DEF Taken
<1>4. Numbered' /\ FirstLeft' /\ OthersWait'
  BY <1>1, <1>3 DEF OrderInv, Numbered, FirstLeft, OthersWait
<1>. QED
  BY <1>2, <1>4 DEF OrderInv

\* Steps that touch neither the queue nor what was accepted or has left.
LEMMA OthersKeepOrder ==
    ASSUME OrderInv, TypeOK', UNCHANGED <<queue, inFlight, accepted, written>>,
           \/ writer' = writer
           \/ writer = "write" /\ writer' = "failed"
           \/ writer' = "done"
    PROVE  OrderInv'
<1>1. Numbered'
  BY DEF OrderInv, Numbered
<1>2. CASE writer' = writer
  <2>1. Taken' = Taken
    BY <1>2 DEF Taken
  <2>. QED
    BY <1>1, <1>2, <2>1 DEF OrderInv, FirstLeft, OthersWait
<1>3. CASE writer = "write" /\ writer' = "failed"
  <2>1. Taken' = Taken
    BY <1>3 DEF Taken
  <2>. QED
    BY <1>1, <1>3, <2>1 DEF OrderInv, FirstLeft, OthersWait
<1>4. CASE writer' = "done"
  <2>1. Taken' = Len(written) /\ Taken' <= Taken
    BY <1>4, Typed DEF OrderInv, Taken
  <2>. QED
    BY <1>1, <1>4, <2>1, Typed DEF OrderInv, FirstLeft, OthersWait
<1>. QED
  BY <1>2, <1>3, <1>4

-----------------------------------------------------------------------------
\* Every step keeps the types and the order.
LEMMA OrderNext == OrderInv /\ [Next]_vars => OrderInv'
<1> SUFFICES ASSUME OrderInv, [Next]_vars
             PROVE  OrderInv'
  OBVIOUS
<1>1. CASE \E s \in Senders, size \in Sizes : Send(s, size)
  BY <1>1, SendKeepsOrder
<1>2. CASE \E s \in Senders, size \in Sizes : SendOverflows(s, size)
  <2>1. TypeOK'
    BY <1>2, ClientChannelAssumption DEF SendOverflows, OrderInv, TypeOK
  <2>. QED
    BY <1>2, <2>1, OthersKeepOrder DEF SendOverflows
<1>3. CASE \E s \in Senders : SenderCloses(s)
  BY <1>3, CloseKeepsOrder DEF SenderCloses, OrderInv, TypeOK
<1>4. CASE ReaderCloses
  BY <1>4, CloseKeepsOrder DEF ReaderCloses, OrderInv, TypeOK
<1>5. CASE WriterPops
  BY <1>5, PopKeepsOrder
<1>6. CASE WriterStops
  <2>1. TypeOK'
    BY <1>6, ClientChannelAssumption DEF WriterStops, OrderInv, TypeOK
  <2>. QED
    BY <1>6, <2>1, OthersKeepOrder DEF WriterStops
<1>7. CASE WriterWaits
  <2>1. TypeOK'
    BY <1>7, ClientChannelAssumption DEF WriterWaits, OrderInv, TypeOK
  <2>. QED
    BY <1>7, <2>1, OthersKeepOrder DEF WriterWaits
<1>8. CASE WriterWrites
  BY <1>8, WriteKeepsOrder
<1>9. CASE WriterFails
  <2>1. TypeOK'
    BY <1>9, ClientChannelAssumption DEF WriterFails, OrderInv, TypeOK
  <2>. QED
    BY <1>9, <2>1, OthersKeepOrder DEF WriterFails
<1>10. CASE WriterCounts
  BY <1>10, CountKeepsOrder
<1>11. CASE WriterCloses
  BY <1>11, CloseKeepsOrder DEF WriterCloses, OrderInv, TypeOK
<1>12. CASE \E t \in {"writer", "drainer"} : WakesSpuriously(t)
  <2>1. TypeOK'
    BY <1>12, ClientChannelAssumption DEF WakesSpuriously, OrderInv, TypeOK
  <2>. QED
    BY <1>12, <2>1, OthersKeepOrder DEF WakesSpuriously
<1>13. CASE PeerReads
  <2>1. TypeOK'
    BY <1>13, ClientChannelAssumption DEF PeerReads, OrderInv, TypeOK
  <2>. QED
    BY <1>13, <2>1, OthersKeepOrder DEF PeerReads
<1>14. CASE PeerLeaves
  <2>1. TypeOK'
    BY <1>14, ClientChannelAssumption DEF PeerLeaves, OrderInv, TypeOK
  <2>. QED
    BY <1>14, <2>1, OthersKeepOrder DEF PeerLeaves
<1>15. CASE DrainStarts
  <2>1. TypeOK'
    BY <1>15, ClientChannelAssumption, Typed DEF DrainStarts, OrderInv, TypeOK, Numbered
  <2>. QED
    BY <1>15, <2>1, OthersKeepOrder DEF DrainStarts
<1>16. CASE DrainWaits
  <2>1. TypeOK'
    BY <1>16, ClientChannelAssumption DEF DrainWaits, OrderInv, TypeOK
  <2>. QED
    BY <1>16, <2>1, OthersKeepOrder DEF DrainWaits
<1>17. CASE DrainReturns
  <2>1. TypeOK'
    BY <1>17, ClientChannelAssumption DEF DrainReturns, OrderInv, TypeOK
  <2>. QED
    BY <1>17, <2>1, OthersKeepOrder DEF DrainReturns
<1>18. CASE DeadlinePasses
  <2>1. TypeOK'
    BY <1>18, ClientChannelAssumption DEF DeadlinePasses, OrderInv, TypeOK
  <2>. QED
    BY <1>18, <2>1, OthersKeepOrder DEF DeadlinePasses
<1>19. CASE DrainGivesUp
  <2>1. TypeOK'
    BY <1>19, ClientChannelAssumption DEF DrainGivesUp, OrderInv, TypeOK
  <2>. QED
    BY <1>19, <2>1, OthersKeepOrder DEF DrainGivesUp
<1>20. CASE UNCHANGED vars
  <2>1. TypeOK'
    BY <1>20 DEF vars, OrderInv, TypeOK
  <2>. QED
    BY <1>20, <2>1, OthersKeepOrder DEF vars
<1>. QED
  BY <1>1, <1>2, <1>3, <1>4, <1>5, <1>6, <1>7, <1>8, <1>9, <1>10, <1>11, <1>12, 
     <1>13, <1>14, <1>15, <1>16, <1>17, <1>18, <1>19, <1>20 DEF Next, WriterNext, DrainNext

\* For every number of senders, size of frames, backlog and size of the socket,
\* the channel's variables keep their types.
THEOREM ChannelTypes == Spec => []TypeOK
<1>1. OrderInv => TypeOK
  BY DEF OrderInv
<1>. QED
  BY <1>1, OrderInit, OrderNext, PTL DEF Spec

\* So do the frames that have left keep the order in which `send` accepted them:
\* each is written once and none is skipped, whoever sends, closes or drains
\* meanwhile (ClientChannel::send and run).
THEOREM ChannelKeepsOrder == Spec => []LeavesInOrder
<1>1. OrderInv => LeavesInOrder
  <2> SUFFICES ASSUME OrderInv
               PROVE  LeavesInOrder
    OBVIOUS
  <2>1. \A i \in 1..Len(written) : written[i] = accepted[i].id
    BY Typed DEF OrderInv, Numbered, FirstLeft, Taken
  <2>. QED
    BY <2>1, Typed DEF OrderInv, LeavesInOrder
<1>. QED
  BY <1>1, OrderInit, OrderNext, PTL DEF Spec

-----------------------------------------------------------------------------
\* The payload of a sequence of frames is the last of its partial sums.
IsSums(s, sum) ==
    /\ sum \in [0..Len(s) -> Nat]
    /\ sum[0] = 0
    /\ \A n \in 1..Len(s) : sum[n] = sum[n - 1] + s[n].size

LEMMA SizeIsNat ==
    ASSUME NEW f \in Frame
    PROVE  f.size \in Nat
<1>1. f.size \in Sizes
  BY DEF Frame
<1>. QED
  BY <1>1, ClientChannelAssumption

LEMMA BytesIs ==
    ASSUME NEW s \in Seq(Frame)
    PROVE  \E sum : IsSums(s, sum) /\ Bytes(s) = sum[Len(s)]
<1> DEFINE N == Len(s)
           step == [n \in 1..N |-> [b \in Nat |-> b + s[n].size]]
           Is(f) == f = [n \in 0..N |-> IF n = 0 THEN 0 ELSE f[n - 1] + s[n].size]
           sum == CHOOSE f : Is(f)
<1>1. N \in Nat /\ \A n \in 1..N : s[n].size \in Nat
  <2>1. \A n \in 1..N : s[n] \in Frame
    OBVIOUS
  <2>. QED
    BY <2>1, SizeIsNat
<1>2. Bytes(s) = sum[N]
  BY DEF Bytes, N
<1>3. \A n \in 1..N : \A b \in Nat : b + s[n].size \in Nat
  BY <1>1
<1> HIDE DEF N
<1>4. step \in [1..N -> [Nat -> Nat]]
  BY <1>3
<1> HIDE DEF step
<1>5. PICK f : f \in Recursions(N, Nat, 0, step)
  BY <1>1, <1>4, RecursionExists
<1>6. f \in [0..N -> Nat] /\ f[0] = 0 /\ \A n \in 1..N : f[n] = step[n][f[n - 1]]
  BY <1>5 DEF Recursions
<1>7. \A n \in 1..N : f[n] = f[n - 1] + s[n].size
  <2>1. \A n \in 1..N : f[n - 1] \in Nat
    BY <1>1, <1>6
  <2>. QED
    BY <1>6, <2>1 DEF step
<1>8. Is(f)
  BY <1>1, <1>6, <1>7
<1>9. Is(sum)
  BY <1>8
<1> HIDE DEF sum
<1>10. \A n \in 0..N : sum[n] = IF n = 0 THEN 0 ELSE sum[n - 1] + s[n].size
  BY <1>9
<1>11. sum[0] = 0 /\ \A n \in 1..N : sum[n] = sum[n - 1] + s[n].size
  BY <1>1, <1>10
<1>12. sum \in [0..N -> Nat]
  <2> DEFINE T == {n \in 0..N : sum[n] \in Nat}
  <2>1. 0 \in T
    BY <1>1, <1>11
  <2>2. \A n \in 1..N : n - 1 \in T => n \in T
    BY <1>1, <1>11
  <2> HIDE DEF T
  <2>3. 0..N \subseteq T
    BY <1>1, <2>1, <2>2, UpTo
  <2>4. \A n \in 0..N : sum[n] \in Nat
    BY <2>3 DEF T
  <2>. QED
    BY <1>9, <2>4
<1>. QED
  BY <1>2, <1>11, <1>12 DEF IsSums, N

\* No frame is larger than all of them together.
LEMMA BytesBounds ==
    ASSUME NEW s \in Seq(Frame)
    PROVE  Bytes(s) \in Nat /\ \A i \in 1..Len(s) : s[i].size <= Bytes(s)
<1>1. PICK sum : IsSums(s, sum) /\ Bytes(s) = sum[Len(s)]
  BY BytesIs
<1> DEFINE T == {n \in 0..Len(s) : \A i \in 1..n : s[i].size <= sum[n]}
<1>2. Len(s) \in Nat /\ \A n \in 0..Len(s) : sum[n] \in Nat
  <2>1. Len(s) \in Nat
    OBVIOUS
  <2>. QED
    BY <1>1, <2>1 DEF IsSums
<1>3. \A n \in 1..Len(s) : s[n].size \in Nat
  <2>1. \A n \in 1..Len(s) : s[n] \in Frame
    OBVIOUS
  <2>. QED
    BY <2>1, SizeIsNat
<1>4. 0 \in T
  BY <1>2
<1>5. ASSUME NEW n \in 1..Len(s), n - 1 \in T PROVE n \in T
  <2>1. sum[n] = sum[n - 1] + s[n].size /\ sum[n - 1] \in Nat
    BY <1>1, <1>2 DEF IsSums
  <2>2. ASSUME NEW i \in 1..n PROVE s[i].size <= sum[n]
    <3>1. CASE i = n
      BY <1>3, <2>1, <3>1
    <3>2. CASE i \in 1..(n - 1)
      <4>1. s[i].size <= sum[n - 1] /\ s[i].size \in Nat /\ s[n].size \in Nat
        BY <1>3, <1>5, <3>2
      <4>. QED
        BY <2>1, <4>1
    <3>. QED
      BY <3>1, <3>2
  <2>. QED
    BY <2>2
<1> HIDE DEF T
<1>6. 0..Len(s) \subseteq T
  BY <1>2, <1>4, <1>5, UpTo
<1>7. Len(s) \in T
  BY <1>2, <1>6
<1>. QED
  BY <1>1, <1>2, <1>7 DEF T

LEMMA BytesEmpty == Bytes(<<>>) = 0
<1> DEFINE e == <<>>
<1>1. e \in Seq(Frame) /\ Len(e) = 0
  OBVIOUS
<1> HIDE DEF e
<1>2. PICK sum : IsSums(e, sum) /\ Bytes(e) = sum[Len(e)]
  BY <1>1, BytesIs
<1>. QED
  BY <1>1, <1>2 DEF IsSums, e

\* A frame more, and a frame less.
LEMMA BytesAppend ==
    ASSUME NEW s \in Seq(Frame), NEW f \in Frame
    PROVE  Bytes(Append(s, f)) = Bytes(s) + f.size
<1> DEFINE a == Append(s, f)
<1>1. /\ a \in Seq(Frame) /\ Len(a) = Len(s) + 1 /\ Len(s) \in Nat
      /\ \A i \in 1..Len(s) : a[i] = s[i]
      /\ a[Len(s) + 1] = f
  BY AppendProperties
<1> HIDE DEF a
<1>2. PICK x : IsSums(s, x) /\ Bytes(s) = x[Len(s)]
  BY BytesIs
<1>3. PICK y : IsSums(a, y) /\ Bytes(a) = y[Len(a)]
  BY <1>1, BytesIs
<1> DEFINE T == {n \in 0..Len(s) : y[n] = x[n]}
<1>4. 0 \in T
  BY <1>1, <1>2, <1>3 DEF IsSums
<1>5. ASSUME NEW n \in 1..Len(s), n - 1 \in T PROVE n \in T
  <2>1. n \in 1..Len(a) /\ a[n] = s[n] /\ y[n - 1] = x[n - 1]
    BY <1>1, <1>5
  <2>2. x[n] = x[n - 1] + s[n].size
    BY <1>2 DEF IsSums
  <2>3. y[n] = y[n - 1] + a[n].size
    BY <1>3, <2>1 DEF IsSums
  <2>4. y[n] = x[n] /\ n \in 0..Len(s)
    BY <2>1, <2>2, <2>3
  <2>. QED
    BY <2>4
<1> HIDE DEF T
<1>6. 0..Len(s) \subseteq T
  BY <1>1, <1>4, <1>5, UpTo
<1>7. y[Len(s)] = x[Len(s)]
  BY <1>1, <1>6 DEF T
<1>8. Len(s) + 1 \in 1..Len(a) /\ (Len(s) + 1) - 1 = Len(s)
  BY <1>1
<1>9. y[Len(s) + 1] = y[Len(s)] + f.size
  BY <1>1, <1>3, <1>8 DEF IsSums
<1>. QED
  BY <1>1, <1>2, <1>3, <1>7, <1>9 DEF a

LEMMA BytesTail ==
    ASSUME NEW s \in Seq(Frame), s # <<>>
    PROVE  Bytes(s) = Bytes(Tail(s)) + Head(s).size
<1> DEFINE t == Tail(s)
<1>1. /\ t \in Seq(Frame) /\ Len(t) = Len(s) - 1 /\ Len(s) \in Nat \ {0}
      /\ \A i \in 1..Len(t) : t[i] = s[i + 1]
      /\ Head(s) = s[1]
  <2>1. Len(s) \in Nat \ {0} /\ Head(s) = s[1]
    OBVIOUS
  <2>. QED
    BY <2>1, HeadTailProperties
<1> HIDE DEF t
<1>2. PICK x : IsSums(s, x) /\ Bytes(s) = x[Len(s)]
  BY BytesIs
<1>3. PICK y : IsSums(t, y) /\ Bytes(t) = y[Len(t)]
  BY <1>1, BytesIs
<1>4. \A n \in 0..Len(t) : n \in Nat /\ y[n] \in Nat
  <2>1. y \in [0..Len(t) -> Nat] /\ Len(t) \in Nat
    BY <1>1, <1>3 DEF IsSums
  <2>. QED
    BY <2>1
<1>5. x[1] = s[1].size /\ s[1].size \in Nat
  <2>1. 1 \in 1..Len(s) /\ 1 - 1 = 0
    BY <1>1
  <2>2. s[1] \in Frame
    BY <2>1
  <2>3. s[1].size \in Nat
    BY <2>2, SizeIsNat
  <2>. QED
    BY <1>2, <2>1, <2>3 DEF IsSums
<1> DEFINE T == {n \in 0..Len(t) : x[n + 1] = y[n] + s[1].size}
<1>6. 0 \in T
  BY <1>1, <1>3, <1>5 DEF IsSums
<1>7. ASSUME NEW n \in 1..Len(t), n - 1 \in T PROVE n \in T
  <2>1. /\ n + 1 \in 1..Len(s) /\ (n + 1) - 1 = n /\ (n - 1) + 1 = n /\ t[n] = s[n + 1]
        /\ n \in 0..Len(t) /\ n - 1 \in 0..Len(t)
    BY <1>1
  <2>2. x[n + 1] = x[n] + s[n + 1].size
    BY <1>2, <2>1 DEF IsSums
  <2>3. y[n] = y[n - 1] + s[n + 1].size
    BY <1>3, <2>1 DEF IsSums
  <2>4. x[n] = y[n - 1] + s[1].size
    BY <1>7, <2>1
  <2>5. s[n + 1] \in Frame
    BY <2>1
  <2>6. s[n + 1].size \in Nat /\ y[n - 1] \in Nat
    BY <1>4, <2>1, <2>5, SizeIsNat
  <2>7. x[n + 1] = y[n] + s[1].size
    BY <1>5, <2>2, <2>3, <2>4, <2>6
  <2>. QED
    BY <2>1, <2>7
<1> HIDE DEF T
<1>8. 0..Len(t) \subseteq T
  <2>1. Len(t) \in Nat
    BY <1>1
  <2>. QED
    BY <1>6, <1>7, <2>1, UpTo
<1>9. Len(t) \in T /\ Len(t) + 1 = Len(s)
  BY <1>1, <1>8
<1>. QED
  BY <1>1, <1>2, <1>3, <1>9 DEF T, t

-----------------------------------------------------------------------------
\* The writer holds a frame from the time it takes it until it counts it out,
\* and the count is exact meanwhile.
BytesInv ==
    /\ writer \notin {"write", "wrote", "failed"} => inFlight = NoFrame
    /\ BacklogExact

LEMMA BytesInit == Init => BytesInv
<1> SUFFICES ASSUME Init PROVE BytesInv
  OBVIOUS
<1>1. /\ queue.frames = <<>> /\ queue.bytes = 0 /\ queue.closed = FALSE
      /\ inFlight = NoFrame /\ inFlight.size = 0
  BY EmptyQueueIs DEF Init, NoFrame
<1>2. Bytes(queue.frames) = 0
  BY <1>1, BytesEmpty, Zenon
<1>. QED
  BY <1>1, <1>2, ClientQueueAssumption DEF BytesInv, BacklogExact

LEMMA SendKeepsBytes ==
    ASSUME OrderInv, BytesInv, NEW s \in Senders, NEW size \in Sizes, Send(s, size)
    PROVE  BytesInv'
<1> DEFINE f == [id |-> Len(accepted) + 1, size |-> size]
<1>1. /\ queue' = Pushed(queue, f) /\ Fits(queue, f)
      /\ Len(accepted) < MaxSends /\ ~queue.closed
      /\ UNCHANGED <<writer, inFlight>>
  BY DEF Send
<1>2. f \in Frame /\ f.size \in Nat
  BY <1>1, Typed, ClientChannelAssumption DEF Frame, OrderInv
<1> HIDE DEF f
<1>3. /\ queue'.frames = Append(queue.frames, f)
      /\ queue'.bytes = queue.bytes + f.size
      /\ queue'.closed = queue.closed
      /\ queue.frames \in Seq(Frame)
      /\ inFlight.size \in Nat
  BY <1>1, <1>2, Typed, PushedIs DEF OrderInv
<1>4. Bytes(queue'.frames) = Bytes(queue.frames) + f.size /\ Bytes(queue.frames) \in Nat
  BY <1>2, <1>3, BytesAppend, BytesBounds
<1>5. queue.bytes = Bytes(queue.frames) + inFlight.size
  BY <1>1 DEF BytesInv, BacklogExact
<1>6. queue'.bytes = Bytes(queue'.frames) + inFlight.size
  BY <1>2, <1>3, <1>4, <1>5
<1>7. queue'.bytes <= MaxBacklog
  BY <1>1, <1>3 DEF Fits
<1>. QED
  BY <1>1, <1>3, <1>6, <1>7 DEF BytesInv, BacklogExact

LEMMA PopKeepsBytes ==
    ASSUME OrderInv, BytesInv, WriterPops
    PROVE  BytesInv'
<1>1. /\ writer = "check" /\ writer' = "write"
      /\ queue.frames # <<>> /\ queue' = Popped(queue)
      /\ inFlight' = Head(queue.frames)
  BY DEF WriterPops
<1>2. ~queue.closed /\ inFlight.size = 0
  BY <1>1 DEF OrderInv, OthersWait, BytesInv, NoFrame
<1>3. /\ queue'.frames = Tail(queue.frames)
      /\ queue'.bytes = queue.bytes
      /\ queue'.closed = queue.closed
      /\ queue.frames \in Seq(Frame)
      /\ Tail(queue.frames) \in Seq(Frame)
      /\ Head(queue.frames) \in Frame
  BY <1>1, Typed, PoppedIs DEF OrderInv
<1>4. /\ Bytes(queue.frames) = Bytes(queue'.frames) + inFlight'.size
      /\ Bytes(queue.frames) \in Nat
  BY <1>1, <1>3, BytesTail, BytesBounds
<1>5. queue.bytes = Bytes(queue.frames) + inFlight.size /\ queue.bytes <= MaxBacklog
  BY <1>2 DEF BytesInv, BacklogExact
<1>6. queue'.bytes = Bytes(queue'.frames) + inFlight'.size
  BY <1>2, <1>3, <1>4, <1>5
<1>. QED
  BY <1>1, <1>2, <1>3, <1>5, <1>6 DEF BytesInv, BacklogExact

LEMMA CountKeepsBytes ==
    ASSUME OrderInv, BytesInv, WriterCounts
    PROVE  BytesInv'
<1>1. /\ writer' \in {"check", "close"}
      /\ queue' = Counted(queue, inFlight) /\ inFlight' = NoFrame
  BY DEF WriterCounts
<1>2. /\ queue'.frames = queue.frames
      /\ queue'.bytes = IF queue.bytes >= inFlight.size
                        THEN queue.bytes - inFlight.size ELSE 0
      /\ queue'.closed = queue.closed
      /\ queue.frames \in Seq(Frame)
      /\ inFlight.size \in Nat
  BY <1>1, Typed, CountedIs DEF OrderInv
<1>3. inFlight'.size = 0 /\ Bytes(queue.frames) \in Nat
  BY <1>1, <1>2, BytesBounds DEF NoFrame
<1>4. CASE queue.closed
  BY <1>1, <1>2, <1>4 DEF BytesInv, BacklogExact
<1>5. CASE ~queue.closed
  <2>1. queue.bytes = Bytes(queue.frames) + inFlight.size /\ queue.bytes <= MaxBacklog
    BY <1>5 DEF BytesInv, BacklogExact
  <2>2. queue'.bytes = Bytes(queue.frames) /\ queue'.bytes <= MaxBacklog
    BY <1>2, <1>3, <2>1, ClientQueueAssumption
  <2>3. queue'.bytes = Bytes(queue'.frames) + inFlight'.size
    BY <1>2, <1>3, <2>2
  <2>. QED
    BY <1>1, <1>2, <1>5, <2>2, <2>3 DEF BytesInv, BacklogExact
<1>. QED
  BY <1>4, <1>5

LEMMA CloseKeepsBytes ==
    ASSUME BytesInv, CloseChannel, UNCHANGED inFlight,
           writer' = writer \/ (writer = "close" /\ writer' = "done")
    PROVE  BytesInv'
BY ClosedIs DEF CloseChannel, BytesInv, BacklogExact

LEMMA OthersKeepBytes ==
    ASSUME BytesInv, UNCHANGED <<queue, inFlight>>,
           \/ writer' = writer
           \/ writer = "check"
           \/ writer' \in {"wrote", "failed"}
    PROVE  BytesInv'
BY DEF BytesInv, BacklogExact

LEMMA BytesNext == OrderInv /\ BytesInv /\ [Next]_vars => BytesInv'
<1> SUFFICES ASSUME OrderInv, BytesInv, [Next]_vars
             PROVE  BytesInv'
  OBVIOUS
<1>1. ASSUME NEW s \in Senders, NEW size \in Sizes, Send(s, size) \/ SendOverflows(s, size)
      PROVE  BytesInv'
  BY <1>1, SendKeepsBytes, OthersKeepBytes DEF SendOverflows
<1>2. ASSUME NEW s \in Senders, SenderCloses(s) PROVE BytesInv'
  BY <1>2, CloseKeepsBytes DEF SenderCloses
<1>3. CASE ReaderCloses \/ WriterCloses
  BY <1>3, CloseKeepsBytes DEF ReaderCloses, WriterCloses
<1>4. CASE WriterPops \/ WriterCounts
  BY <1>4, PopKeepsBytes, CountKeepsBytes
<1>5. CASE WriterStops \/ WriterWaits \/ WriterWrites \/ WriterFails
  BY <1>5, OthersKeepBytes DEF WriterStops, WriterWaits, WriterWrites, WriterFails
<1>6. ASSUME NEW t \in {"writer", "drainer"}, WakesSpuriously(t) PROVE BytesInv'
  BY <1>6, OthersKeepBytes DEF WakesSpuriously
<1>7. CASE PeerReads \/ PeerLeaves
  BY <1>7, OthersKeepBytes DEF PeerReads, PeerLeaves
<1>8. CASE DrainStarts \/ DrainNext \/ DeadlinePasses
  BY <1>8, OthersKeepBytes
     DEF DrainStarts, DrainNext, DrainWaits, DrainReturns, DrainGivesUp, DeadlinePasses
<1>9. CASE UNCHANGED vars
  BY <1>9, OthersKeepBytes DEF vars
<1>. QED
  BY <1>1, <1>2, <1>3, <1>4, <1>5, <1>6, <1>7, <1>8, <1>9 DEF Next, WriterNext

\* The count that the backlog limit and `drain` go by is exact, for any number
\* of senders, sizes and backlog: it is the payload queued and in flight, and
\* neither goes over MAX_CLIENT_BACKLOG (ClientChannel::send, run and close).
THEOREM ChannelCountsExactly == Spec => []BacklogExact
<1>1. BytesInv => BacklogExact
  BY DEF BytesInv
<1>. QED
  BY <1>1, OrderInit, OrderNext, BytesInit, BytesNext, PTL DEF Spec

-----------------------------------------------------------------------------
\* What was accepted before `drain` is still known when it returns.
DrainInv ==
    /\ mustDrain <= Len(accepted)
    /\ DrainFlushesOutput

\* What the steps other than those of `drain` do to a drained channel: frames
\* are only added, and a writer that gives up does not come back.
LEMMA GoesOn ==
    ASSUME OrderInv, [Next]_vars
    PROVE  /\ Len(accepted) <= Len(accepted')
           /\ \A i \in 1..Len(accepted) : accepted'[i] = accepted[i]
           /\ Len(written) <= Len(written')
           /\ writer \in {"close", "done"} => writer' \in {"close", "done"}
           /\ \/ mustDrain' = mustDrain /\ (drainer' = "flushed" => drainer = "flushed")
              \/ DrainStarts
              \/ DrainReturns
<1> DEFINE Same == UNCHANGED <<accepted, written, mustDrain>>
           Stays == writer \in {"close", "done"} => writer' \in {"close", "done"}
           Idle == drainer' = "flushed" => drainer = "flushed"
<1>1. Len(accepted) \in Nat /\ Len(written) \in Nat /\ accepted \in Seq(Frame)
  BY Typed DEF OrderInv
<1>2. ASSUME NEW s \in Senders, NEW size \in Sizes, Send(s, size)
      PROVE  /\ Len(accepted) <= Len(accepted')
             /\ \A i \in 1..Len(accepted) : accepted'[i] = accepted[i]
             /\ UNCHANGED <<written, writer, mustDrain, drainer>>
  <2> DEFINE f == [id |-> Len(accepted) + 1, size |-> size]
  <2>1. /\ Len(accepted) < MaxSends /\ accepted' = Append(accepted, f)
        /\ UNCHANGED <<written, writer, mustDrain, drainer>>
    BY <1>2 DEF Send
  <2>2. f \in Frame
    BY <1>1, <2>1, ClientChannelAssumption DEF Frame
  <2> HIDE DEF f
  <2>. QED
    BY <1>1, <2>1, <2>2, AppendProperties
<1>3. CASE WriterWrites
  <2>1. /\ written' = Append(written, inFlight.id) /\ writer' = "wrote" /\ writer = "write"
        /\ UNCHANGED <<accepted, mustDrain, drainer>>
    BY <1>3 DEF WriterWrites
  <2>2. Len(written') = Len(written) + 1
    BY <2>1, Typed DEF OrderInv
  <2>. QED
    BY <1>1, <2>1, <2>2
<1>4. ASSUME NEW s \in Senders, NEW size \in Sizes, SendOverflows(s, size) \/ SenderCloses(s)
      PROVE  Same /\ Stays /\ Idle
  BY <1>4 DEF SendOverflows, SenderCloses
<1>5. CASE \/ ReaderCloses \/ WriterPops \/ WriterStops \/ WriterWaits \/ WriterFails
           \/ WriterCounts \/ WriterCloses \/ PeerReads \/ PeerLeaves
  <2>. QED
    BY <1>1, <1>5 DEF ReaderCloses, WriterPops, WriterStops, WriterWaits, WriterFails,
              WriterCounts, WriterCloses, PeerReads, PeerLeaves
<1>6. ASSUME NEW t \in {"writer", "drainer"}, WakesSpuriously(t) PROVE Same /\ Stays /\ Idle
  BY <1>6 DEF WakesSpuriously
<1>7. CASE DrainWaits \/ DrainGivesUp \/ DeadlinePasses \/ UNCHANGED vars
  BY <1>1, <1>7 DEF DrainWaits, DrainGivesUp, DeadlinePasses, vars
<1>8. CASE DrainStarts \/ DrainReturns
  BY <1>1, <1>8 DEF DrainStarts, DrainReturns
<1>9. ASSUME NEW s \in Senders, SenderCloses(s) PROVE Same /\ Stays /\ Idle
  BY <1>9 DEF SenderCloses
<1>. QED
  BY <1>1, <1>2, <1>3, <1>4, <1>5, <1>6, <1>7, <1>8, <1>9 DEF Next, WriterNext, DrainNext

\* `drain` returns at a count of zero: what is queued and in flight is empty.
LEMMA ReturnFlushes ==
    ASSUME OrderInv, BytesInv, mustDrain <= Len(accepted), DrainReturns
    PROVE  DrainFlushesOutput'
<1> SUFFICES ASSUME ~queue.closed, writer \notin {"close", "done"},
                    NEW i \in 1..mustDrain, ~(i <= Len(written))
             PROVE  ~(accepted[i].size > 0)
  BY DEF DrainReturns, DrainFlushesOutput
<1>1. /\ Len(accepted) \in Nat /\ Len(written) \in Nat /\ mustDrain \in Nat
      /\ Taken \in Nat /\ inFlight.size \in Nat
      /\ queue.frames \in Seq(Frame) /\ queue.bytes \in Nat
  BY Typed, ClientChannelAssumption DEF OrderInv, TypeOK
<1>2. i \in 1..Len(accepted)
  BY <1>1
<1>3. queue.bytes = 0
  BY <1>1 DEF DrainReturns, StillQueued
<1>4. Bytes(queue.frames) = 0 /\ inFlight.size = 0
  <2>1. queue.bytes = Bytes(queue.frames) + inFlight.size /\ Bytes(queue.frames) \in Nat
    BY <1>1, BytesBounds DEF BytesInv, BacklogExact
  <2>. QED
    BY <1>1, <1>3, <2>1
<1>5. writer \in {"check", "write", "wrote", "failed"}
  BY DEF OrderInv, TypeOK
<1>6. CASE i <= Taken
  <2>1. writer \in {"write", "failed"} /\ i = Len(written) + 1
    BY <1>1, <1>6 DEF Taken
  <2>2. inFlight = accepted[i]
    BY <2>1 DEF OrderInv, FirstLeft
  <2>. QED
    BY <1>4, <2>2
<1>7. CASE ~(i <= Taken)
  <2> DEFINE j == i - Taken
  <2>1. /\ Len(queue.frames) = Len(accepted) - Taken
        /\ \A n \in 1..Len(queue.frames) : queue.frames[n] = accepted[Taken + n]
    BY <1>5 DEF OrderInv, OthersWait
  <2>2. j \in 1..Len(queue.frames) /\ Taken + j = i
    BY <1>1, <1>2, <1>7, <2>1
  <2>3. queue.frames[j] = accepted[i]
    BY <2>1, <2>2
  <2>4. queue.frames[j].size <= 0 /\ queue.frames[j] \in Frame
    BY <1>1, <1>4, <2>2, BytesBounds
  <2>. QED
    BY <2>3, <2>4, SizeIsNat
<1>. QED
  BY <1>6, <1>7

LEMMA DrainKeeps ==
    OrderInv /\ BytesInv /\ DrainInv /\ [Next]_vars => DrainInv'
<1> SUFFICES ASSUME OrderInv, BytesInv, DrainInv, [Next]_vars
             PROVE  DrainInv'
  OBVIOUS
<1>1. /\ Len(accepted) \in Nat /\ Len(accepted') \in Nat /\ mustDrain \in Nat
      /\ Len(written) \in Nat /\ Len(written') \in Nat
  <2>1. OrderInv'
    BY OrderNext
  <2>2. Len(accepted') \in Nat /\ Len(written') \in Nat
    BY <2>1 DEF OrderInv, TypeOK
  <2>. QED
    BY <2>2, Typed, ClientChannelAssumption DEF OrderInv, TypeOK
<1>2. CASE DrainStarts
  BY <1>1, <1>2 DEF DrainStarts, DrainInv, DrainFlushesOutput
<1>3. CASE DrainReturns
  <2>1. mustDrain' <= Len(accepted')
    BY <1>3 DEF DrainReturns, DrainInv
  <2>. QED
    BY <1>3, <2>1, ReturnFlushes DEF DrainInv
<1>4. CASE mustDrain' = mustDrain /\ (drainer' = "flushed" => drainer = "flushed")
  <2>1. /\ Len(accepted) <= Len(accepted') /\ Len(written) <= Len(written')
        /\ \A i \in 1..Len(accepted) : accepted'[i] = accepted[i]
        /\ writer \in {"close", "done"} => writer' \in {"close", "done"}
    BY GoesOn
  <2>2. mustDrain' <= Len(accepted')
    BY <1>1, <1>4, <2>1 DEF DrainInv
  <2>3. ASSUME drainer' = "flushed", writer' \notin {"close", "done"},
               NEW i \in 1..mustDrain, accepted'[i].size > 0
        PROVE  i <= Len(written')
    <3>1. i \in 1..Len(accepted)
      BY <1>1 DEF DrainInv
    <3>2. i <= Len(written)
      BY <1>4, <2>1, <2>3, <3>1 DEF DrainInv, DrainFlushesOutput
    <3>. QED
      BY <1>1, <2>1, <3>2
  <2>. QED
    BY <1>4, <2>2, <2>3 DEF DrainInv, DrainFlushesOutput
<1>. QED
  BY <1>2, <1>3, <1>4, GoesOn

\* A drain that returns on an open channel before its deadline leaves no output
\* behind, whatever is sent, written or closed meanwhile: its count of zero
\* covers the frame in flight (ClientChannel::drain).
THEOREM DrainLeavesNothing == Spec => []DrainFlushesOutput
<1>1. Init => DrainInv
  BY DEF Init, DrainInv, DrainFlushesOutput
<1>2. DrainInv => DrainFlushesOutput
  BY DEF DrainInv
<1>. QED
  BY <1>1, <1>2, OrderInit, OrderNext, BytesInit, BytesNext, DrainKeeps, PTL DEF Spec
=============================================================================
