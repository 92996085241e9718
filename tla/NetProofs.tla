------------------------------ MODULE NetProofs ------------------------------
(***************************************************************************)
(* Proofs about Net, for every budget, capacity and number of frames,      *)
(* buffers and packets.                                                    *)
(*                                                                         *)
(* Accounted speaks of concatenations; the inductive invariant says the    *)
(* same by index, from the last reset on, and adds what Accounted leaves   *)
(* out: where the loops run, how the counters bound the rings also in a    *)
(* device out of service (Reset reads them there), and which packet is     *)
(* next in the backend.                                                    *)
(***************************************************************************)
EXTENDS Net, SequenceTheorems, TLAPS

\* From a reset until the device goes out of service.
Live == state \in {"Down", "Up"}

Waiting == IF pendingTx = None THEN 0 ELSE 1

\* The loops run only in a device in service.
LoopsUp == loops # <<>> => state = "Up"

\* What driver and backend have produced bounds rings and counters.
Bounds ==
  /\ base.sent + Len(tx) <= frames /\ Len(sent) <= base.sent + txNext
  /\ Len(rx) <= buffers
  /\ Len(inbound) <= packets /\ base.taken <= Received

\* The packets still in the backend are the ones after those taken.
Arrived == \A i \in 1..Len(inbound) : inbound[i].id = Received + i

\* Transmit, by index: frame i since the reset is the ring's i-th.
TxIndex ==
  Live =>
    /\ base.sent + txNext = Len(sent) + Waiting
    /\ \A i \in 1..(Len(sent) - base.sent) : sent[base.sent + i] = tx[i]
    /\ txNext = Len(txUsed) + Waiting
    /\ \A i \in 1..Len(txUsed) : txUsed[i] = i
    /\ pendingTx # None => pendingTx = txNext /\ snapshot = tx[txNext]

\* Receive, by index: chain i since the reset took packet i.
RxIndex ==
  Live =>
    /\ Len(rxUsed) = rxNext /\ Received = base.taken + Len(rxUsed)
    /\ \A i \in 1..Len(rxUsed) : rxUsed[i].chain = i /\ rxUsed[i].packet = base.taken + i

IInv == TypeOK /\ LoopsUp /\ Bounds /\ Arrived /\ TxIndex /\ RxIndex

(***************************************************************************)
(* The parts of TypeOK, as the steps disturb them.                         *)
(***************************************************************************)
ThreadType ==
  /\ state \in {"Down", "Up", "Isolated", "Ended"}
  /\ ready \subseteq {"Tx", "Rx"}
  /\ polled \in BOOLEAN /\ loops \in {<<>>, <<"Tx">>, <<"Rx">>, <<"Tx", "Rx">>}
  /\ budget \in 1..Budget

TxType ==
  /\ tx \in Seq(0..Frames) /\ txNext \in 0..Len(tx) /\ txUsed \in Seq(1..Frames)
  /\ pendingTx \in 0..Frames /\ snapshot \in 0..Junk /\ shared \in 0..Junk
  /\ sent \in Seq(0..Junk)

RxType ==
  /\ rx \in Seq(0..Capacity) /\ rxNext \in 0..Len(rx)
  /\ rxUsed \in Seq([chain : 1..Buffers, packet : 1..Packets, length : 0..Capacity])
  /\ inbound \in Seq([id : 1..Packets, length : 0..Capacity])

CountType ==
  /\ frames \in 0..Frames /\ buffers \in 0..Buffers /\ packets \in 0..Packets
  /\ base \in [sent : 0..Frames, taken : 0..Packets]

\* TypeOK is the conjunction of its parts.
LEMMA TypeParts == TypeOK <=> ThreadType /\ TxType /\ RxType /\ CountType
  BY DEF TypeOK, ThreadType, TxType, RxType, CountType

\* The naturals that lengths and counters are.
LEMMA Numbers ==
  ASSUME TypeOK
  PROVE  /\ Frames \in Nat /\ Buffers \in Nat /\ Packets \in Nat
         /\ Capacity \in Nat /\ Budget \in Nat /\ Budget >= 1
         /\ Len(tx) \in Nat /\ Len(txUsed) \in Nat /\ Len(sent) \in Nat
         /\ Len(rx) \in Nat /\ Len(rxUsed) \in Nat /\ Len(inbound) \in Nat
         /\ txNext \in Nat /\ txNext <= Len(tx) /\ rxNext \in Nat /\ rxNext <= Len(rx)
         /\ frames \in Nat /\ buffers \in Nat /\ packets \in Nat
         /\ base.sent \in Nat /\ base.taken \in Nat
         /\ Waiting \in {0, 1} /\ Junk \in Nat
  <1>1. /\ Frames \in Nat /\ Buffers \in Nat /\ Packets \in Nat
        /\ Capacity \in Nat /\ Budget \in Nat /\ Budget >= 1
    BY NetAssumption
  <1>2. /\ Len(tx) \in Nat /\ Len(txUsed) \in Nat /\ Len(sent) \in Nat
        /\ Len(rx) \in Nat /\ Len(rxUsed) \in Nat /\ Len(inbound) \in Nat
    BY DEF TypeOK
  <1>3. /\ txNext \in Nat /\ txNext <= Len(tx) /\ rxNext \in Nat /\ rxNext <= Len(rx)
        /\ frames \in Nat /\ buffers \in Nat /\ packets \in Nat
    BY <1>1, <1>2 DEF TypeOK
  <1>4. base.sent \in Nat /\ base.taken \in Nat
    BY <1>1 DEF TypeOK
  <1> QED
    BY <1>1, <1>2, <1>3, <1>4 DEF Waiting, Junk

(***************************************************************************)
(* Sequences.                                                              *)
(***************************************************************************)
\* What Append does to lengths and elements.
LEMMA Appended ==
  ASSUME NEW S, NEW q \in Seq(S), NEW e \in S
  PROVE  /\ Append(q, e) \in Seq(S) /\ Len(Append(q, e)) = Len(q) + 1
         /\ \A i \in 1..Len(q) : Append(q, e)[i] = q[i]
         /\ Append(q, e)[Len(q) + 1] = e
  OBVIOUS

\* What Tail does to lengths and elements.
LEMMA Shortened ==
  ASSUME NEW S, NEW q \in Seq(S), q # <<>>
  PROVE  /\ Tail(q) \in Seq(S) /\ Len(Tail(q)) = Len(q) - 1 /\ Len(q) >= 1
         /\ Head(q) = q[1] /\ Head(q) \in S
         /\ \A i \in 1..Len(Tail(q)) : Tail(q)[i] = q[i + 1]
  OBVIOUS

\* A sequence over a set is one over every larger set.
LEMMA Widened ==
  ASSUME NEW S, NEW T, S \subseteq T, NEW q \in Seq(S)
  PROVE  q \in Seq(T)
  <1>1. /\ Len(q) \in Nat /\ q = [i \in 1..Len(q) |-> q[i]]
        /\ \A i \in 1..Len(q) : q[i] \in T
    BY ElementOfSeq
  <1> QED BY <1>1

\* What is left of a sequence after its first k elements.
LEMMA Suffix ==
  ASSUME NEW S, NEW q \in Seq(S), NEW k \in Nat, k <= Len(q)
  PROVE  /\ SubSeq(q, k + 1, Len(q)) \in Seq(S)
         /\ Len(SubSeq(q, k + 1, Len(q))) = Len(q) - k
         /\ \A i \in 1..Len(SubSeq(q, k + 1, Len(q))) : SubSeq(q, k + 1, Len(q))[i] = q[k + i]
  <1>1. Len(q) \in Nat
    OBVIOUS
  <1> QED BY <1>1

\* Three sequences that agree with a fourth piece by piece make it up.
LEMMA Pieces ==
  ASSUME NEW S, NEW a \in Seq(S), NEW b \in Seq(S), NEW c \in Seq(S), NEW t \in Seq(S),
         Len(t) = Len(a) + Len(b) + Len(c),
         \A i \in 1..Len(a) : a[i] = t[i],
         \A i \in 1..Len(b) : b[i] = t[Len(a) + i],
         \A i \in 1..Len(c) : c[i] = t[Len(a) + Len(b) + i]
  PROVE  a \o b \o c = t
  <1>1. /\ a \o b \in Seq(S) /\ Len(a \o b) = Len(a) + Len(b)
        /\ \A i \in 1..Len(a \o b) :
             (a \o b)[i] = IF i <= Len(a) THEN a[i] ELSE b[i - Len(a)]
    BY ConcatProperties
  <1>2. /\ a \o b \o c \in Seq(S) /\ Len(a \o b \o c) = Len(a \o b) + Len(c)
        /\ \A i \in 1..Len(a \o b \o c) :
             (a \o b \o c)[i] = IF i <= Len(a \o b) THEN (a \o b)[i] ELSE c[i - Len(a \o b)]
    BY <1>1, ConcatProperties
  <1>3. Len(a) \in Nat /\ Len(b) \in Nat /\ Len(c) \in Nat
    OBVIOUS
  <1>4. ASSUME NEW i \in 1..Len(t) PROVE (a \o b \o c)[i] = t[i]
    <2>1. CASE i <= Len(a)
      BY <1>1, <1>2, <1>3, <2>1
    <2>2. CASE i > Len(a) /\ i <= Len(a) + Len(b)
      <3>1. i - Len(a) \in 1..Len(b) /\ Len(a) + (i - Len(a)) = i
        BY <1>3, <2>2
      <3>2. (a \o b \o c)[i] = (a \o b)[i]
        BY <1>1, <1>2, <1>3, <2>2
      <3>3. (a \o b)[i] = b[i - Len(a)]
        BY <1>1, <1>3, <2>2
      <3>4. b[i - Len(a)] = t[Len(a) + (i - Len(a))]
        BY <3>1
      <3> QED BY <3>1, <3>2, <3>3, <3>4
    <2>3. CASE i > Len(a) + Len(b)
      <3>1. /\ i - (Len(a) + Len(b)) \in 1..Len(c)
            /\ Len(a) + Len(b) + (i - (Len(a) + Len(b))) = i
        BY <1>3, <2>3
      <3> QED BY <1>1, <1>2, <1>3, <2>3, <3>1
    <2> QED BY <1>3, <2>1, <2>2, <2>3
  <1> QED BY <1>1, <1>2, <1>4, SeqEqual

(***************************************************************************)
(* The answers of vmnet.                                                   *)
(***************************************************************************)
\* A frame is accepted only if vmnet took it, refused only if it did not.
LEMMA SendHonest ==
  ASSUME NEW answer \in WriteAnswers
  PROVE  /\ send(answer) = "Accept" => Took(answer)
         /\ send(answer) = "Refuse" => ~Took(answer)
  BY DEF WriteAnswers, Answers, send, check, Took

\* A packet is reported only if one was taken, none only if none was.
LEMMA RecvHonest ==
  ASSUME NEW arrived \in BOOLEAN, NEW inRange \in BOOLEAN,
         NEW answer \in ReadAnswers(arrived)
  PROVE  /\ recv(answer, inRange) = "Packet" => Took(answer)
         /\ recv(answer, inRange) = "None" => ~Took(answer)
         /\ Took(answer) => arrived
  BY DEF ReadAnswers, WriteAnswers, Answers, recv, check, Took

(***************************************************************************)
(* Steps that leave a side of the device alone.                            *)
(***************************************************************************)
\* How an iteration of a loop ends, for the run thread.
LEMMA LoopEnds ==
  ASSUME ThreadType, LoopsUp, loops # <<>>, Break \/ Continue \/ Contain \/ Fatal
  PROVE  /\ ThreadType' /\ LoopsUp'
         /\ Break \/ Continue => state' = state
         /\ Contain \/ Fatal => ~Live'
  <1>1. Tail(loops) \in {<<>>, <<"Tx">>, <<"Rx">>, <<"Tx", "Rx">>}
    <2>1. CASE loops = <<"Tx">> \/ loops = <<"Rx">>
      <3>1. Tail(<<"Tx">>) = <<>> /\ Tail(<<"Rx">>) = <<>>
        OBVIOUS
      <3> QED BY <2>1, <3>1
    <2>2. CASE loops = <<"Tx", "Rx">>
      BY <2>2
    <2> QED BY <2>1, <2>2 DEF ThreadType
  <1>2. Budget \in 1..Budget /\ budget \in 1..Budget
    BY NetAssumption DEF ThreadType
  <1>3. state = "Up"
    BY DEF LoopsUp
  <1>4. polled' \in BOOLEAN /\ ready' \subseteq {"Tx", "Rx"}
    BY Zenon DEF ThreadType, Break, Continue, Contain, Fatal, transport
  <1>5. state' \in {"Up", "Isolated", "Ended"}
    BY <1>3 DEF Break, Continue, Contain, Fatal, transport
  <1>6. loops' \in {<<>>, <<"Tx">>, <<"Rx">>, <<"Tx", "Rx">>}
    BY <1>1 DEF ThreadType, Break, Continue, Contain, Fatal
  <1>7. budget' \in 1..Budget
    <2>1. CASE Continue
      BY <1>2, <2>1, NetAssumption DEF Continue, Spent
    <2>2. CASE Break \/ Contain \/ Fatal
      BY <1>2, <2>2 DEF Break, Contain, Fatal
    <2> QED BY <2>1, <2>2
  <1>8. Break \/ Continue => state' = state
    BY DEF Break, Continue, transport
  <1>9. Contain \/ Fatal => ~Live' /\ loops' = <<>>
    BY DEF Contain, Fatal, Live
  <1>10. LoopsUp'
    BY <1>3, <1>8, <1>9 DEF LoopsUp
  <1> QED BY <1>4, <1>5, <1>6, <1>7, <1>8, <1>9, <1>10 DEF ThreadType

\* A step that leaves transport and run thread alone keeps their facts.
LEMMA ThreadKept ==
  ASSUME ThreadType, LoopsUp, UNCHANGED <<transport, thread>>
  PROVE  ThreadType' /\ LoopsUp'
  <1>1. polled' \in BOOLEAN
    BY Zenon DEF ThreadType, thread
  <1> QED BY <1>1 DEF ThreadType, LoopsUp, transport, thread

TxSide == <<txRing, deferred, sent, base.sent>>
RxSide == <<rxRing, inbound, packets, base.taken>>

\* A step that leaves the transmit side alone keeps its facts.
LEMMA TxKept ==
  ASSUME TxType, TxIndex, UNCHANGED TxSide, Live' => Live
  PROVE  TxType' /\ TxIndex'
  <1>1. TxType'
    BY DEF TxType, TxSide, txRing, deferred
  <1>2. Waiting' = Waiting
    BY DEF Waiting, TxSide, deferred
  <1>3. TxIndex'
    BY <1>2 DEF TxIndex, TxSide, txRing, deferred
  <1> QED BY <1>1, <1>3

\* A step that leaves the receive side alone keeps its facts.
LEMMA RxKept ==
  ASSUME RxType, RxIndex, Arrived, UNCHANGED RxSide, Live' => Live
  PROVE  RxType' /\ RxIndex' /\ Arrived'
  <1>1. RxType'
    BY DEF RxType, RxSide, rxRing
  <1>2. Received' = Received /\ inbound' = inbound
    BY DEF Received, RxSide
  <1>3. Arrived'
    BY <1>2 DEF Arrived
  <1>4. RxIndex'
    BY <1>2 DEF RxIndex, RxSide, rxRing
  <1> QED BY <1>1, <1>3, <1>4

\* A step that leaves rings and counters alone keeps the bounds.
LEMMA BoundsKept ==
  ASSUME Bounds, CountType,
         UNCHANGED <<tx, txNext, sent, rx, inbound, produced, base>>
  PROVE  Bounds' /\ CountType'
  <1>1. Received' = Received
    BY DEF Received, produced
  <1>2. Bounds'
    BY <1>1 DEF Bounds, produced
  <1>3. CountType'
    BY DEF CountType, produced
  <1> QED BY <1>2, <1>3

(***************************************************************************)
(* One lemma for each step that changes a ring or a counter.               *)
(***************************************************************************)
\* The parts of the invariant after a step make up the invariant.
LEMMA PartsPrime ==
  ASSUME ThreadType', TxType', RxType', CountType',
         LoopsUp', Bounds', Arrived', TxIndex', RxIndex'
  PROVE  IInv'
  BY DEF IInv, TypeOK, ThreadType, TxType, RxType, CountType

\* The driver offers a frame.
LEMMA OfferFrameStep ==
  ASSUME IInv, NEW good \in BOOLEAN, OfferFrame(good)
  PROVE  IInv'
  <1>1. TypeOK /\ LoopsUp /\ Bounds /\ Arrived /\ TxIndex /\ RxIndex
    BY DEF IInv
  <1>2. ThreadType /\ TxType /\ RxType /\ CountType
    BY <1>1, TypeParts
  <1>3. /\ Frames \in Nat /\ frames \in Nat /\ Len(tx) \in Nat /\ Len(sent) \in Nat
        /\ txNext \in Nat /\ txNext <= Len(tx) /\ base.sent \in Nat /\ Waiting \in {0, 1}
    BY <1>1, Numbers
  <1>4. PICK e \in 0..Frames : tx' = Append(tx, e)
    <2>1. frames' \in 0..Frames /\ 0 \in 0..Frames
      BY <1>3 DEF OfferFrame
    <2> QED BY <2>1 DEF OfferFrame
  <1>5. /\ frames < Frames /\ frames' = frames + 1
        /\ UNCHANGED <<state, thread, txNext, txUsed, deferred, sent, base, rx, inbound,
                       buffers, packets>>
    BY DEF OfferFrame, transport, rxRing
  <1>6. /\ tx' \in Seq(0..Frames) /\ Len(tx') = Len(tx) + 1
        /\ \A i \in 1..Len(tx) : tx'[i] = tx[i]
    <2>1. tx \in Seq(0..Frames)
      BY <1>2 DEF TxType
    <2> QED BY <1>4, <2>1, Appended
  <1>7. ThreadType' /\ LoopsUp'
    <2>1. UNCHANGED <<transport, thread>>
      BY DEF OfferFrame
    <2> QED BY <1>1, <1>2, <2>1, ThreadKept
  <1>8. RxType' /\ RxIndex' /\ Arrived'
    BY <1>1, <1>2, RxKept DEF OfferFrame, RxSide, rxRing, Live, transport
  <1>9. TxType'
    BY <1>2, <1>3, <1>5, <1>6 DEF TxType, deferred
  <1>10. CountType'
    BY <1>2, <1>3, <1>5 DEF CountType
  <1>11. Bounds'
    <2>1. Received' = Received
      BY <1>5 DEF Received
    <2> QED BY <1>1, <1>3, <1>5, <1>6, <2>1 DEF Bounds
  <1>12. TxIndex'
    <2> SUFFICES ASSUME Live' PROVE TxIndex'
      BY DEF TxIndex
    <2>1. Live /\ Waiting' = Waiting
      BY <1>5 DEF Live, Waiting, deferred
    <2>2. Len(sent) - base.sent \in Int /\ Len(sent) - base.sent <= Len(tx)
      BY <1>1, <1>3 DEF Bounds
    <2>3. \A i \in 1..(Len(sent) - base.sent) : i \in 1..Len(tx)
      BY <1>3, <2>2
    <2>4. pendingTx # None => txNext \in 1..Len(tx)
      BY <1>1, <1>3, <2>1 DEF TxIndex, Waiting, None
    <2> QED BY <1>1, <1>5, <1>6, <2>1, <2>3, <2>4 DEF TxIndex, deferred
  <1> QED BY <1>7, <1>8, <1>9, <1>10, <1>11, <1>12, PartsPrime

\* The driver offers a buffer.
LEMMA OfferBufferStep ==
  ASSUME IInv, NEW size \in 0..Capacity, OfferBuffer(size)
  PROVE  IInv'
  <1>1. TypeOK /\ LoopsUp /\ Bounds /\ Arrived /\ TxIndex /\ RxIndex
    BY DEF IInv
  <1>2. ThreadType /\ TxType /\ RxType /\ CountType
    BY <1>1, TypeParts
  <1>3. Buffers \in Nat /\ buffers \in Nat /\ Len(rx) \in Nat /\ rxNext \in Nat /\ rxNext <= Len(rx)
    BY <1>1, Numbers
  <1>4. /\ buffers < Buffers /\ buffers' = buffers + 1 /\ rx' = Append(rx, size)
        /\ UNCHANGED <<state, tx, txNext, sent, rxNext, rxUsed, inbound, frames, packets, base>>
    BY DEF OfferBuffer, transport, txRing
  <1>5. rx' \in Seq(0..Capacity) /\ Len(rx') = Len(rx) + 1
    <2>1. rx \in Seq(0..Capacity)
      BY <1>2 DEF RxType
    <2> QED BY <1>4, <2>1, Appended
  <1>6. ThreadType' /\ LoopsUp'
    <2>1. UNCHANGED <<transport, thread>>
      BY DEF OfferBuffer
    <2> QED BY <1>1, <1>2, <2>1, ThreadKept
  <1>7. TxType' /\ TxIndex'
    BY <1>1, <1>2, TxKept DEF OfferBuffer, TxSide, Live, transport
  <1>8. Received' = Received
    BY <1>4 DEF Received
  <1>9. RxType'
    BY <1>2, <1>3, <1>4, <1>5 DEF RxType
  <1>10. CountType'
    BY <1>2, <1>3, <1>4 DEF CountType
  <1>11. Bounds'
    BY <1>1, <1>3, <1>4, <1>5, <1>8 DEF Bounds
  <1>12. RxIndex' /\ Arrived'
    BY <1>1, <1>4, <1>8 DEF RxIndex, Arrived, Live
  <1> QED BY <1>6, <1>7, <1>9, <1>10, <1>11, <1>12, PartsPrime

\* A packet arrives.
LEMMA ArriveStep ==
  ASSUME IInv, NEW length \in 0..Capacity, Arrive(length)
  PROVE  IInv'
  <1> DEFINE P == [id : 1..Packets, length : 0..Capacity]
  <1>1. TypeOK /\ LoopsUp /\ Bounds /\ Arrived /\ TxIndex /\ RxIndex
    BY DEF IInv
  <1>2. ThreadType /\ TxType /\ RxType /\ CountType
    BY <1>1, TypeParts
  <1>3. Packets \in Nat /\ packets \in Nat /\ Len(inbound) \in Nat /\ base.taken \in Nat
    BY <1>1, Numbers
  <1>4. /\ packets < Packets /\ packets' = packets + 1
        /\ UNCHANGED <<state, rx, rxNext, rxUsed, tx, txNext, sent, frames, buffers, base>>
    BY DEF Arrive, transport, rxRing, txRing
  <1>5. PICK packet \in P : packet.id = packets + 1 /\ inbound' = Append(inbound, packet)
    <2>1. packets' \in 1..Packets
      BY <1>3, <1>4
    <2> QED BY <1>4, <2>1 DEF Arrive
  <1>6. /\ inbound' \in Seq(P) /\ Len(inbound') = Len(inbound) + 1
        /\ \A i \in 1..Len(inbound) : inbound'[i] = inbound[i]
        /\ inbound'[Len(inbound) + 1] = packet
    <2>1. inbound \in Seq(P)
      BY <1>2 DEF RxType
    <2> HIDE DEF P
    <2> QED BY <1>5, <2>1, Appended
  <1>7. ThreadType' /\ LoopsUp'
    <2>1. UNCHANGED <<transport, thread>>
      BY DEF Arrive
    <2> QED BY <1>1, <1>2, <2>1, ThreadKept
  <1>8. TxType' /\ TxIndex'
    BY <1>1, <1>2, TxKept DEF Arrive, TxSide, Live, transport
  <1>9. Received' = Received
    BY <1>3, <1>4, <1>6 DEF Received
  <1>10. RxType'
    BY <1>2, <1>4, <1>6 DEF RxType
  <1>11. CountType'
    BY <1>2, <1>3, <1>4 DEF CountType
  <1>12. Bounds'
    BY <1>1, <1>3, <1>4, <1>6, <1>9 DEF Bounds
  <1>13. RxIndex'
    BY <1>1, <1>4, <1>9 DEF RxIndex, Live
  <1>14. Arrived'
    <2> SUFFICES ASSUME NEW i \in 1..Len(inbound') PROVE inbound'[i].id = Received + i
      BY <1>9 DEF Arrived
    <2>1. CASE i \in 1..Len(inbound)
      BY <1>1, <1>6, <2>1 DEF Arrived
    <2>2. CASE i = Len(inbound) + 1
      BY <1>3, <1>5, <1>6, <2>2 DEF Received
    <2> QED BY <1>3, <1>6, <2>1, <2>2
  <1> QED BY <1>7, <1>8, <1>10, <1>11, <1>12, <1>13, <1>14, PartsPrime

\* The driver overwrites the frame that waits: nothing but shared changes.
LEMMA OverwriteStep ==
  ASSUME IInv, Overwrite
  PROVE  IInv'
  <1>1. TypeOK /\ LoopsUp /\ Bounds /\ Arrived /\ TxIndex /\ RxIndex
    BY DEF IInv
  <1>2. ThreadType /\ TxType /\ RxType /\ CountType
    BY <1>1, TypeParts
  <1>3. ThreadType' /\ LoopsUp'
    <2>1. UNCHANGED <<transport, thread>>
      BY DEF Overwrite
    <2> QED BY <1>1, <1>2, <2>1, ThreadKept
  <1>4. RxType' /\ RxIndex' /\ Arrived'
    BY <1>1, <1>2, RxKept DEF Overwrite, RxSide, Live, transport, produced
  <1>5. Bounds' /\ CountType'
    BY <1>1, <1>2, BoundsKept DEF Overwrite, txRing, rxRing
  <1>6. TxType'
    <2>1. Junk \in 0..Junk
      BY NetAssumption DEF Junk
    <2> QED BY <1>2, <2>1 DEF Overwrite, TxType, txRing, Junk
  <1>7. TxIndex'
    <2>1. Waiting' = Waiting
      BY DEF Overwrite, Waiting
    <2> QED BY <1>1, <2>1 DEF Overwrite, TxIndex, Live, transport, txRing
  <1> QED BY <1>3, <1>4, <1>5, <1>6, <1>7, PartsPrime

\* A step of the run thread that touches no ring and no counter.
LEMMA QuietStep ==
  ASSUME IInv, ThreadType', LoopsUp', Live' => Live,
         UNCHANGED <<txRing, rxRing, deferred, sent, inbound, produced, base>>
  PROVE  IInv'
  <1>1. TypeOK /\ LoopsUp /\ Bounds /\ Arrived /\ TxIndex /\ RxIndex
    BY DEF IInv
  <1>2. ThreadType /\ TxType /\ RxType /\ CountType
    BY <1>1, TypeParts
  <1>3. RxType' /\ RxIndex' /\ Arrived'
    BY <1>1, <1>2, RxKept DEF RxSide, produced
  <1>4. TxType' /\ TxIndex'
    BY <1>1, <1>2, TxKept DEF TxSide
  <1>5. Bounds' /\ CountType'
    BY <1>1, <1>2, BoundsKept DEF txRing, rxRing
  <1> QED BY <1>3, <1>4, <1>5, PartsPrime

\* Polls, events and the ends of a loop touch no ring.
LEMMA ControlStep ==
  ASSUME IInv,
         \/ Tick \/ SetDriverOk \/ Poll \/ Isolate \/ TransmitDone \/ ReceiveDone
         \/ \E q \in {"Tx", "Rx"} : Notify(q) \/ DisableQueue(q)
  PROVE  IInv'
  <1>1. LoopsUp /\ ThreadType
    BY TypeParts DEF IInv
  <1>2. CASE TransmitDone \/ ReceiveDone
    <2>1. loops # <<>> /\ Break
      BY <1>2 DEF TransmitDone, ReceiveDone, In
    <2>2. ThreadType' /\ LoopsUp' /\ state' = state
      BY <1>1, <2>1, LoopEnds
    <2>3. UNCHANGED <<txRing, rxRing, deferred, sent, inbound, produced, base>>
      BY <1>2 DEF TransmitDone, ReceiveDone
    <2> QED BY <2>2, <2>3, QuietStep DEF Live
  <1>3. CASE Isolate
    <2>1. ThreadType' /\ LoopsUp' /\ ~Live'
      <3>1. polled' \in BOOLEAN
        BY <1>1, <1>3, Zenon DEF Isolate, Contain, ThreadType
      <3>2. Budget \in 1..Budget
        BY NetAssumption
      <3> QED BY <1>1, <1>3, <3>1, <3>2 DEF Isolate, Contain, ThreadType, LoopsUp, Live
    <2> QED BY <1>3, <2>1, QuietStep DEF Isolate
  <1>4. CASE Poll
    <2>1. ThreadType' /\ LoopsUp' /\ state' = state
      BY <1>1, <1>4 DEF Poll, ThreadType, LoopsUp, Loops, transport
    <2> QED BY <1>4, <2>1, QuietStep DEF Poll, Live
  <1>5. CASE Tick
    <2>1. ThreadType' /\ LoopsUp' /\ state' = state
      BY <1>1, <1>5 DEF Tick, Event, ThreadType, LoopsUp, transport
    <2> QED BY <1>5, <2>1, QuietStep DEF Tick, Live
  <1>6. CASE SetDriverOk
    <2>1. ThreadType' /\ LoopsUp' /\ Live
      BY <1>1, <1>6 DEF SetDriverOk, Event, ThreadType, LoopsUp, Live
    <2> QED BY <1>6, <2>1, QuietStep DEF SetDriverOk
  <1>7. ASSUME NEW q \in {"Tx", "Rx"}, Notify(q)
        PROVE  IInv'
    <2>1. ThreadType' /\ LoopsUp' /\ state' = state
      BY <1>1, <1>7 DEF Notify, Event, ThreadType, LoopsUp, transport
    <2> QED BY <1>7, <2>1, QuietStep DEF Notify, Live
  <1>8. ASSUME NEW q \in {"Tx", "Rx"}, DisableQueue(q)
        PROVE  IInv'
    <2>1. ThreadType' /\ LoopsUp' /\ state' = state
      BY <1>1, <1>8 DEF DisableQueue, Event, ThreadType, LoopsUp
    <2> QED BY <1>8, <2>1, QuietStep DEF DisableQueue, Live
  <1> QED BY <1>2, <1>3, <1>4, <1>5, <1>6, <1>7, <1>8

\* A reset empties the rings and moves the base to what has happened so far.
LEMMA ResetStep ==
  ASSUME IInv, Reset
  PROVE  IInv'
  <1>1. TypeOK /\ LoopsUp /\ Bounds /\ Arrived
    BY DEF IInv
  <1>2. ThreadType /\ TxType /\ RxType /\ CountType
    BY <1>1, TypeParts
  <1>3. /\ Frames \in Nat /\ Packets \in Nat /\ Capacity \in Nat /\ Buffers \in Nat
        /\ Len(tx) \in Nat /\ Len(sent) \in Nat /\ Len(inbound) \in Nat
        /\ frames \in Nat /\ packets \in Nat /\ buffers \in Nat
        /\ txNext \in Nat /\ txNext <= Len(tx) /\ base.sent \in Nat /\ base.taken \in Nat
        /\ Junk \in Nat
    BY <1>1, Numbers
  <1>4. /\ state' = "Down" /\ ready' = {} /\ loops = <<>> /\ loops' = loops
        /\ polled' = FALSE /\ budget' = budget
        /\ tx' = <<>> /\ txNext' = 0 /\ txUsed' = <<>>
        /\ rx' = <<>> /\ rxNext' = 0 /\ rxUsed' = <<>>
        /\ pendingTx' = None /\ snapshot' = 0 /\ shared' = 0
        /\ base' = [sent |-> Len(sent), taken |-> Received]
        /\ UNCHANGED <<sent, inbound, frames, buffers, packets>>
    BY DEF Reset, Event, produced
  <1>5. ThreadType' /\ LoopsUp'
    BY <1>2, <1>4 DEF ThreadType, LoopsUp
  <1>6. Len(<<>>) = 0 /\ \A S : <<>> \in Seq(S)
    OBVIOUS
  <1>7. TxType'
    BY <1>2, <1>3, <1>4, <1>6 DEF TxType, None, Junk
  <1>8. RxType'
    BY <1>2, <1>3, <1>4, <1>6 DEF RxType
  <1>9. /\ base'.sent = Len(sent) /\ base'.taken = Received
        /\ Received' = Received /\ Received \in Nat /\ Received <= packets
    BY <1>1, <1>3, <1>4 DEF Received, Bounds
  <1>10. Len(sent) <= frames
    BY <1>1, <1>3 DEF Bounds
  <1>11. CountType'
    <2>1. Len(sent) \in 0..Frames /\ Received \in 0..Packets
      BY <1>2, <1>3, <1>9, <1>10 DEF CountType
    <2> QED BY <1>2, <1>4, <2>1 DEF CountType
  <1>12. Bounds'
    BY <1>1, <1>3, <1>4, <1>6, <1>9, <1>10 DEF Bounds
  <1>13. Arrived'
    BY <1>1, <1>4, <1>9 DEF Arrived
  <1>14. TxIndex'
    <2>1. Waiting' = 0
      BY <1>4 DEF Waiting
    <2> QED BY <1>3, <1>4, <1>6, <1>9, <2>1 DEF TxIndex
  <1>15. RxIndex'
    BY <1>3, <1>4, <1>6, <1>9 DEF RxIndex
  <1> QED BY <1>5, <1>7, <1>8, <1>11, <1>12, <1>13, <1>14, <1>15, PartsPrime

(***************************************************************************)
(* Transmit.                                                               *)
(***************************************************************************)
\* What an answer of vmnet does to the frames on the wire.
LEMMA WireIs ==
  ASSUME sent \in Seq(0..Junk), NEW frame \in 0..Junk, NEW answer, Wire(frame, answer)
  PROVE  /\ sent' \in Seq(0..Junk) /\ Len(sent') \in Nat /\ Len(sent') <= Len(sent) + 1
         /\ ~Took(answer) => sent' = sent
         /\ Took(answer) => /\ Len(sent') = Len(sent) + 1
                            /\ \A i \in 1..Len(sent) : sent'[i] = sent[i]
                            /\ sent'[Len(sent) + 1] = frame
  <1>1. Len(sent) \in Nat
    OBVIOUS
  <1>2. CASE Took(answer)
    <2>1. sent' = Append(sent, frame)
      BY <1>2 DEF Wire
    <2>2. /\ sent' \in Seq(0..Junk) /\ Len(sent') = Len(sent) + 1
          /\ \A i \in 1..Len(sent) : sent'[i] = sent[i]
          /\ sent'[Len(sent) + 1] = frame
      BY <2>1, Appended
    <2> QED BY <1>1, <1>2, <2>2
  <1>3. CASE ~Took(answer)
    BY <1>1, <1>3 DEF Wire
  <1> QED BY <1>2, <1>3

\* What a transmit step leaves to show: its own ring, its index and the wire.
LEMMA TransmitKeeps ==
  ASSUME IInv, NEW answer, Transmit(answer),
         Break \/ Continue \/ Contain \/ Fatal,
         TxType', TxIndex', Len(sent') <= base.sent + txNext'
  PROVE  IInv'
  <1>1. TypeOK /\ LoopsUp /\ Bounds /\ Arrived /\ RxIndex
    BY DEF IInv
  <1>2. ThreadType /\ TxType /\ RxType /\ CountType
    BY <1>1, TypeParts
  <1>3. /\ loops # <<>> /\ state = "Up"
        /\ UNCHANGED <<tx, rxRing, inbound, produced, base>>
    BY <1>1 DEF Transmit, In, LoopsUp
  <1>4. ThreadType' /\ LoopsUp'
    BY <1>1, <1>2, <1>3, LoopEnds
  <1>5. RxType' /\ RxIndex' /\ Arrived'
    BY <1>1, <1>2, <1>3, RxKept DEF RxSide, produced, Live
  <1>6. CountType' /\ Bounds'
    <2>1. Received' = Received
      BY <1>3 DEF Received, produced
    <2>2. Bounds'
      BY <1>1, <1>3, <2>1 DEF Bounds, produced, rxRing
    <2> QED BY <1>2, <1>3, <2>2 DEF CountType, produced
  <1> QED BY <1>4, <1>5, <1>6, PartsPrime

\* The deferred frame is tried again.
LEMMA RetryStep ==
  ASSUME IInv, NEW answer \in WriteAnswers, Transmit(answer), pendingTx # None
  PROVE  IInv'
  <1>1. TypeOK /\ LoopsUp /\ Bounds /\ TxIndex
    BY DEF IInv
  <1>2. ThreadType /\ TxType
    BY <1>1, TypeParts
  <1>3. /\ Frames \in Nat /\ Len(tx) \in Nat /\ Len(sent) \in Nat /\ Len(txUsed) \in Nat
        /\ txNext \in Nat /\ txNext <= Len(tx) /\ base.sent \in Nat /\ Junk \in Nat
    BY <1>1, Numbers
  <1>4. Live /\ loops # <<>> /\ Retry(answer) /\ UNCHANGED <<tx, base>> /\ txNext' = txNext
    BY <1>1 DEF Transmit, In, LoopsUp, Live, Retry
  <1>5. /\ Waiting = 1 /\ base.sent + txNext = Len(sent) + 1 /\ txNext = Len(txUsed) + 1
        /\ pendingTx = txNext /\ snapshot = tx[txNext]
        /\ \A i \in 1..(Len(sent) - base.sent) : sent[base.sent + i] = tx[i]
        /\ \A i \in 1..Len(txUsed) : txUsed[i] = i
    BY <1>1, <1>4 DEF TxIndex, Waiting
  <1>6. /\ sent' \in Seq(0..Junk) /\ Len(sent') \in Nat /\ Len(sent') <= Len(sent) + 1
        /\ ~Took(answer) => sent' = sent
        /\ Took(answer) => /\ Len(sent') = Len(sent) + 1
                           /\ \A i \in 1..Len(sent) : sent'[i] = sent[i]
                           /\ sent'[Len(sent) + 1] = snapshot
    <2>1. sent \in Seq(0..Junk) /\ snapshot \in 0..Junk /\ Wire(snapshot, answer)
      BY <1>2, <1>4 DEF TxType, Retry, RetryFrame
    <2> QED BY <2>1, WireIs
  <1>7. Len(sent') <= base.sent + txNext'
    BY <1>3, <1>4, <1>5, <1>6
  <1>8. CASE send(answer) = "Accept" /\ Continue /\ txUsed' = Append(txUsed, pendingTx)
             /\ pendingTx' = None /\ snapshot' = 0 /\ shared' = 0
    <2>1. Took(answer)
      BY <1>8, SendHonest
    <2>2. pendingTx \in 1..Frames /\ txUsed \in Seq(1..Frames)
      BY <1>2, <1>3 DEF TxType, None
    <2>3. /\ txUsed' \in Seq(1..Frames) /\ Len(txUsed') = Len(txUsed) + 1
          /\ \A i \in 1..Len(txUsed) : txUsed'[i] = txUsed[i]
          /\ txUsed'[Len(txUsed) + 1] = pendingTx
      BY <1>8, <2>2, Appended
    <2>4. TxType'
      <3>1. 0 \in 0..Junk /\ None \in 0..Frames
        BY <1>3 DEF None
      <3> QED BY <1>2, <1>4, <1>6, <1>8, <2>3, <3>1 DEF TxType, Junk
    <2>5. TxIndex'
      <3>1. Waiting' = 0
        BY <1>8 DEF Waiting
      <3>2. base'.sent + txNext' = Len(sent') + Waiting'
        BY <1>3, <1>4, <1>5, <1>6, <2>1, <3>1
      <3>3. \A i \in 1..(Len(sent') - base'.sent) : sent'[base'.sent + i] = tx'[i]
        <4> SUFFICES ASSUME NEW i \in 1..(Len(sent') - base.sent)
                     PROVE  sent'[base.sent + i] = tx[i]
          BY <1>4
        <4>1. CASE i \in 1..(Len(sent) - base.sent)
          <5>1. base.sent + i \in 1..Len(sent)
            BY <1>3, <4>1
          <5>2. sent'[base.sent + i] = sent[base.sent + i]
            BY <1>6, <2>1, <5>1
          <5>3. sent[base.sent + i] = tx[i]
            BY <1>5, <4>1
          <5> QED BY <5>2, <5>3
        <4>2. CASE i = Len(sent) - base.sent + 1
          <5>1. base.sent + i = Len(sent) + 1 /\ i = txNext
            BY <1>3, <1>5, <4>2
          <5> QED BY <1>5, <1>6, <2>1, <5>1
        <4>3. Len(sent') = Len(sent) + 1
          BY <1>6, <2>1
        <4>4. i \in 1..(Len(sent) - base.sent) \/ i = Len(sent) - base.sent + 1
          BY <1>3, <4>3
        <4> QED BY <4>1, <4>2, <4>4
      <3>4. \A i \in 1..Len(txUsed') : txUsed'[i] = i
        BY <1>3, <1>5, <2>3
      <3>5. txNext' = Len(txUsed') + Waiting'
        BY <1>3, <1>4, <1>5, <2>3, <3>1
      <3> QED BY <1>8, <3>2, <3>3, <3>4, <3>5 DEF TxIndex
    <2> QED BY <1>7, <1>8, <2>4, <2>5, TransmitKeeps
  <1>9. CASE send(answer) = "Refuse" /\ Break /\ UNCHANGED <<txUsed, deferred>>
    <2>1. sent' = sent
      BY <1>6, <1>9, SendHonest
    <2>2. UNCHANGED TxSide /\ (Live' => Live)
      BY <1>4, <1>9, <2>1 DEF TxSide, txRing
    <2>3. TxType' /\ TxIndex'
      BY <1>1, <1>2, <2>2, TxKept
    <2> QED BY <1>7, <1>9, <2>3, TransmitKeeps
  <1>10. CASE send(answer) = "Fail" /\ Fatal /\ UNCHANGED <<txUsed, deferred>>
    <2>1. TxType'
      BY <1>2, <1>4, <1>6, <1>10 DEF TxType, deferred, Junk
    <2>2. TxIndex'
      BY <1>10 DEF TxIndex, Live, Fatal
    <2> QED BY <1>7, <1>10, <2>1, <2>2, TransmitKeeps
  <1> QED BY <1>4, <1>8, <1>9, <1>10 DEF Retry

\* The next frame of the ring is popped.
LEMMA SendStep ==
  ASSUME IInv, NEW answer \in WriteAnswers, Transmit(answer), pendingTx = None
  PROVE  IInv'
  <1> DEFINE frame == tx[txNext + 1]
  <1>1. TypeOK /\ LoopsUp /\ Bounds /\ TxIndex
    BY DEF IInv
  <1>2. ThreadType /\ TxType /\ CountType
    BY <1>1, TypeParts
  <1>3. /\ Frames \in Nat /\ Len(tx) \in Nat /\ Len(sent) \in Nat /\ Len(txUsed) \in Nat
        /\ txNext \in Nat /\ txNext <= Len(tx) /\ base.sent \in Nat /\ Junk \in Nat
        /\ frames \in Nat
    BY <1>1, Numbers
  <1>4. /\ Live /\ loops # <<>> /\ UNCHANGED <<tx, base>>
        /\ txNext < Len(tx) /\ txNext' = txNext + 1
        /\ \/ frame = 0 /\ Contain /\ UNCHANGED <<sent, txUsed, deferred>>
           \/ /\ frame # 0 /\ send(answer) = "Accept" /\ Continue
              /\ Wire(frame, answer)
              /\ txUsed' = Append(txUsed, txNext + 1)
              /\ UNCHANGED deferred
           \/ /\ frame # 0 /\ send(answer) = "Refuse" /\ Break
              /\ Wire(frame, answer)
              /\ pendingTx' = txNext + 1 /\ snapshot' = frame /\ shared' = frame
              /\ UNCHANGED txUsed
           \/ /\ frame # 0 /\ send(answer) = "Fail" /\ Fatal
              /\ Wire(frame, answer)
              /\ UNCHANGED <<txUsed, deferred>>
    <2>1. SendNext(answer) /\ In("Tx") /\ UNCHANGED <<tx, base>>
      BY DEF Transmit
    <2>2. txNext' = txNext + 1
      BY <2>1 DEF SendNext
    <2> QED BY <1>1, <2>1, <2>2 DEF SendNext, In, LoopsUp, Live
  <1>5. /\ Waiting = 0 /\ base.sent + txNext = Len(sent) /\ txNext = Len(txUsed)
        /\ \A i \in 1..(Len(sent) - base.sent) : sent[base.sent + i] = tx[i]
        /\ \A i \in 1..Len(txUsed) : txUsed[i] = i
    BY <1>1, <1>3, <1>4 DEF TxIndex, Waiting
  <1>6. /\ txNext + 1 \in 1..Len(tx) /\ txNext + 1 \in 1..Frames /\ frame \in 0..Junk
        /\ tx \in Seq(0..Frames) /\ sent \in Seq(0..Junk) /\ txUsed \in Seq(1..Frames)
    <2>1. tx \in Seq(0..Frames) /\ sent \in Seq(0..Junk) /\ txUsed \in Seq(1..Frames)
      BY <1>2 DEF TxType
    <2>2. txNext + 1 \in 1..Len(tx)
      BY <1>3, <1>4
    <2>3. Len(tx) <= Frames
      BY <1>1, <1>2, <1>3 DEF Bounds, CountType
    <2>4. frame \in 0..Frames
      BY <2>1, <2>2, ElementOfSeq
    <2> QED BY <1>3, <2>1, <2>2, <2>3, <2>4 DEF Junk
  <1>7. ASSUME Wire(frame, answer)
        PROVE  /\ sent' \in Seq(0..Junk) /\ Len(sent') \in Nat /\ Len(sent') <= Len(sent) + 1
               /\ ~Took(answer) => sent' = sent
               /\ Took(answer) => /\ Len(sent') = Len(sent) + 1
                                  /\ \A i \in 1..Len(sent) : sent'[i] = sent[i]
                                  /\ sent'[Len(sent) + 1] = frame
    <2> HIDE DEF frame
    <2> QED BY <1>6, <1>7, WireIs
  <1>8. CASE frame = 0 /\ Contain /\ UNCHANGED <<sent, txUsed, deferred>>
    <2>1. TxType'
      BY <1>2, <1>3, <1>4, <1>8 DEF TxType, deferred, Junk
    <2>2. TxIndex'
      BY <1>8 DEF TxIndex, Live, Contain
    <2>3. Len(sent') <= base.sent + txNext'
      BY <1>3, <1>4, <1>5, <1>8
    <2> QED BY <1>8, <2>1, <2>2, <2>3, TransmitKeeps
  <1>9. CASE /\ frame # 0 /\ send(answer) = "Accept" /\ Continue
             /\ Wire(frame, answer)
             /\ txUsed' = Append(txUsed, txNext + 1)
             /\ UNCHANGED deferred
    <2>1. /\ Took(answer) /\ sent' \in Seq(0..Junk) /\ Len(sent') = Len(sent) + 1
          /\ \A i \in 1..Len(sent) : sent'[i] = sent[i]
          /\ sent'[Len(sent) + 1] = frame
      BY <1>7, <1>9, SendHonest
    <2>2. /\ txUsed' \in Seq(1..Frames) /\ Len(txUsed') = Len(txUsed) + 1
          /\ \A i \in 1..Len(txUsed) : txUsed'[i] = txUsed[i]
          /\ txUsed'[Len(txUsed) + 1] = txNext + 1
      BY <1>6, <1>9, Appended
    <2>3. TxType'
      BY <1>2, <1>3, <1>4, <1>9, <2>1, <2>2 DEF TxType, deferred, Junk
    <2>4. TxIndex'
      <3>1. Waiting' = 0 /\ pendingTx' = None
        BY <1>9 DEF Waiting, deferred
      <3>2. base'.sent + txNext' = Len(sent') + Waiting'
        BY <1>3, <1>4, <1>5, <2>1, <3>1
      <3>3. \A i \in 1..(Len(sent') - base'.sent) : sent'[base'.sent + i] = tx'[i]
        <4> SUFFICES ASSUME NEW i \in 1..(Len(sent') - base.sent)
                     PROVE  sent'[base.sent + i] = tx[i]
          BY <1>4
        <4>1. CASE i \in 1..(Len(sent) - base.sent)
          <5>1. base.sent + i \in 1..Len(sent)
            BY <1>3, <4>1
          <5>2. sent'[base.sent + i] = sent[base.sent + i]
            BY <2>1, <5>1
          <5>3. sent[base.sent + i] = tx[i]
            BY <1>5, <4>1
          <5> QED BY <5>2, <5>3
        <4>2. CASE i = Len(sent) - base.sent + 1
          <5>1. base.sent + i = Len(sent) + 1 /\ i = txNext + 1
            BY <1>3, <1>5, <4>2
          <5> QED BY <2>1, <5>1
        <4>3. i \in 1..(Len(sent) - base.sent) \/ i = Len(sent) - base.sent + 1
          <5>1. Len(sent') = Len(sent) + 1
            BY <2>1
          <5> QED BY <1>3, <5>1
        <4> QED BY <4>1, <4>2, <4>3
      <3>4. \A i \in 1..Len(txUsed') : txUsed'[i] = i
        <4> SUFFICES ASSUME NEW i \in 1..Len(txUsed') PROVE txUsed'[i] = i
          OBVIOUS
        <4>1. i \in 1..Len(txUsed) \/ i = Len(txUsed) + 1
          BY <1>3, <2>2
        <4> QED BY <1>5, <2>2, <4>1
      <3>5. txNext' = Len(txUsed') + Waiting'
        BY <1>3, <1>4, <1>5, <2>2, <3>1
      <3> QED BY <3>1, <3>2, <3>3, <3>4, <3>5 DEF TxIndex
    <2>5. Len(sent') <= base.sent + txNext'
      BY <1>3, <1>4, <1>5, <2>1
    <2> QED BY <1>9, <2>3, <2>4, <2>5, TransmitKeeps
  <1>10. CASE /\ frame # 0 /\ send(answer) = "Refuse" /\ Break
              /\ Wire(frame, answer)
              /\ pendingTx' = txNext + 1 /\ snapshot' = frame /\ shared' = frame
              /\ UNCHANGED txUsed
    <2>1. sent' = sent
      BY <1>7, <1>10, SendHonest
    <2>2. TxType'
      <3>1. txNext + 1 \in 0..Frames
        BY <1>3, <1>6
      <3> QED BY <1>2, <1>3, <1>4, <1>6, <1>10, <2>1, <3>1 DEF TxType, Junk
    <2>3. Waiting' = 1 /\ pendingTx' = txNext' /\ snapshot' = tx'[txNext']
      BY <1>3, <1>4, <1>10 DEF Waiting, None
    <2>4. TxIndex'
      <3>1. base'.sent + txNext' = Len(sent') + Waiting' /\ txNext' = Len(txUsed') + Waiting'
        BY <1>3, <1>4, <1>5, <1>10, <2>1, <2>3
      <3> QED BY <1>4, <1>5, <1>10, <2>1, <2>3, <3>1 DEF TxIndex
    <2>5. Len(sent') <= base.sent + txNext'
      BY <1>3, <1>4, <1>5, <2>1
    <2> QED BY <1>10, <2>2, <2>4, <2>5, TransmitKeeps
  <1>11. CASE /\ frame # 0 /\ send(answer) = "Fail" /\ Fatal
              /\ Wire(frame, answer)
              /\ UNCHANGED <<txUsed, deferred>>
    <2>1. sent' \in Seq(0..Junk) /\ Len(sent') \in Nat /\ Len(sent') <= Len(sent) + 1
      BY <1>7, <1>11
    <2>2. TxType'
      BY <1>2, <1>3, <1>4, <1>11, <2>1 DEF TxType, deferred, Junk
    <2>3. TxIndex'
      BY <1>11 DEF TxIndex, Live, Fatal
    <2>4. Len(sent') <= base.sent + txNext'
      BY <1>3, <1>4, <1>5, <2>1
    <2> QED BY <1>11, <2>2, <2>3, <2>4, TransmitKeeps
  <1> QED BY <1>4, <1>8, <1>9, <1>10, <1>11

(***************************************************************************)
(* Receive.                                                                *)
(***************************************************************************)
\* What a receive step leaves to show: its own ring, its index, the backend.
LEMMA ReceiveKeeps ==
  ASSUME IInv, loops # <<>>, Break \/ Continue \/ Contain \/ Fatal,
         UNCHANGED <<txRing, rx, deferred, sent, produced, base>>,
         RxType', RxIndex', Arrived', Len(inbound') <= packets, base.taken <= Received'
  PROVE  IInv'
  <1>1. TypeOK /\ LoopsUp /\ Bounds /\ TxIndex
    BY DEF IInv
  <1>2. ThreadType /\ TxType /\ CountType
    BY <1>1, TypeParts
  <1>3. ThreadType' /\ LoopsUp'
    BY <1>1, <1>2, LoopEnds
  <1>4. TxType' /\ TxIndex'
    <2>1. Live' => Live
      BY <1>1 DEF LoopsUp, Live
    <2> QED BY <1>1, <1>2, <2>1, TxKept DEF TxSide
  <1>5. CountType' /\ Bounds'
    BY <1>1, <1>2 DEF CountType, Bounds, txRing, produced
  <1> QED BY <1>3, <1>4, <1>5, PartsPrime

\* A chain that receive refuses is popped and takes the device out of service.
LEMMA RefusedStep ==
  ASSUME IInv, ReceiveRefused
  PROVE  IInv'
  <1>1. TypeOK /\ Bounds /\ Arrived /\ RxType
    BY TypeParts DEF IInv
  <1>2. Len(rx) \in Nat /\ rxNext \in Nat
    BY <1>1, Numbers
  <1>3. /\ loops # <<>> /\ Contain /\ rxNext' = rxNext + 1 /\ rxNext < Len(rx)
        /\ UNCHANGED <<txRing, rx, rxUsed, deferred, sent, inbound, produced, base>>
    BY DEF ReceiveRefused, In, CanReceive
  <1>4. RxType'
    BY <1>1, <1>2, <1>3 DEF RxType
  <1>5. Received' = Received
    BY <1>3 DEF Received, produced
  <1>6. Arrived' /\ Len(inbound') <= packets /\ base.taken <= Received'
    BY <1>1, <1>3, <1>5 DEF Arrived, Bounds
  <1>7. RxIndex'
    BY <1>3 DEF RxIndex, Live, Contain
  <1> QED BY <1>3, <1>4, <1>6, <1>7, ReceiveKeeps

\* The backend's next packet: its number, and what taking it leaves.
LEMMA TakePacket ==
  ASSUME IInv, inbound # <<>>, inbound' = Tail(inbound), packets' = packets
  PROVE  /\ Head(inbound) \in [id : 1..Packets, length : 0..Capacity]
         /\ Head(inbound).id = Received + 1
         /\ inbound' \in Seq([id : 1..Packets, length : 0..Capacity])
         /\ Len(inbound') <= packets /\ Received' = Received + 1 /\ Received \in Nat
         /\ Arrived'
  <1> DEFINE P == [id : 1..Packets, length : 0..Capacity]
  <1>1. TypeOK /\ Bounds /\ Arrived /\ inbound \in Seq(P)
    BY TypeParts DEF IInv, RxType
  <1>2. Len(inbound) \in Nat /\ packets \in Nat
    BY <1>1, Numbers
  <1>3. /\ Tail(inbound) \in Seq(P) /\ Len(Tail(inbound)) = Len(inbound) - 1 /\ Len(inbound) >= 1
        /\ Head(inbound) = inbound[1] /\ Head(inbound) \in P
        /\ \A i \in 1..Len(Tail(inbound)) : Tail(inbound)[i] = inbound[i + 1]
    <2> HIDE DEF P
    <2> QED BY <1>1, Shortened
  <1>4. Received \in Nat /\ Len(inbound') <= packets /\ Received' = Received + 1
    BY <1>1, <1>2, <1>3 DEF Received, Bounds
  <1>5. Head(inbound).id = Received + 1
    <2>1. 1 \in 1..Len(inbound)
      BY <1>2, <1>3
    <2> QED BY <1>1, <1>3, <2>1 DEF Arrived
  <1>6. Arrived'
    <2> SUFFICES ASSUME NEW i \in 1..Len(inbound') PROVE inbound'[i].id = Received' + i
      BY DEF Arrived
    <2>1. i + 1 \in 1..Len(inbound) /\ i \in 1..Len(Tail(inbound))
      BY <1>2, <1>3
    <2>2. inbound'[i] = inbound[i + 1]
      BY <1>3, <2>1
    <2>3. inbound[i + 1].id = Received + (i + 1)
      BY <1>1, <2>1 DEF Arrived
    <2> QED BY <1>4, <2>2, <2>3
  <1> QED BY <1>3, <1>4, <1>5, <1>6

\* The used ring gets the chain, with the packet's number, filled or not.
LEMMA FilledIs ==
  ASSUME TypeOK, Len(rx) <= buffers, rxNext < Len(rx),
         NEW packet \in [id : 1..Packets, length : 0..Capacity], rxUsed' = Filled(packet)
  PROVE  \E e \in [chain : 1..Buffers, packet : 1..Packets, length : 0..Capacity] :
           /\ e.chain = rxNext + 1 /\ e.packet = packet.id
           /\ rxUsed' = Append(rxUsed, e)
  <1> DEFINE e(n) == [chain |-> rxNext + 1, packet |-> packet.id, length |-> n]
             E == [chain : 1..Buffers, packet : 1..Packets, length : 0..Capacity]
  <1>1. /\ Buffers \in Nat /\ buffers \in Nat /\ Len(rx) \in Nat /\ rxNext \in Nat
        /\ Capacity \in Nat
    BY Numbers
  <1>2. rxNext + 1 \in 1..Buffers
    BY <1>1 DEF TypeOK
  <1>3. packet.id \in 1..Packets /\ packet.length \in 0..Capacity /\ 0 \in 0..Capacity
    BY <1>1
  <1>4. e(0) \in E /\ e(packet.length) \in E
    BY <1>2, <1>3
  <1>5. rxUsed' = Append(rxUsed, e(0)) \/ rxUsed' = Append(rxUsed, e(packet.length))
    BY DEF Filled, Dropped
  <1>6. \A n : e(n).chain = rxNext + 1 /\ e(n).packet = packet.id
    OBVIOUS
  <1> QED BY <1>4, <1>5, <1>6

\* The backend is asked for a packet.
LEMMA ReceiveStep ==
  ASSUME IInv, NEW answer \in ReadAnswers(inbound # <<>>), ReceiveNext(answer)
  PROVE  IInv'
  <1> DEFINE inRange == inbound # <<>> /\ Head(inbound).length # 0
             E == [chain : 1..Buffers, packet : 1..Packets, length : 0..Capacity]
  <1>1. TypeOK /\ LoopsUp /\ Bounds /\ Arrived /\ RxIndex /\ RxType
    BY TypeParts DEF IInv
  <1>2. /\ Len(rx) \in Nat /\ rxNext \in Nat /\ Len(rxUsed) \in Nat /\ base.taken \in Nat
        /\ packets \in Nat /\ Len(inbound) \in Nat
    BY <1>1, Numbers
  <1>3. /\ loops # <<>> /\ rxNext < Len(rx) /\ Live
        /\ inbound' = IF Took(answer) THEN Tail(inbound) ELSE inbound
        /\ UNCHANGED <<txRing, rx, deferred, sent, produced, base>>
    BY <1>1 DEF ReceiveNext, In, CanReceive, LoopsUp, Live
  <1>4. /\ recv(answer, inRange) = "Packet" => Took(answer)
        /\ recv(answer, inRange) = "None" => ~Took(answer)
        /\ Took(answer) => inbound # <<>>
    <2>1. (inbound # <<>>) \in BOOLEAN /\ inRange \in BOOLEAN
      BY Zenon
    <2> HIDE DEF inRange
    <2> QED BY <2>1, RecvHonest
  <1>5. ASSUME Took(answer)
        PROVE  /\ Head(inbound) \in [id : 1..Packets, length : 0..Capacity]
               /\ Head(inbound).id = Received + 1
               /\ inbound' \in Seq([id : 1..Packets, length : 0..Capacity])
               /\ Len(inbound') <= packets /\ Received' = Received + 1 /\ Received \in Nat
               /\ Arrived'
    BY <1>3, <1>4, <1>5, TakePacket DEF produced
  <1>6. ASSUME ~Took(answer)
        PROVE  inbound' = inbound /\ Received' = Received /\ Arrived'
    <2>1. inbound' = inbound /\ packets' = packets
      BY <1>3, <1>6 DEF produced
    <2> QED BY <1>1, <2>1 DEF Arrived, Received
  <1>7. Len(inbound') <= packets /\ base.taken <= Received' /\ Arrived'
    <2>1. CASE Took(answer)
      BY <1>1, <1>2, <1>5, <2>1 DEF Bounds
    <2>2. CASE ~Took(answer)
      BY <1>1, <1>6, <2>2 DEF Bounds
    <2> QED BY <2>1, <2>2
  <1>8. inbound' \in Seq([id : 1..Packets, length : 0..Capacity])
    <2>1. CASE Took(answer)
      BY <1>5, <2>1
    <2>2. CASE ~Took(answer)
      BY <1>1, <1>6, <2>2 DEF RxType
    <2> QED BY <2>1, <2>2
  <1>9. CASE /\ recv(answer, inRange) = "None" /\ Break
             /\ rxNext' = PutBack(rxNext + 1) /\ UNCHANGED rxUsed
    <2>1. rxNext' = rxNext /\ inbound' = inbound /\ Received' = Received
      BY <1>2, <1>4, <1>6, <1>9 DEF PutBack
    <2>2. RxType'
      BY <1>1, <1>3, <1>9, <2>1 DEF RxType
    <2>3. RxIndex'
      BY <1>1, <1>3, <1>9, <2>1 DEF RxIndex
    <2> QED BY <1>3, <1>7, <1>9, <2>2, <2>3, ReceiveKeeps
  <1>10. CASE /\ recv(answer, inRange) = "Packet" /\ Continue
              /\ rxNext' = rxNext + 1 /\ rxUsed' = Filled(Head(inbound))
    <2>1. /\ Head(inbound) \in [id : 1..Packets, length : 0..Capacity]
          /\ Head(inbound).id = Received + 1 /\ Received' = Received + 1 /\ Received \in Nat
      BY <1>4, <1>5, <1>10
    <2>2. PICK e \in E : /\ e.chain = rxNext + 1 /\ e.packet = Received + 1
                         /\ rxUsed' = Append(rxUsed, e)
      <3>1. Len(rx) <= buffers
        BY <1>1 DEF Bounds
      <3> QED BY <1>1, <1>3, <1>10, <2>1, <3>1, FilledIs
    <2>3. /\ rxUsed' \in Seq(E) /\ Len(rxUsed') = Len(rxUsed) + 1
          /\ \A i \in 1..Len(rxUsed) : rxUsed'[i] = rxUsed[i]
          /\ rxUsed'[Len(rxUsed) + 1] = e
      <3>1. rxUsed \in Seq(E)
        BY <1>1 DEF RxType
      <3> HIDE DEF E
      <3> QED BY <2>2, <3>1, Appended
    <2>4. RxType'
      BY <1>1, <1>2, <1>3, <1>8, <1>10, <2>3 DEF RxType
    <2>5. RxIndex'
      <3>1. /\ Len(rxUsed) = rxNext /\ Received = base.taken + Len(rxUsed)
            /\ \A i \in 1..Len(rxUsed) : rxUsed[i].chain = i /\ rxUsed[i].packet = base.taken + i
        BY <1>1, <1>3 DEF RxIndex
      <3>2. Len(rxUsed') = rxNext' /\ Received' = base'.taken + Len(rxUsed')
        <4>1. base' = base /\ Len(rxUsed') = Len(rxUsed) + 1
          BY <1>3, <2>3
        <4>2. rxNext' = rxNext + 1 /\ Received' = Received + 1
          BY <1>10, <2>1
        <4>3. Len(rxUsed) = rxNext /\ Received = base.taken + Len(rxUsed)
          BY <3>1
        <4> QED BY <1>2, <4>1, <4>2, <4>3
      <3>3. ASSUME NEW i \in 1..Len(rxUsed')
            PROVE  rxUsed'[i].chain = i /\ rxUsed'[i].packet = base.taken + i
        <4>1. i \in 1..Len(rxUsed) \/ i = Len(rxUsed) + 1
          BY <1>2, <2>3
        <4>2. CASE i \in 1..Len(rxUsed)
          BY <2>3, <3>1, <4>2
        <4>3. CASE i = Len(rxUsed) + 1
          <5>1. rxUsed'[i].chain = rxNext + 1 /\ rxUsed'[i].packet = Received + 1
            BY <2>2, <2>3, <4>3
          <5>2. rxNext + 1 = i /\ Received + 1 = base.taken + i
            BY <1>2, <3>1, <4>3
          <5> QED BY <5>1, <5>2
        <4> QED BY <4>1, <4>2, <4>3
      <3> QED BY <1>3, <3>2, <3>3 DEF RxIndex
    <2> QED BY <1>3, <1>7, <1>10, <2>4, <2>5, ReceiveKeeps
  <1>11. CASE recv(answer, inRange) = "Fail" /\ Fatal /\ rxNext' = rxNext + 1 /\ UNCHANGED rxUsed
    <2>1. RxType'
      BY <1>1, <1>2, <1>3, <1>8, <1>11 DEF RxType
    <2>2. RxIndex'
      BY <1>11 DEF RxIndex, Live, Fatal
    <2> QED BY <1>3, <1>7, <1>11, <2>1, <2>2, ReceiveKeeps
  <1> QED BY <1>9, <1>10, <1>11 DEF ReceiveNext

(***************************************************************************)
(* The theorems.                                                           *)
(***************************************************************************)
\* The initial state satisfies the invariant.
LEMMA IInvInit == Init => IInv
  <1> SUFFICES ASSUME Init PROVE IInv
    OBVIOUS
  <1> USE NetAssumption
  <1>1. Len(<<>>) = 0 /\ \A S : <<>> \in Seq(S)
    OBVIOUS
  <1>2. ThreadType /\ LoopsUp
    <2>1. polled \in BOOLEAN
      BY Zenon DEF Init
    <2>2. Budget \in 1..Budget
      OBVIOUS
    <2> QED BY <2>1, <2>2 DEF Init, ThreadType, LoopsUp
  <1>3. TxType
    BY <1>1 DEF Init, TxType, Junk, None
  <1>4. RxType
    BY <1>1 DEF Init, RxType
  <1>5. CountType
    BY DEF Init, CountType
  <1>6. Received = 0 /\ Waiting = 0 /\ base.sent = 0 /\ base.taken = 0
    <2>1. packets = 0 /\ Len(inbound) = 0 /\ base = [sent |-> 0, taken |-> 0]
      BY <1>1 DEF Init
    <2>2. Waiting = 0
      BY DEF Init, Waiting
    <2> QED BY <2>1, <2>2 DEF Received
  <1>7. Bounds
    BY <1>1, <1>6 DEF Init, Bounds
  <1>8. Arrived /\ TxIndex /\ RxIndex
    BY <1>1, <1>6 DEF Init, Arrived, TxIndex, RxIndex
  <1> QED BY <1>2, <1>3, <1>4, <1>5, <1>7, <1>8, TypeParts DEF IInv

\* Every step keeps the invariant.
LEMMA IInvStep == IInv /\ [Next]_vars => IInv'
  <1> SUFFICES ASSUME IInv, [Next]_vars PROVE IInv'
    OBVIOUS
  <1>1. CASE Outside
    BY <1>1, OfferFrameStep, OfferBufferStep, OverwriteStep, ArriveStep DEF Outside
  <1>2. CASE Poll \/ Isolate \/ TransmitDone
    BY <1>2, ControlStep
  <1>3. CASE Access
    BY <1>3, ControlStep, ResetStep DEF Access
  <1>4. ASSUME NEW answer \in WriteAnswers, Transmit(answer)
        PROVE  IInv'
    BY <1>4, RetryStep, SendStep
  <1>5. CASE Receive
    BY <1>5, ControlStep, RefusedStep, ReceiveStep DEF Receive
  <1>6. CASE UNCHANGED vars
    <2>1. LoopsUp /\ ThreadType
      BY TypeParts DEF IInv
    <2>2. UNCHANGED <<transport, thread>>
      BY <1>6 DEF vars
    <2>3. ThreadType' /\ LoopsUp' /\ (Live' => Live)
      BY <2>1, <2>2, ThreadKept DEF Live, transport
    <2> QED BY <1>6, <2>3, QuietStep DEF vars
  <1> QED BY <1>1, <1>2, <1>3, <1>4, <1>5, <1>6 DEF Next, RunStep

\* Whatever the interleaving of driver, network and run loop, the invariant
\* holds: net.rs's rings, its deferred frame and the backend agree by index.
THEOREM NetInvariant == Spec => []IInv
  BY IInvInit, IInvStep, PTL DEF Spec

\* The index form of the transmit side is FramesInOrder and half of
\* ChainsReturned.
LEMMA InOrder ==
  ASSUME IInv
  PROVE  FramesInOrder
  <1> SUFFICES ASSUME state = "Up" PROVE FramesInOrder
    BY DEF FramesInOrder
  <1> DEFINE a == SubSeq(sent, base.sent + 1, Len(sent))
             c == SubSeq(tx, txNext + 1, Len(tx))
  <1>1. TypeOK /\ Bounds /\ TxIndex /\ TxType /\ Live
    BY TypeParts DEF IInv, Live
  <1>2. /\ Frames \in Nat /\ Len(tx) \in Nat /\ Len(sent) \in Nat /\ Len(txUsed) \in Nat
        /\ txNext \in Nat /\ txNext <= Len(tx) /\ base.sent \in Nat /\ Waiting \in {0, 1}
    BY <1>1, Numbers
  <1>3. /\ base.sent + txNext = Len(sent) + Waiting
        /\ \A i \in 1..(Len(sent) - base.sent) : sent[base.sent + i] = tx[i]
        /\ txNext = Len(txUsed) + Waiting
        /\ pendingTx # None => pendingTx = txNext /\ snapshot = tx[txNext]
    BY <1>1 DEF TxIndex
  <1>4. tx \in Seq(0..Junk) /\ sent \in Seq(0..Junk) /\ snapshot \in 0..Junk
    <2>1. 0..Frames \subseteq 0..Junk
      BY <1>2 DEF Junk
    <2>2. tx \in Seq(0..Frames) /\ sent \in Seq(0..Junk) /\ snapshot \in 0..Junk
      BY <1>1 DEF TxType
    <2> QED BY <2>1, <2>2, Widened
  <1>5. /\ a \in Seq(0..Junk) /\ Len(a) = Len(sent) - base.sent
        /\ \A i \in 1..Len(a) : a[i] = sent[base.sent + i]
    <2>1. base.sent <= Len(sent)
      BY <1>2, <1>3
    <2> QED BY <1>2, <1>4, <2>1, Suffix
  <1>6. /\ c \in Seq(0..Junk) /\ Len(c) = Len(tx) - txNext
        /\ \A i \in 1..Len(c) : c[i] = tx[txNext + i]
    BY <1>2, <1>4, Suffix
  <1>7. Held \in Seq(0..Junk) /\ Len(Held) = Waiting /\ (Waiting = 1 => Held[1] = snapshot)
    <2>1. CASE pendingTx = None
      BY <2>1 DEF Held, Waiting
    <2>2. CASE pendingTx # None
      <3>1. Held = <<snapshot>> /\ Waiting = 1
        BY <2>2 DEF Held, Waiting
      <3> QED BY <1>4, <3>1
    <2> QED BY <2>1, <2>2
  <1> HIDE DEF a, c
  <1>8. Len(tx) = Len(a) + Len(Held) + Len(c) /\ Len(a) + Len(Held) = txNext
    <2>1. Len(a) = Len(sent) - base.sent /\ Len(c) = Len(tx) - txNext /\ Len(Held) = Waiting
      BY <1>5, <1>6, <1>7
    <2>2. base.sent + txNext = Len(sent) + Waiting
      BY <1>3
    <2>3. \A s, b, n, w, t \in Nat :
            b + n = s + w => t = (s - b) + w + (t - n) /\ (s - b) + w = n
      OBVIOUS
    <2>4. /\ Len(sent) \in Nat /\ base.sent \in Nat /\ txNext \in Nat /\ Len(tx) \in Nat
          /\ Waiting \in Nat
      BY <1>2
    <2>5. /\ Len(tx) = (Len(sent) - base.sent) + Waiting + (Len(tx) - txNext)
          /\ (Len(sent) - base.sent) + Waiting = txNext
      BY <2>2, <2>3, <2>4
    <2> QED BY <2>1, <2>5, Zenon
  <1>9. \A i \in 1..Len(a) : a[i] = tx[i]
    BY <1>3, <1>5
  <1>10. \A i \in 1..Len(Held) : Held[i] = tx[Len(a) + i]
    <2> SUFFICES ASSUME NEW i \in 1..Len(Held) PROVE Held[i] = tx[Len(a) + i]
      OBVIOUS
    <2>1. i = 1 /\ Waiting = 1
      BY <1>2, <1>7
    <2>2. Held[1] = tx[txNext]
      BY <1>3, <1>7, <2>1 DEF Waiting
    <2> QED BY <1>7, <1>8, <2>1, <2>2
  <1>11. \A i \in 1..Len(c) : c[i] = tx[Len(a) + Len(Held) + i]
    BY <1>6, <1>8
  <1>12. a \o Held \o c = tx
    <2>1. /\ a \in Seq(0..Junk) /\ Held \in Seq(0..Junk) /\ c \in Seq(0..Junk)
          /\ tx \in Seq(0..Junk) /\ Len(tx) = Len(a) + Len(Held) + Len(c)
      BY <1>4, <1>5, <1>6, <1>7, <1>8
    <2> QED BY <2>1, <1>9, <1>10, <1>11, Pieces
  <1> QED BY <1>12 DEF FramesInOrder, a, c

\* The index form of both sides is ChainsReturned.
LEMMA AllReturned ==
  ASSUME IInv
  PROVE  ChainsReturned
  <1> SUFFICES ASSUME state = "Up" PROVE ChainsReturned
    BY DEF ChainsReturned
  <1> DEFINE w == IF pendingTx = None THEN <<>> ELSE <<pendingTx>>
             counted == [i \in 1..txNext |-> i]
  <1>1. TypeOK /\ TxIndex /\ RxIndex /\ TxType /\ RxType /\ Live
    BY TypeParts DEF IInv, Live
  <1>2. Len(txUsed) \in Nat /\ txNext \in Nat /\ Waiting \in {0, 1}
    BY <1>1, Numbers
  <1>3. /\ txNext = Len(txUsed) + Waiting /\ \A i \in 1..Len(txUsed) : txUsed[i] = i
        /\ pendingTx # None => pendingTx = txNext
    BY <1>1 DEF TxIndex
  <1>4. txUsed \o w = counted
    <2>1. txUsed \in Seq(Nat) /\ w \in Seq(Nat) /\ counted \in Seq(Nat) /\ Len(counted) = txNext
      <3>1. txUsed \in Seq(Nat)
        <4>1. 1..Frames \subseteq Nat
          OBVIOUS
        <4>2. txUsed \in Seq(1..Frames)
          BY <1>1 DEF TxType
        <4> QED BY <4>1, <4>2, Widened
      <3>2. w \in Seq(Nat)
        BY <1>2, <1>3
      <3>3. counted \in Seq(Nat) /\ Len(counted) = txNext
        BY <1>2
      <3> QED BY <3>1, <3>2, <3>3
    <2>2. Len(w) = Waiting /\ (Waiting = 1 => w[1] = txNext)
      BY <1>3 DEF Waiting
    <2>3. \A i \in 1..txNext : counted[i] = i
      OBVIOUS
    <2> HIDE DEF w, counted
    <2>4. /\ txUsed \o w \in Seq(Nat) /\ Len(txUsed \o w) = txNext
          /\ \A i \in 1..txNext :
               (txUsed \o w)[i] = IF i <= Len(txUsed) THEN txUsed[i] ELSE w[i - Len(txUsed)]
      BY <1>3, <2>1, <2>2, ConcatProperties
    <2>5. ASSUME NEW i \in 1..txNext PROVE (txUsed \o w)[i] = counted[i]
      <3>1. CASE i \in 1..Len(txUsed)
        BY <1>2, <1>3, <2>3, <2>4, <3>1
      <3>2. CASE i = Len(txUsed) + 1
        <4>1. Waiting = 1 /\ txNext = i /\ ~(i <= Len(txUsed)) /\ i - Len(txUsed) = 1
          BY <1>2, <1>3, <3>2
        <4> QED BY <2>2, <2>3, <2>4, <4>1
      <3>3. txNext = Len(txUsed) + Waiting
        BY <1>3
      <3>4. i \in 1..Len(txUsed) \/ i = Len(txUsed) + 1
        BY <1>2, <3>3
      <3> QED BY <3>1, <3>2, <3>4
    <2> QED BY <2>1, <2>4, <2>5, SeqEqual
  <1>5. [i \in DOMAIN rxUsed |-> rxUsed[i].chain] = [i \in 1..rxNext |-> i]
    <2>1. DOMAIN rxUsed = 1..Len(rxUsed) /\ Len(rxUsed) = rxNext
      BY <1>1 DEF RxType, RxIndex
    <2>2. \A i \in 1..rxNext : rxUsed[i].chain = i
      BY <1>1, <2>1 DEF RxIndex
    <2> QED BY <2>1, <2>2
  <1> QED BY <1>4, <1>5 DEF ChainsReturned

\* The index form of the receive side is PacketsAccounted.
LEMMA AllAccounted ==
  ASSUME IInv
  PROVE  PacketsAccounted
  <1> SUFFICES ASSUME state = "Up" PROVE PacketsAccounted
    BY DEF PacketsAccounted
  <1>1. TypeOK /\ RxIndex /\ RxType /\ Live
    BY TypeParts DEF IInv, Live
  <1>2. Len(rxUsed) \in Nat /\ base.taken \in Nat
    BY <1>1, Numbers
  <1>3. DOMAIN rxUsed = 1..Len(rxUsed) /\ Received - base.taken = Len(rxUsed)
    BY <1>1, <1>2 DEF RxType, RxIndex
  <1>4. \A i \in 1..Len(rxUsed) : rxUsed[i].packet = base.taken + i
    BY <1>1 DEF RxIndex
  <1> QED BY <1>3, <1>4 DEF PacketsAccounted

\* The invariant of the run, for every instance: in whichever way a loop of
\* transmit or receive ends, and whatever vmnet answers, no frame, packet or
\* buffer is lost, repeated or reordered.
THEOREM NothingLostOrRepeated == Spec => []Accounted
  <1>1. IInv => Accounted
    BY InOrder, AllReturned, AllAccounted DEF IInv, Accounted
  <1> QED BY <1>1, NetInvariant, PTL

\* Transmit sends only in service and with its queue enabled, also the frame
\* that was deferred before the driver disabled the queue.
THEOREM NoFrameOutOfService == Spec => SendsInService
  <1>1. IInv /\ [Next]_vars => [sent' # sent => state = "Up" /\ "Tx" \in ready]_vars
    <2> SUFFICES ASSUME IInv, [Next]_vars, sent' # sent
                 PROVE  state = "Up" /\ "Tx" \in ready
      OBVIOUS
    <2>1. ASSUME NEW answer \in WriteAnswers, Transmit(answer)
          PROVE  state = "Up" /\ "Tx" \in ready
      BY <2>1 DEF Transmit, In, Blocked, IInv, LoopsUp
    <2>2. CASE Outside
      BY <2>2 DEF Outside, OfferFrame, OfferBuffer, Overwrite, Arrive
    <2>3. CASE Poll \/ Isolate \/ Access \/ TransmitDone
      BY <2>3 DEF Poll, Isolate, Access, Tick, Notify, SetDriverOk, DisableQueue, Reset,
                  TransmitDone
    <2>4. CASE Receive
      BY <2>4 DEF Receive, ReceiveDone, ReceiveRefused, ReceiveNext
    <2>5. CASE UNCHANGED vars
      BY <2>5 DEF vars
    <2> QED BY <2>1, <2>2, <2>3, <2>4, <2>5 DEF Next, RunStep
  <1> QED BY <1>1, NetInvariant, PTL DEF Spec, SendsInService

=============================================================================
