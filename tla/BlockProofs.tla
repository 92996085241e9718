----------------------------- MODULE BlockProofs -----------------------------
(***************************************************************************)
(* Theorems about modules Block and Disk, for any disk, batch size, set of *)
(* requests and word in which the disk's size fits.                        *)
(***************************************************************************)
EXTENDS Block, TLAPS, FiniteSetTheorems, WellFoundedInduction

USE DiskAssumption, BlockAssumption

(***************************************************************************)
(* The inductive invariant.                                                *)
(***************************************************************************)
\* How many sectors the disk has, and how many segments of the request are transferred.
Capacity == Size \div SectorSize
Done == Len(request.segments) - Len(todo)

Serving == {"Transfer", "Sync", "Answer"}

\* Every request offered is queued, in service, or accounted for.
QueueBound ==
  /\ answered + Len(avail) + (IF pc \in Serving THEN 1 ELSE 0) <= offered
  /\ version + Len(avail) <= offered
  /\ pc # "Idle" => left <= Len(avail)

\* A request that reaches the disk has passed execute's checks.
Checked ==
  /\ pc = "Transfer" => request.kind \in {"In", "Out"}
  /\ pc = "Sync" => request.kind \in {"Out", "Flush"}
  /\ pc \in Serving /\ (pc # "Answer" \/ status = "Ok") /\ request.kind \in {"In", "Out"} =>
       /\ request.flaw = "None"
       /\ request.sector + Len(request.segments) <= Capacity
       /\ request.kind = "Out" => ~readonly

\* What is left of a transfer is the end of the request, and goes to its place.
Progress ==
  pc = "Transfer" =>
    /\ Len(todo) <= Len(request.segments)
    /\ \A i \in 1..Len(todo) : todo[i] = request.segments[Done + i]
    /\ offset = (request.sector + Done) * SectorSize

\* The first d sectors of the write in service hold it.
Holds(f, d) == \A i \in 1..d : f[request.sector + i - 1] = version

\* The first d segments of the read in service have filled their buffers.
Fills(m, d) ==
  \A i \in 1..d :
    (\A j \in (i + 1)..d : request.segments[j] # request.segments[i]) =>
      m[request.segments[i]] = disk[request.sector + i - 1]

\* What a transfer has done so far, and what an answer of OK says.
Transferred ==
  /\ pc = "Transfer" /\ request.kind = "Out" => Holds(disk, Done)
  /\ pc = "Transfer" /\ request.kind = "In" => Fills(memory, Done)
  /\ pc = "Sync" /\ request.kind = "Out" => Holds(disk, Len(request.segments))
  /\ pc = "Answer" /\ status = "Ok" /\ request.kind = "Out" =>
       /\ Holds(disk, Len(request.segments))
       /\ ~negotiated => Holds(stable, Len(request.segments))
  /\ pc = "Answer" /\ status = "Ok" /\ request.kind = "In" =>
       Fills(memory, Len(request.segments))
  /\ pc = "Answer" /\ status = "Ok" /\ request.kind = "Flush" =>
       \A s \in Sectors : acked[s] <= stable[s]

\* Versions only grow, from what is promised to what is written.
Ordered ==
  \A s \in Sectors :
    /\ promised[s] <= stable[s] /\ stable[s] <= disk[s]
    /\ acked[s] <= disk[s] /\ disk[s] <= version

IInv == TypeOK /\ QueueBound /\ Checked /\ Progress /\ Transferred /\ Ordered

(***************************************************************************)
(* Numbers and sequences.                                                  *)
(***************************************************************************)
\* A set of naturals has a least element.
LEMMA HasMin ==
  ASSUME NEW T, T \subseteq Nat, T # {}
  PROVE  \E x \in T : \A y \in T : x <= y
<1> DEFINE R == OpToRel(<, Nat)
<1>1. PICK x \in T : \A y \in T : ~ (<<y, x>> \in R)
  <2>1. IsWellFoundedOn(R, Nat)
    BY NatLessThanWellFounded, Zenon
  <2> HIDE DEF R
  <2> QED
    BY <2>1, WFMin
<1>2. \A y \in T : ~ (y < x)
  BY <1>1 DEF OpToRel
<1> QED
  BY <1>2

\* A bounded one has a greatest: the size of a batch is well defined.
LEMMA HasMax ==
  ASSUME NEW n \in Nat, NEW T, T \subseteq 1..n, T # {}
  PROVE  Max(T) \in T /\ \A y \in T : y <= Max(T)
<1> DEFINE U == {n - t : t \in T}
<1>1. U \subseteq Nat /\ U # {}
  <2>1. \A t \in T : n - t \in Nat
    OBVIOUS
  <2>2. PICK t \in T : TRUE
    OBVIOUS
  <2>3. n - t \in U
    OBVIOUS
  <2> QED
    BY <2>1, <2>3
<1>2. PICK x \in U : \A y \in U : x <= y
  BY <1>1, HasMin
<1>3. PICK m \in T : x = n - m
  OBVIOUS
<1>4. \A y \in T : m >= y
  <2> SUFFICES ASSUME NEW y \in T PROVE m >= y
    OBVIOUS
  <2>1. x <= n - y
    BY <1>2
  <2> QED
    BY <1>3, <2>1
<1>5. \E z \in T : \A y \in T : z >= y
  BY <1>4
<1>6. Max(T) \in T /\ \A y \in T : Max(T) >= y
  BY <1>5 DEF Max
<1> QED
  BY <1>6

\* The byte offset of a sector leads back to the sector.
LEMMA DivMul ==
  ASSUME NEW x \in Nat PROVE (x * SectorSize) \div SectorSize = x
OBVIOUS

\* Bytes inside the disk are sectors inside the disk.
LEMMA MulDiv ==
  ASSUME NEW x \in Nat PROVE x * SectorSize <= Size <=> x <= Capacity
BY DEF Capacity

\* Sectors one after the other.
LEMMA Distribute ==
  ASSUME NEW x \in Nat, NEW y \in Nat PROVE (x + y) * SectorSize = x * SectorSize + y * SectorSize
OBVIOUS

\* What remains of a list of segments after a batch.
LEMMA Rest ==
  ASSUME NEW q \in Seq(Buffers), NEW n \in 1..Len(q)
  PROVE  /\ SubSeq(q, n + 1, Len(q)) \in Seq(Buffers)
         /\ Len(SubSeq(q, n + 1, Len(q))) = Len(q) - n
         /\ \A i \in 1..(Len(q) - n) : SubSeq(q, n + 1, Len(q))[i] = q[n + i]
OBVIOUS

\* The disk's sectors are numbered from 0.
LEMMA SectorsAre == Capacity \in Nat /\ Sectors = 0..(Capacity - 1)
BY DEF Sectors, Capacity

\* Every request is well formed as a record.
LEMMA RequestShape ==
  ASSUME NEW r \in Requests \cup {NoRequest}
  PROVE  /\ r.kind \in Kinds /\ r.flaw \in Flaws
         /\ r.sector \in Nat /\ r.segments \in Seq(Buffers)
<1>1. CASE r \in Requests
  <2>1. r \in Shapes
    BY <1>1
  <2> QED
    BY <2>1 DEF Shapes
<1>2. CASE r = NoRequest
  BY <1>2 DEF NoRequest, Kinds, Flaws
<1> QED
  BY <1>1, <1>2

\* A batch takes at least one segment and no more than there are.
LEMMA BatchIs ==
  ASSUME todo \in Seq(Buffers), todo # <<>>, NEW write
  PROVE  Batch(write) \in 1..Len(todo) /\ Fits(Batch(write), write)
<1> DEFINE T == {n \in 1..Len(todo) : Fits(n, write)}
<1>1. 1 \in T
  BY DEF Fits, Overlaps
<1>2. Max(T) \in T
  <2>1. T \subseteq 1..Len(todo) /\ T # {} /\ Len(todo) \in Nat
    BY <1>1
  <2> HIDE DEF T
  <2> QED
    BY <2>1, HasMax
<1> QED
  BY <1>2 DEF Batch

\* Where the segments still to do go: behind what is done, inside the disk.
LEMMA TargetIs ==
  ASSUME IInv, pc = "Transfer"
  PROVE  /\ Done \in Nat /\ Done + Len(todo) = Len(request.segments)
         /\ \A i \in 1..Len(todo) : /\ Target(i) = request.sector + Done + i - 1
                                   /\ Target(i) \in Sectors
<1>1. /\ request.sector \in Nat /\ request.segments \in Seq(Buffers) /\ todo \in Seq(Buffers)
  BY RequestShape DEF IInv, TypeOK, DiskTypeOK
<1>2. Done \in Nat /\ Done + Len(todo) = Len(request.segments)
  BY <1>1 DEF IInv, Progress, Done
<1>3. offset \div SectorSize = request.sector + Done
  <2>1. offset = (request.sector + Done) * SectorSize
    BY DEF IInv, Progress
  <2>2. request.sector + Done \in Nat
    BY <1>1, <1>2
  <2>3. ((request.sector + Done) * SectorSize) \div SectorSize = request.sector + Done
    BY <2>2, DivMul
  <2> QED
    BY <2>1, <2>3, Zenon
<1>4. request.sector + Len(request.segments) <= Capacity
  BY DEF IInv, Checked, Serving
<1> QED
  BY <1>1, <1>2, <1>3, <1>4, SectorsAre DEF Target

(***************************************************************************)
(* The queue and the service, whatever the disk holds.                     *)
(***************************************************************************)
FlagsOK == negotiated \in BOOLEAN /\ readonly \in BOOLEAN /\ kicked \in BOOLEAN

QueueOK ==
  /\ state \in {"Down", "Up", "Isolated", "Ended", "Closed"}
  /\ avail \in Seq(Requests)
  /\ pc \in {"Idle", "Next", "Transfer", "Sync", "Answer"}
  /\ left \in 0..MaxRequests /\ request \in Requests \cup {NoRequest}
  /\ status \in {"Ok", "IoErr", "Unsupp"}
  /\ offered \in 0..MaxRequests /\ answered \in 0..MaxRequests /\ version \in 0..MaxRequests

StoreOK == DiskTypeOK /\ acked \in [Sectors -> Versions] /\ promised \in [Sectors -> Versions]

\* The Boolean variables.
LEMMA FlagsStep ==
  ASSUME FlagsOK, Next PROVE FlagsOK'
<1> USE DEF transport
<1>1. CASE SetDriverOk
  BY <1>1, Zenon DEF FlagsOK, SetDriverOk
<1>2. CASE Reset
  <2>1. UNCHANGED readonly /\ (UNCHANGED <<negotiated, kicked>> \/ (negotiated' = FALSE /\ kicked' = FALSE))
    BY <1>2 DEF Reset
  <2> QED
    BY <2>1, Zenon DEF FlagsOK
<1>3. CASE Kick \/ Notify
  <2>1. UNCHANGED <<negotiated, readonly>> /\ (kicked' = TRUE \/ kicked' = FALSE)
    BY <1>3 DEF Kick, Notify
  <2> QED
    BY <2>1, Zenon DEF FlagsOK
<1>4. CASE \/ \E r \in Requests : Offer(r)
           \/ Host \/ Shutdown \/ NotifyDone \/ Pop \/ Transfer \/ TransferDone \/ Sync \/ Answer
           \/ Cleanup
  <2>1. UNCHANGED <<negotiated, readonly, kicked>>
    BY <1>4 DEF Offer, Host, Shutdown, NotifyDone, Pop, Transfer, TransferDone, Sync, Answer, Cleanup
  <2> QED
    BY <2>1, Zenon DEF FlagsOK
<1> QED
  BY <1>1, <1>2, <1>3, <1>4 DEF Next, RunStep

\* Nothing is served that was not offered, so every counter stays in its bound.
LEMMA QueueStep ==
  ASSUME QueueOK, QueueBound, Next PROVE QueueOK' /\ QueueBound'
<1> USE DEF QueueOK, QueueBound, Serving, transport, service, counters
<1>1. ASSUME NEW r \in Requests, Offer(r) PROVE QueueOK' /\ QueueBound'
  <2>1. avail' \in Seq(Requests) /\ Len(avail') = Len(avail) + 1
    BY <1>1 DEF Offer
  <2>2. /\ offered' = offered + 1 /\ offered < MaxRequests
        /\ UNCHANGED <<state, pc, left, request, status, answered, version>>
    BY <1>1 DEF Offer
  <2> QED
    BY <2>1, <2>2
<1>2. CASE Kick \/ Host \/ SetDriverOk \/ Shutdown \/ NotifyDone \/ Cleanup
  BY <1>2 DEF Kick, Host, SetDriverOk, Shutdown, NotifyDone, Cleanup
<1>3. CASE Reset
  <2>1. avail' = avail \/ (avail' = <<>> /\ answered' = offered)
    BY <1>3 DEF Reset
  <2>2. avail' \in Seq(Requests)
    <3>1. <<>> \in Seq(Requests)
      OBVIOUS
    <3> QED
      BY <2>1, <3>1
  <2> QED
    BY <1>3, <2>1, <2>2 DEF Reset
<1>4. CASE Notify
  BY <1>4 DEF Notify, Count
<1>5. CASE Pop
  <2>1. /\ pc = "Next" /\ left > 0 /\ avail # <<>> /\ request' = Head(avail) /\ avail' = Tail(avail)
        /\ UNCHANGED <<offered, answered>>
    BY <1>5 DEF Pop
  <2>2. request' \in Requests /\ avail' \in Seq(Requests) /\ Len(avail') = Len(avail) - 1
    BY <2>1
  <2>3. CASE Refuse(request')
    BY <2>1, <2>2, <2>3 DEF Refuse, Contain
  <2>4. CASE Execute(request')
    <3>1. /\ UNCHANGED state /\ left' = left - 1 /\ pc' \in Serving
          /\ status' \in {status, "Ok", "IoErr", "Unsupp"} /\ version' \in {version, version + 1}
      BY <2>4 DEF Execute, Reply
    <3> QED
      BY <2>1, <2>2, <3>1
  <2> QED
    BY <1>5, <2>3, <2>4 DEF Pop
<1>6. CASE Transfer \/ TransferDone \/ Sync
  <2>1. /\ UNCHANGED <<state, avail, left, request, offered, answered, version>>
        /\ pc \in Serving /\ pc' \in Serving
        /\ status' \in {status, "Ok", "IoErr"}
    BY <1>6 DEF Transfer, TransferDone, Sync, Reply
  <2> QED
    BY <2>1
<1>7. CASE Answer
  BY <1>7 DEF Answer
<1> QED
  BY <1>1, <1>2, <1>3, <1>4, <1>5, <1>6, <1>7 DEF Next, RunStep

(***************************************************************************)
(* The disk.                                                               *)
(***************************************************************************)
DiskInv == StoreOK /\ Checked /\ Progress /\ Transferred /\ Ordered

\* The sectors a request names are sectors of the disk.
LEMMA InsideDisk ==
  ASSUME TypeOK, request.sector + Len(request.segments) <= Capacity
  PROVE  \A i \in 1..Len(request.segments) : request.sector + i - 1 \in Sectors
<1>1. request.sector \in Nat /\ request.segments \in Seq(Buffers)
  BY RequestShape DEF TypeOK
<1> QED
  BY <1>1, SectorsAre

\* Caches may be written back, and writes promised that are safe, at any time.
LEMMA SteadyStep ==
  ASSUME IInv,
         UNCHANGED <<disk, memory, todo, offset, request, status, version, readonly, acked>>,
         stable' \in [Sectors -> Versions], promised' \in [Sectors -> Versions],
         \A s \in Sectors : stable'[s] = stable[s] \/ stable'[s] = disk[s],
         \A s \in Sectors : promised'[s] <= stable'[s],
         (pc' = pc /\ negotiated' = negotiated) \/ pc' \in {"Idle", "Next"}
  PROVE  DiskInv'
<1>1. StoreOK'
  BY DEF StoreOK, IInv, TypeOK, DiskTypeOK
<1>2. Checked' /\ Progress'
  BY DEF IInv, Checked, Progress, Serving, Done
<1>3. Transferred'
  <2> SUFFICES ASSUME pc' = pc, negotiated' = negotiated PROVE Transferred'
    BY DEF Transferred
  <2>1. ASSUME pc = "Answer", status = "Ok", request.kind = "Out", ~negotiated
        PROVE  Holds(stable, Len(request.segments))'
    <3>1. Holds(stable, Len(request.segments)) /\ Holds(disk, Len(request.segments))
      BY <2>1 DEF IInv, Transferred
    <3>2. \A i \in 1..Len(request.segments) : request.sector + i - 1 \in Sectors
      BY <2>1, InsideDisk DEF IInv, Checked, Serving
    <3> QED
      BY <3>1, <3>2 DEF Holds
  <2>2. ASSUME pc = "Answer", status = "Ok", request.kind = "Flush"
        PROVE  \A s \in Sectors : acked[s] <= stable'[s]
    BY <2>1, <2>2 DEF IInv, Transferred, Ordered
  <2>3. /\ pc = "Transfer" /\ request.kind = "Out" => Holds(disk, Done)'
        /\ pc = "Transfer" /\ request.kind = "In" => Fills(memory, Done)'
        /\ pc = "Sync" /\ request.kind = "Out" => Holds(disk, Len(request.segments))'
        /\ pc = "Answer" /\ status = "Ok" /\ request.kind = "Out" => Holds(disk, Len(request.segments))'
        /\ pc = "Answer" /\ status = "Ok" /\ request.kind = "In" => Fills(memory, Len(request.segments))'
    BY DEF IInv, Transferred, Holds, Fills, Done
  <2> QED
    BY <2>1, <2>2, <2>3 DEF Transferred
<1>4. Ordered'
  <2>1. \A s \in Sectors : stable[s] \in Nat /\ disk[s] \in Nat
    BY DEF IInv, TypeOK, DiskTypeOK, Versions
  <2>2. \A s \in Sectors : stable[s] <= disk[s] /\ acked[s] <= disk[s] /\ disk[s] <= version
    BY DEF IInv, Ordered
  <2> QED
    BY <2>1, <2>2 DEF Ordered
<1> QED
  BY <1>1, <1>2, <1>3, <1>4 DEF DiskInv

\* Driver, transport and host between and behind the transfers.
LEMMA OutsideStep ==
  ASSUME IInv,
         \/ \E r \in Requests : Offer(r)
         \/ Kick \/ Host \/ SetDriverOk \/ Reset \/ Shutdown \/ Cleanup \/ Notify \/ NotifyDone
  PROVE  DiskInv'
<1> USE DEF storage, transport, service, counters, promises
<1>1. /\ stable \in [Sectors -> Versions] /\ disk \in [Sectors -> Versions]
      /\ promised \in [Sectors -> Versions] /\ acked \in [Sectors -> Versions]
      /\ \A s \in Sectors : promised[s] <= stable[s] /\ stable[s] <= disk[s] /\ acked[s] <= disk[s]
  BY DEF IInv, TypeOK, DiskTypeOK, Ordered
<1>2. CASE \/ \E r \in Requests : Offer(r)
           \/ Kick \/ SetDriverOk \/ Shutdown \/ Notify \/ NotifyDone
  <2>1. /\ UNCHANGED <<storage, promises, request, status, version, readonly>>
        /\ (pc' = pc /\ negotiated' = negotiated) \/ pc' \in {"Idle", "Next"}
    BY <1>2 DEF Offer, Kick, SetDriverOk, Shutdown, Notify, NotifyDone
  <2> QED
    BY <1>1, <2>1, SteadyStep
<1>3. CASE Reset \/ Cleanup
  <2>1. /\ UNCHANGED <<disk, memory, todo, offset, acked, request, status, version, readonly>>
        /\ (pc' = pc /\ negotiated' = negotiated) \/ pc' \in {"Idle", "Next"}
        /\ \/ UNCHANGED <<stable, promised>>
           \/ stable' = disk /\ promised' = acked
    BY <1>3 DEF Reset, Cleanup, Settle, Flush
  <2> QED
    BY <1>1, <2>1, SteadyStep
<1>4. CASE Host
  <2>1. PICK t \in Sectors : WriteBack(t)
    BY <1>4 DEF Host
  <2>2. /\ UNCHANGED <<disk, memory, todo, offset, promises, request, status, version, readonly>>
        /\ pc' = pc /\ negotiated' = negotiated
        /\ stable' = [stable EXCEPT ![t] = disk[t]]
    BY <1>4, <2>1 DEF Host, WriteBack
  <2>3. /\ stable' \in [Sectors -> Versions]
        /\ \A s \in Sectors : stable'[s] = IF s = t THEN disk[s] ELSE stable[s]
    BY <1>1, <2>2
  <2>4. \A s \in Sectors : promised'[s] <= stable'[s]
    BY <1>1, <2>2, <2>3 DEF Versions
  <2> QED
    BY <1>1, <2>2, <2>3, <2>4, SteadyStep
<1> QED
  BY <1>2, <1>3, <1>4

\* Pop: a request that is refused leaves the disk alone, and one that is executed starts
\* at its first segment.
LEMMA PopStep ==
  ASSUME IInv, QueueOK', Pop PROVE DiskInv'
<1> USE DEF storage, transport, service, counters, promises
<1>1. /\ request' \in Requests \cup {NoRequest}
      /\ UNCHANGED <<disk, stable, memory, acked, promised, readonly>>
  BY DEF QueueOK, Pop, Refuse, Execute
<1>2. /\ request'.sector \in Nat /\ request'.segments \in Seq(Buffers)
  BY <1>1, RequestShape
<1>3. Ordered'
  <2>1. version \in Nat /\ version' \in {version, version + 1}
    BY DEF IInv, TypeOK, Pop, Refuse, Execute
  <2>2. \A s \in Sectors : disk[s] \in Nat
    BY DEF IInv, TypeOK, DiskTypeOK, Versions
  <2> QED
    BY <1>1, <2>1, <2>2 DEF IInv, Ordered
<1>4. StoreOK' /\ Checked' /\ Progress' /\ Transferred'
  <2>1. StoreOK
    BY DEF IInv, TypeOK, StoreOK
  <2>2. CASE pc' = "Idle" \/ (pc' = "Answer" /\ (status' # "Ok" \/ request'.kind = "GetId"))
             \/ (pc' = "Sync" /\ request'.kind = "Flush")
    <3>1. UNCHANGED <<todo, offset>>
      BY <2>2 DEF Pop, Refuse, Execute, Reply
    <3> QED
      BY <1>1, <2>1, <2>2, <3>1 DEF StoreOK, DiskTypeOK, Checked, Progress, Transferred, Serving
  <2>3. CASE pc' = "Transfer"
    <3>1. /\ Valid(request') /\ request'.kind \in {"In", "Out"}
          /\ todo' = request'.segments /\ offset' = Offset(request')
      BY <2>3 DEF Pop, Refuse, Contain, Execute, Reply
    <3>2. /\ request'.flaw = "None" /\ (request'.kind = "Out" => ~readonly)
          /\ Bounds(Offset(request'), Length(request'))
      BY <3>1 DEF Valid
    <3>3. request'.sector * SectorSize + Len(request'.segments) * SectorSize <= Size
      BY <3>2 DEF Bounds, Offset, Length
    <3>4. request'.sector + Len(request'.segments) \in Nat /\ Len(request'.segments) \in Nat
      BY <1>2
    <3>5. request'.sector + Len(request'.segments) <= Capacity
      BY <1>2, <3>3, <3>4, MulDiv, Distribute
    <3>6. Checked'
      BY <1>1, <2>3, <3>1, <3>2, <3>5 DEF Checked
    <3>7. Done' = 0
      BY <3>1, <3>4 DEF Done
    <3>8. Progress'
      BY <1>2, <3>1, <3>7 DEF Progress, Offset
    <3>9. Transferred'
      BY <2>3, <3>7 DEF Transferred, Holds, Fills
    <3>10. StoreOK'
      <4>1. offset' \in Nat /\ offset' <= Size
        <5>1. request'.sector * SectorSize \in Nat /\ Len(request'.segments) * SectorSize \in Nat
          BY <1>2, <3>4
        <5> QED
          BY <3>1, <3>3, <5>1 DEF Offset
      <4> QED
        BY <1>1, <1>2, <2>1, <3>1, <4>1 DEF StoreOK, DiskTypeOK
    <3> QED
      BY <3>6, <3>8, <3>9, <3>10
  <2> QED
    BY <2>2, <2>3 DEF Pop, Refuse, Contain, Execute, Reply
<1> QED
  BY <1>3, <1>4 DEF DiskInv

\* A batch of a write goes where the request says, and nowhere else.
LEMMA BatchWrites ==
  ASSUME IInv, pc = "Transfer", NEW n \in 1..Len(todo), NEW some \in SUBSET (1..n),
         disk' = Written({Target(i) : i \in some}, version)
  PROVE  /\ disk' \in [Sectors -> Versions]
         /\ \A s \in Sectors : disk'[s] = version \/ disk'[s] = disk[s]
         /\ \A s \in Sectors : disk'[s] # disk[s] => s \in Span(request)
<1>1. /\ todo \in Seq(Buffers) /\ request.sector \in Nat /\ request.segments \in Seq(Buffers)
      /\ disk \in [Sectors -> Versions] /\ version \in Versions
  BY RequestShape DEF IInv, TypeOK, DiskTypeOK, Versions
<1>3. \A s \in Sectors : disk'[s] = IF \E i \in some : s = Target(i) THEN version ELSE disk[s]
  BY DEF Written
<1>4. \A i \in some : Target(i) \in Span(request)
  <2> SUFFICES ASSUME NEW i \in some PROVE Target(i) \in Span(request)
    OBVIOUS
  <2>1. i \in 1..Len(todo) /\ Len(todo) \in Nat
    BY <1>1
  <2>2. /\ Done \in Nat /\ Done + Len(todo) = Len(request.segments)
        /\ Target(i) = request.sector + Done + i - 1 /\ Target(i) \in Sectors
    BY <2>1, TargetIs
  <2> QED
    BY <1>1, <2>1, <2>2 DEF Span
<1>5. disk' \in [Sectors -> Versions]
  BY <1>1 DEF Written
<1> QED
  BY <1>3, <1>4, <1>5

\* What is written is newer than anything answered or promised.
LEMMA WritesOrdered ==
  ASSUME IInv, UNCHANGED <<stable, acked, promised, version>>,
         \A s \in Sectors : disk'[s] = version \/ disk'[s] = disk[s]
  PROVE  Ordered'
<1> SUFFICES ASSUME NEW s \in Sectors
             PROVE  /\ promised[s] <= stable[s] /\ stable[s] <= disk'[s]
                    /\ acked[s] <= disk'[s] /\ disk'[s] <= version
  BY DEF Ordered
<1>1. disk[s] \in Nat /\ stable[s] \in Nat /\ acked[s] \in Nat /\ version \in Nat
  BY DEF IInv, TypeOK, DiskTypeOK, Versions
<1>2. /\ promised[s] <= stable[s] /\ stable[s] <= disk[s]
      /\ acked[s] <= disk[s] /\ disk[s] <= version
  BY DEF IInv, Ordered
<1>3. disk'[s] = version \/ disk'[s] = disk[s]
  OBVIOUS
<1> QED
  BY <1>1, <1>2, <1>3

\* A failed transfer answers IoErr and keeps what versions promise.
LEMMA TransferFails ==
  ASSUME IInv, Transfer,
         \/ request.kind = "Out" /\ WriteFails(version) /\ Reply("IoErr")
         \/ request.kind = "In" /\ ReadFails /\ Reply("IoErr")
  PROVE  DiskInv'
<1> USE DEF transport, counters, promises
<1>1. /\ pc = "Transfer" /\ pc' = "Answer" /\ status' = "IoErr" /\ todo # <<>> /\ todo' = <<>>
      /\ UNCHANGED <<stable, offset, acked, promised, version, request, readonly>>
  BY DEF Transfer, WriteFails, ReadFails, Reply
<1>2. /\ disk \in [Sectors -> Versions] /\ stable \in [Sectors -> Versions]
      /\ memory \in [Buffers -> Versions] /\ version \in Nat
  BY DEF IInv, TypeOK, DiskTypeOK
<1>3. /\ disk' \in [Sectors -> Versions]
      /\ \A s \in Sectors : disk'[s] = version \/ disk'[s] = disk[s]
  <2>1. CASE WriteFails(version)
    <3>1. todo \in Seq(Buffers)
      BY DEF IInv, TypeOK, DiskTypeOK
    <3>2. PICK n \in 1..Len(todo) : n = Batch(TRUE)
      BY <1>1, <3>1, BatchIs, Zenon
    <3>3. PICK some \in SUBSET (1..n) : disk' = Written({Target(i) : i \in some}, version)
      BY <2>1, <3>2, Zenon DEF WriteFails
    <3> QED
      BY <1>1, <3>3, BatchWrites, Zenon
  <2>2. CASE ReadFails
    BY <1>2, <2>2 DEF ReadFails
  <2> QED
    BY <2>1, <2>2
<1>4. memory' \in [Buffers -> Versions]
  <2>1. CASE WriteFails(version)
    BY <1>2, <2>1 DEF WriteFails
  <2>2. CASE ReadFails
    BY <1>2, <2>2 DEF ReadFails, Filled
  <2> QED
    BY <2>1, <2>2
<1>5. StoreOK'
  <2>1. <<>> \in Seq(Buffers)
    OBVIOUS
  <2> QED
    BY <1>1, <1>3, <1>4, <2>1 DEF StoreOK, DiskTypeOK, IInv, TypeOK
<1>6. Ordered'
  BY <1>1, <1>3, WritesOrdered
<1>7. Checked' /\ Progress' /\ Transferred'
  BY <1>1 DEF Checked, Progress, Transferred
<1> QED
  BY <1>5, <1>6, <1>7 DEF DiskInv

\* A batch that was transferred leaves the rest of the request, in its place.
LEMMA ProgressStep ==
  ASSUME IInv, pc = "Transfer", NEW n \in 1..Len(todo), UNCHANGED <<pc, request>>,
         todo' = SubSeq(todo, n + 1, Len(todo)), offset' = Advance(n)
  PROVE  /\ todo' \in Seq(Buffers) /\ offset' \in 0..Size
         /\ Done' = Done + n /\ Done + n <= Len(request.segments) /\ Progress'
<1>1. /\ request.sector \in Nat /\ request.segments \in Seq(Buffers) /\ todo \in Seq(Buffers)
  BY RequestShape DEF IInv, TypeOK, DiskTypeOK
<1>2. /\ Done \in Nat /\ Done + Len(todo) = Len(request.segments)
  BY TargetIs
<1>3. /\ \A i \in 1..Len(todo) : todo[i] = request.segments[Done + i]
      /\ offset = (request.sector + Done) * SectorSize
      /\ request.sector + Len(request.segments) <= Capacity
  BY DEF IInv, Progress, Checked, Serving
<1>4. /\ todo' \in Seq(Buffers) /\ Len(todo') = Len(todo) - n
      /\ \A i \in 1..(Len(todo) - n) : todo'[i] = todo[n + i]
  <2> DEFINE q == SubSeq(todo, n + 1, Len(todo))
  <2>1. /\ q \in Seq(Buffers) /\ Len(q) = Len(todo) - n
        /\ \A i \in 1..(Len(todo) - n) : q[i] = todo[n + i]
    BY <1>1, Rest
  <2> HIDE DEF q
  <2>2. todo' = q
    BY DEF q
  <2> QED
    BY <2>1, <2>2, Zenon
<1>5. Done' = Done + n /\ Done + n <= Len(request.segments)
  <2>1. Len(request.segments) \in Nat /\ Len(todo) \in Nat
    BY <1>1
  <2>2. Done = Len(request.segments) - Len(todo) /\ Done' = Len(request.segments) - Len(todo')
    BY DEF Done
  <2> QED
    BY <1>4, <2>1, <2>2
<1>6. offset' = (request.sector + Done + n) * SectorSize
  <2>1. request.sector + Done \in Nat /\ n \in Nat
    BY <1>1, <1>2
  <2>2. (request.sector + Done + n) * SectorSize
          = (request.sector + Done) * SectorSize + n * SectorSize
    BY <2>1, Distribute
  <2> QED
    BY <1>3, <2>2, Zenon DEF Advance
<1>7. offset' \in 0..Size
  <2>1. request.sector + Done + n \in Nat /\ request.sector + Done + n <= Capacity
    <3>1. /\ request.sector \in Nat /\ Len(request.segments) \in Nat /\ Capacity \in Nat
          /\ n \in Nat
      BY <1>1, SectorsAre
    <3> QED
      BY <1>2, <1>3, <1>5, <3>1
  <2>2. (request.sector + Done + n) * SectorSize \in Nat
    BY <2>1
  <2>3. (request.sector + Done + n) * SectorSize <= Size
    BY <2>1, MulDiv
  <2> QED
    BY <1>6, <2>2, <2>3
<1>8. \A i \in 1..Len(todo') : todo'[i] = request.segments[Done + n + i]
  <2> SUFFICES ASSUME NEW i \in 1..Len(todo') PROVE todo'[i] = request.segments[Done + n + i]
    OBVIOUS
  <2>1. n + i \in 1..Len(todo) /\ i \in 1..(Len(todo) - n)
    BY <1>1, <1>4
  <2>2. todo'[i] = todo[n + i] /\ todo[n + i] = request.segments[Done + (n + i)]
    BY <1>3, <1>4, <2>1
  <2>3. Done + (n + i) = Done + n + i
    BY <1>2, <2>1
  <2> QED
    BY <2>2, <2>3
<1>9. Progress'
  <2>1. Len(todo') <= Len(request.segments)
    BY <1>1, <1>2, <1>4
  <2>2. request.sector + (Done + n) = request.sector + Done + n
    BY <1>1, <1>2
  <2> QED
    BY <1>5, <1>6, <1>8, <2>1, <2>2 DEF Progress
<1> QED
  BY <1>4, <1>5, <1>7, <1>9

\* A batch of a write extends what the disk holds of it.
LEMMA WriteStep ==
  ASSUME IInv, Transfer, request.kind = "Out", WriteBatch(version), UNCHANGED <<pc, status>>
  PROVE  DiskInv'
<1> USE DEF transport, counters, promises
<1>1. /\ pc = "Transfer" /\ todo # <<>>
      /\ UNCHANGED <<stable, memory, acked, promised, version, request, readonly, negotiated>>
  BY DEF Transfer, WriteBatch
<1>2. /\ todo \in Seq(Buffers) /\ request.sector \in Nat /\ request.segments \in Seq(Buffers)
      /\ disk \in [Sectors -> Versions] /\ stable \in [Sectors -> Versions]
      /\ acked \in [Sectors -> Versions] /\ version \in Nat
  BY RequestShape DEF IInv, TypeOK, DiskTypeOK
<1>3. PICK n \in 1..Len(todo) : n = Batch(TRUE)
  BY <1>1, <1>2, BatchIs, Zenon
<1>4. /\ disk' = Written({Target(i) : i \in 1..n}, version)
      /\ todo' = SubSeq(todo, n + 1, Len(todo)) /\ offset' = Advance(n)
  BY <1>3, Zenon DEF WriteBatch
<1>5. /\ todo' \in Seq(Buffers) /\ offset' \in 0..Size
      /\ Done' = Done + n /\ Done + n <= Len(request.segments) /\ Progress'
  BY <1>1, <1>4, ProgressStep
<1>6. /\ disk' \in [Sectors -> Versions]
      /\ \A s \in Sectors : disk'[s] = version \/ disk'[s] = disk[s]
  <2>1. 1..n \in SUBSET (1..n)
    OBVIOUS
  <2> QED
    BY <1>1, <1>4, <2>1, BatchWrites
<1>7. StoreOK'
  BY <1>1, <1>5, <1>6 DEF StoreOK, DiskTypeOK, IInv, TypeOK
<1>8. Ordered'
  BY <1>1, <1>6, WritesOrdered
<1>9. Checked'
  BY <1>1 DEF IInv, Checked, Serving
<1>10. Transferred'
  <2>1. Holds(disk, Done)
    BY <1>1 DEF IInv, Transferred
  <2>2. Done \in Nat /\ \A i \in 1..Len(todo) :
          Target(i) = request.sector + Done + i - 1 /\ Target(i) \in Sectors
    BY <1>1, TargetIs
  <2>3. request.sector + Len(request.segments) <= Capacity
    BY <1>1 DEF IInv, Checked, Serving
  <2>4. ASSUME NEW i \in 1..(Done + n) PROVE disk'[request.sector + i - 1] = version
    <3>0. request.sector + i - 1 \in Sectors
      <4>1. i \in 1..Len(request.segments) /\ TypeOK
        BY <1>2, <1>5, <2>2 DEF IInv
      <4> QED
        BY <2>3, <4>1, InsideDisk
    <3>1. CASE i <= Done
      <4>1. disk[request.sector + i - 1] = version
        BY <2>1, <2>2, <3>1 DEF Holds
      <4> QED
        BY <1>6, <3>0, <4>1
    <3>2. CASE i > Done
      <4>1. i - Done \in 1..n /\ Target(i - Done) = request.sector + i - 1
        <5>1. /\ i - Done \in 1..n /\ i - Done \in 1..Len(todo)
              /\ request.sector + Done + (i - Done) - 1 = request.sector + i - 1
          <6>1. request.sector \in Nat /\ Len(todo) \in Nat /\ Done \in Nat
            BY <1>2, <2>2
          <6> QED
            BY <3>2, <6>1
        <5> QED
          BY <2>2, <5>1
      <4> QED
        BY <1>4, <3>0, <4>1 DEF Written
    <3> QED
      BY <2>2, <3>1, <3>2
  <2>5. Holds(disk, Done)'
    BY <1>1, <1>5, <2>4 DEF Holds
  <2> QED
    BY <1>1, <2>5 DEF Transferred
<1> QED
  BY <1>5, <1>7, <1>8, <1>9, <1>10 DEF DiskInv

\* A batch of a read, whose segments are distinct, extends what the buffers hold of it.
LEMMA ReadStep ==
  ASSUME IInv, Transfer, request.kind = "In", ReadBatch, UNCHANGED <<pc, status>>
  PROVE  DiskInv'
<1> USE DEF transport, counters, promises
<1>1. /\ pc = "Transfer" /\ todo # <<>>
      /\ UNCHANGED <<disk, stable, acked, promised, version, request, readonly, negotiated>>
  BY DEF Transfer, ReadBatch
<1>2. /\ todo \in Seq(Buffers) /\ request.sector \in Nat /\ request.segments \in Seq(Buffers)
      /\ disk \in [Sectors -> Versions] /\ memory \in [Buffers -> Versions]
  BY RequestShape DEF IInv, TypeOK, DiskTypeOK
<1>3. PICK n \in 1..Len(todo) : n = Batch(FALSE) /\ Fits(n, FALSE)
  BY <1>1, <1>2, BatchIs, Zenon
<1>4. /\ memory' \in Filled(1..n)
      /\ todo' = SubSeq(todo, n + 1, Len(todo)) /\ offset' = Advance(n)
  BY <1>3, Zenon DEF ReadBatch
<1>5. /\ todo' \in Seq(Buffers) /\ offset' \in 0..Size
      /\ Done' = Done + n /\ Done + n <= Len(request.segments) /\ Progress'
  BY <1>1, <1>4, ProgressStep
<1>6. memory' \in [Buffers -> Versions]
  BY <1>2, <1>4 DEF Filled
<1>7. StoreOK'
  BY <1>1, <1>2, <1>5, <1>6 DEF StoreOK, DiskTypeOK, IInv, TypeOK
<1>8. Ordered' /\ Checked'
  BY <1>1 DEF IInv, Ordered, Checked, Serving
<1>9. Transferred'
  <2>1. /\ Done \in Nat
        /\ \A i \in 1..Len(todo) : /\ Target(i) = request.sector + Done + i - 1
                                   /\ todo[i] = request.segments[Done + i]
    BY <1>1, TargetIs DEF IInv, Progress
  <2>2. \A i, j \in 1..n : todo[i] = todo[j] => i = j
    BY <1>3 DEF Fits, Overlaps
  <2>3. \A b \in Buffers :
          IF \E i \in 1..n : todo[i] = b
          THEN \E i \in 1..n : todo[i] = b /\ memory'[b] = disk[Target(i)]
          ELSE memory'[b] = memory[b]
    BY <1>4 DEF Filled
  <2>4. Fills(memory, Done)
    BY <1>1 DEF IInv, Transferred
  <2>5. ASSUME NEW i \in 1..(Done + n),
               \A j \in (i + 1)..(Done + n) : request.segments[j] # request.segments[i]
        PROVE  memory'[request.segments[i]] = disk[request.sector + i - 1]
    <3>0. i \in 1..Len(request.segments) /\ request.segments[i] \in Buffers
      BY <1>2, <1>5, <2>1
    <3>1. CASE i <= Done
      <4>1. \A k \in 1..n : todo[k] # request.segments[i]
        <5> SUFFICES ASSUME NEW k \in 1..n PROVE todo[k] # request.segments[i]
          OBVIOUS
        <5>1. Done + k \in (i + 1)..(Done + n) /\ todo[k] = request.segments[Done + k]
          BY <1>2, <2>1, <3>1
        <5> QED
          BY <2>5, <5>1
      <4>2. memory[request.segments[i]] = disk[request.sector + i - 1]
        <5>1. i \in 1..Done /\ (i + 1)..Done \subseteq (i + 1)..(Done + n)
          BY <2>1, <3>1
        <5> QED
          BY <2>4, <2>5, <5>1 DEF Fills
      <4> QED
        BY <2>3, <3>0, <4>1, <4>2
    <3>2. CASE i > Done
      <4>1. /\ i - Done \in 1..n /\ todo[i - Done] = request.segments[i]
            /\ Target(i - Done) = request.sector + i - 1
        <5>1. i - Done \in 1..n /\ i - Done \in 1..Len(todo) /\ Done + (i - Done) = i
          BY <1>2, <2>1, <3>2
        <5> QED
          BY <1>2, <2>1, <5>1
      <4>2. PICK k \in 1..n : /\ todo[k] = request.segments[i]
                              /\ memory'[request.segments[i]] = disk[Target(k)]
        BY <2>3, <3>0, <4>1
      <4>3. k = i - Done
        BY <2>2, <4>1, <4>2
      <4> QED
        BY <4>1, <4>2, <4>3
    <3> QED
      BY <2>1, <3>1, <3>2
  <2>6. Fills(memory, Done)'
    BY <1>1, <1>5, <2>5 DEF Fills
  <2> QED
    BY <1>1, <2>6 DEF Transferred
<1> QED
  BY <1>5, <1>7, <1>8, <1>9 DEF DiskInv

\* A transfer that is through, and the flush that may follow it, make the answer true.
LEMMA DoneStep ==
  ASSUME IInv, TransferDone \/ Sync PROVE DiskInv'
<1> USE DEF storage, transport, counters, promises
<1>1. /\ disk \in [Sectors -> Versions] /\ stable \in [Sectors -> Versions]
      /\ \A s \in Sectors : /\ promised[s] <= stable[s] /\ stable[s] <= disk[s]
                            /\ acked[s] <= disk[s] /\ disk[s] <= version
  BY DEF IInv, TypeOK, DiskTypeOK, Ordered
<1>2. /\ UNCHANGED <<disk, memory, todo, offset, acked, promised, version, request, readonly, negotiated>>
      /\ stable' = stable \/ stable' = disk
  BY DEF TransferDone, Sync, Flush
<1>3. StoreOK'
  BY <1>1, <1>2 DEF StoreOK, DiskTypeOK, IInv, TypeOK
<1>4. Ordered'
  <2>1. \A s \in Sectors : disk[s] \in Nat /\ stable[s] \in Nat /\ promised[s] \in Nat
    BY <1>1 DEF IInv, TypeOK, Versions
  <2> QED
    BY <1>1, <1>2, <2>1 DEF Ordered
<1>5. CASE TransferDone
  <2>1. pc = "Transfer" /\ todo = <<>> /\ stable' = stable
    BY <1>5 DEF TransferDone
  <2>2. \/ request.kind = "Out" /\ ~negotiated /\ pc' = "Sync"
        \/ request.kind = "Out" /\ negotiated /\ pc' = "Answer" /\ status' = "Ok"
        \/ request.kind = "In" /\ pc' = "Answer" /\ status' = "Ok"
    BY <1>5, <2>1 DEF TransferDone, WriteThrough, Reply, IInv, Checked
  <2>3. Done = Len(request.segments)
    BY <2>1, TargetIs DEF Done
  <2>4. /\ request.kind = "Out" => Holds(disk, Len(request.segments))
        /\ request.kind = "In" => Fills(memory, Len(request.segments))
    BY <2>1, <2>3 DEF IInv, Transferred
  <2>5. Transferred'
    BY <1>2, <2>2, <2>4 DEF Transferred, Holds, Fills
  <2>6. Checked' /\ Progress'
    BY <1>2, <2>1, <2>2 DEF IInv, Checked, Progress, Serving
  <2> QED
    BY <1>3, <1>4, <2>5, <2>6 DEF DiskInv
<1>6. CASE Sync
  <2>1. /\ pc = "Sync" /\ pc' = "Answer" /\ request.kind \in {"Out", "Flush"}
        /\ stable' = disk \/ status' = "IoErr"
    BY <1>6 DEF Sync, Flush, Reply, IInv, Checked
  <2>2. Checked' /\ Progress'
    BY <1>2, <2>1 DEF IInv, Checked, Progress, Serving
  <2>3. request.kind = "Out" => Holds(disk, Len(request.segments))
    BY <2>1 DEF IInv, Transferred
  <2>4. Transferred'
    BY <1>1, <1>2, <2>1, <2>3 DEF Transferred, Holds
  <2> QED
    BY <1>3, <1>4, <2>2, <2>4 DEF DiskInv
<1> QED
  BY <1>5, <1>6

\* The answer tells the guest no more than the disk holds.
LEMMA AnswerStep ==
  ASSUME IInv, Answer PROVE DiskInv'
<1> USE DEF storage, transport, promises
<1>1. /\ pc = "Answer" /\ pc' = "Next"
      /\ UNCHANGED <<disk, stable, memory, todo, offset, version, request>>
  BY DEF Answer
<1>2. /\ disk \in [Sectors -> Versions] /\ stable \in [Sectors -> Versions]
      /\ acked \in [Sectors -> Versions] /\ promised \in [Sectors -> Versions] /\ version \in Nat
      /\ request.sector \in Nat /\ request.segments \in Seq(Buffers)
      /\ \A s \in Sectors : /\ promised[s] <= stable[s] /\ stable[s] <= disk[s]
                            /\ acked[s] <= disk[s] /\ disk[s] <= version
  BY RequestShape DEF IInv, TypeOK, DiskTypeOK, Ordered
<1>3. ASSUME NEW f \in [Sectors -> Versions], Holds(f, Len(request.segments))
      PROVE  \A s \in Span(request) : f[s] = version
  <2> SUFFICES ASSUME NEW s \in Span(request) PROVE f[s] = version
    OBVIOUS
  <2>1. /\ s \in Nat /\ s >= request.sector /\ s < request.sector + Len(request.segments)
        /\ Len(request.segments) \in Nat
    BY <1>2, SectorsAre DEF Span
  <2>2. s - request.sector + 1 \in 1..Len(request.segments)
        /\ request.sector + (s - request.sector + 1) - 1 = s
    BY <1>2, <2>1
  <2> QED
    BY <1>3, <2>2 DEF Holds
<1>4. acked' \in [Sectors -> Versions] /\ \A s \in Sectors : acked'[s] <= disk[s]
  <2>1. CASE status = "Ok" /\ request.kind = "Out"
    <3>1. acked' = [s \in Sectors |-> IF s \in Span(request) THEN version ELSE acked[s]]
      BY <2>1 DEF Answer, Mark
    <3>2. Holds(disk, Len(request.segments))
      BY <1>1, <2>1 DEF IInv, Transferred
    <3>3. \A s \in Span(request) : disk[s] = version
      BY <1>2, <1>3, <3>2
    <3> QED
      BY <1>2, <3>1, <3>3 DEF Versions
  <2>2. CASE acked' = acked
    BY <1>2, <2>2
  <2> QED
    BY <2>1, <2>2 DEF Answer
<1>5. promised' \in [Sectors -> Versions] /\ \A s \in Sectors : promised'[s] <= stable[s]
  <2>1. CASE status = "Ok" /\ request.kind = "Flush"
    <3>1. promised' = acked
      BY <2>1 DEF Answer
    <3>2. \A s \in Sectors : acked[s] <= stable[s]
      BY <1>1, <2>1 DEF IInv, Transferred
    <3> QED
      BY <1>2, <3>1, <3>2
  <2>2. CASE status = "Ok" /\ request.kind = "Out" /\ ~negotiated
    <3>1. promised' = [s \in Sectors |-> IF s \in Span(request) THEN version ELSE promised[s]]
      BY <2>2 DEF Answer, Mark
    <3>2. Holds(stable, Len(request.segments))
      BY <1>1, <2>2 DEF IInv, Transferred
    <3>3. \A s \in Span(request) : stable[s] = version
      BY <1>2, <1>3, <3>2
    <3> QED
      BY <1>2, <3>1, <3>3 DEF Versions
  <2>3. CASE promised' = promised
    BY <1>2, <2>3
  <2> QED
    BY <2>1, <2>2, <2>3 DEF Answer
<1>6. StoreOK'
  BY <1>1, <1>4, <1>5 DEF StoreOK, IInv, TypeOK, DiskTypeOK
<1>7. Ordered'
  BY <1>1, <1>2, <1>4, <1>5 DEF Ordered
<1>8. Checked' /\ Progress' /\ Transferred'
  BY <1>1 DEF Checked, Progress, Transferred, Serving
<1> QED
  BY <1>6, <1>7, <1>8 DEF DiskInv

\* The inductive invariant holds in every state.
THEOREM BlockInvariant == Spec => []IInv
<1>1. Init => IInv
  <2> SUFFICES ASSUME Init PROVE IInv
    OBVIOUS
  <2>1. FlagsOK
    BY Zenon DEF Init, FlagsOK
  <2>2. QueueOK /\ QueueBound
    BY DEF Init, QueueOK, QueueBound, Serving
  <2>3. DiskInv
    BY DEF Init, DiskInit, DiskInv, StoreOK, DiskTypeOK, Checked, Progress, Transferred, Ordered, Serving,
           Versions
  <2> QED
    BY <2>1, <2>2, <2>3, Zenon DEF IInv, TypeOK, FlagsOK, QueueOK, DiskInv, StoreOK
<1>2. IInv /\ [Next]_vars => IInv'
  <2> SUFFICES ASSUME IInv, [Next]_vars PROVE IInv'
    OBVIOUS
  <2>0. FlagsOK /\ QueueOK /\ QueueBound /\ DiskInv
    BY Zenon DEF IInv, TypeOK, FlagsOK, QueueOK, DiskInv, StoreOK
  <2>1. CASE Next
    <3>1. FlagsOK' /\ QueueOK' /\ QueueBound'
      BY <2>0, <2>1, FlagsStep, QueueStep
    <3>2. Transfer => DiskInv'
      BY TransferFails, WriteStep, ReadStep DEF Transfer
    <3>3. DiskInv'
      BY <2>1, <3>1, <3>2, OutsideStep, PopStep, DoneStep, AnswerStep DEF Next, RunStep
    <3> QED
      BY <3>1, <3>3, Zenon DEF IInv, TypeOK, FlagsOK, QueueOK, DiskInv, StoreOK
  <2>2. CASE UNCHANGED vars
    <3>1. FlagsOK'
      BY <2>0, <2>2, Zenon DEF FlagsOK, vars, transport
    <3>2. QueueOK' /\ QueueBound'
      BY <2>0, <2>2 DEF QueueOK, QueueBound, Serving, vars, transport, service, counters
    <3>3. DiskInv'
      BY <2>0, <2>2 DEF DiskInv, StoreOK, DiskTypeOK, Checked, Progress, Transferred, Ordered, Serving, Holds,
                        Fills, Done, vars, storage, transport, service, counters, promises
    <3> QED
      BY <3>1, <3>2, <3>3, Zenon DEF IInv, TypeOK, FlagsOK, QueueOK, DiskInv, StoreOK
  <2> QED
    BY <2>1, <2>2
<1> QED
  BY <1>1, <1>2, PTL DEF Spec

\* block.rs request and storage.rs: what the guest is told is written is on the disk,
\* what it is promised survives a crash of the host, and what it reads is what the disk
\* holds, whatever batches a request takes and whichever of them fail.
THEOREM DataStaysIntact == Spec => []DataIntact
<1>1. IInv => DataIntact
  <2> SUFFICES ASSUME IInv PROVE DataIntact
    OBVIOUS
  <2>1. TypeOK /\ AckedIsWritten /\ PromisesKept
    BY DEF IInv, Ordered, AckedIsWritten, PromisesKept
  <2>2. ReadsInOrder
    <3> SUFFICES ASSUME pc = "Answer", status = "Ok", request.kind = "In",
                        NEW i \in DOMAIN request.segments
                 PROVE  memory[request.segments[i]]
                          = disk[request.sector + Last(request, request.segments[i]) - 1]
      BY DEF ReadsInOrder
    <3>1. request.segments \in Seq(Buffers) /\ Fills(memory, Len(request.segments))
      BY RequestShape DEF IInv, TypeOK, Transferred
    <3> DEFINE b == request.segments[i]
               T == {j \in DOMAIN request.segments : request.segments[j] = b}
    <3>2. T \subseteq 1..Len(request.segments) /\ T # {} /\ Len(request.segments) \in Nat
      BY <3>1
    <3>3. Max(T) \in T /\ \A y \in T : y <= Max(T)
      <4> HIDE DEF T
      <4> QED
        BY <3>2, HasMax
    <3>4. \E m \in DOMAIN request.segments :
            /\ request.segments[m] = b
            /\ \A j \in DOMAIN request.segments : request.segments[j] = b => j <= m
      BY <3>3
    <3>5. /\ Last(request, b) \in DOMAIN request.segments
          /\ request.segments[Last(request, b)] = b
          /\ \A j \in DOMAIN request.segments : request.segments[j] = b => j <= Last(request, b)
      BY <3>4, Zenon DEF Last
    <3>6. PICK m \in 1..Len(request.segments) :
            /\ m = Last(request, b) /\ request.segments[m] = b
            /\ \A j \in 1..Len(request.segments) : request.segments[j] = b => j <= m
      BY <3>1, <3>5
    <3>7. \A j \in (m + 1)..Len(request.segments) : request.segments[j] # request.segments[m]
      <4> SUFFICES ASSUME NEW j \in (m + 1)..Len(request.segments) PROVE request.segments[j] # b
        BY <3>6
      <4>1. j \in 1..Len(request.segments) /\ ~(j <= m)
        BY <3>2
      <4> QED
        BY <3>6, <4>1
    <3> QED
      BY <3>1, <3>6, <3>7 DEF Fills
  <2> QED
    BY <2>1, <2>2 DEF DataIntact
<1> QED
  BY <1>1, BlockInvariant, PTL

\* block.rs execute and storage.rs bounds: a step changes only sectors that the valid
\* write in service names, and never a read-only disk.
THEOREM WritesInside == Spec => WritesStayInside
<1>1. ASSUME IInv, [Next]_vars, NEW s \in Sectors, disk'[s] # disk[s]
      PROVE  /\ ~readonly /\ request.kind = "Out" /\ request.flaw = "None"
             /\ s \in Span(request)
             /\ request.sector + Len(request.segments) <= Cardinality(Sectors)
  <2>1. Transfer /\ request.kind = "Out"
    BY <1>1 DEF Next, RunStep, vars, storage, Offer, Kick, Host, WriteBack, SetDriverOk, Reset, Settle, Flush,
                Shutdown, Cleanup, Notify, NotifyDone, Pop, Refuse, Execute, Transfer, ReadBatch, ReadFails,
                TransferDone, Sync, Answer
  <2>2. pc = "Transfer" /\ todo # <<>> /\ todo \in Seq(Buffers)
    BY <1>1, <2>1 DEF Transfer, WriteBatch, WriteFails, IInv, TypeOK, DiskTypeOK
  <2>3. PICK n \in 1..Len(todo) : n = Batch(TRUE)
    BY <2>2, BatchIs, Zenon
  <2>4. PICK some \in SUBSET (1..n) : disk' = Written({Target(i) : i \in some}, version)
    <3>1. 1..n \in SUBSET (1..n)
      OBVIOUS
    <3> QED
      BY <2>1, <2>3, <3>1, Zenon DEF Transfer, WriteBatch, WriteFails
  <2>5. s \in Span(request)
    BY <1>1, <2>2, <2>4, BatchWrites
  <2>6. ~readonly /\ request.flaw = "None" /\ request.sector + Len(request.segments) <= Capacity
    BY <1>1, <2>1, <2>2 DEF IInv, Checked, Serving
  <2>7. Cardinality(Sectors) = Capacity
    BY SectorsAre, FS_Interval
  <2> QED
    BY <2>1, <2>5, <2>6, <2>7
<1>2. IInv /\ [Next]_vars =>
        [\A s \in Sectors : disk'[s] # disk[s] =>
           /\ ~readonly /\ request.kind = "Out" /\ request.flaw = "None"
           /\ s \in Span(request) /\ request.sector + Len(request.segments) <= Cardinality(Sectors)]_vars
  BY <1>1
<1> QED
  BY <1>2, BlockInvariant, PTL DEF Spec, WritesStayInside

=============================================================================
