--------------------------- MODULE VirtioMemProofs ---------------------------
(***************************************************************************)
(* Proofs about dynamic memory, for any number of blocks, any set of       *)
(* devices and any ring size.                                              *)
(***************************************************************************)
EXTENDS VirtioMem, FiniteSetTheorems, TLAPS

USE BlocksAssumption, DevicesAssumption, CountersAssumption

\* The size of a set of blocks is a size the host can read.
LEMMA SizeTyped ==
  ASSUME NEW S, S \subseteq Region
  PROVE  IsFiniteSet(S) /\ Cardinality(S) \in Places
<1>1. IsFiniteSet(Region) /\ Cardinality(Region) = Blocks
  BY FS_Interval DEF Region
<1>2. IsFiniteSet(S) /\ Cardinality(S) <= Blocks /\ Cardinality(S) \in Nat
  BY <1>1, FS_Subset, FS_CardinalityType
<1> QED
  BY <1>2 DEF Places

\* Register and memory writes of the guest keep every variable's type.
LEMMA GuestTyped ==
  ASSUME MemoryTypeOK, Guest
  PROVE  MemoryTypeOK'
<1> PICK d \in Devices : \/ \E p \in Chains : Offer(d, p)
                         \/ \E p \in Places : EnableQueue(d, p)
                         \/ DisableQueue(d) \/ SetDriverOk(d) \/ Reset(d)
  BY DEF Guest
<1>1. CASE \E p \in Chains : Offer(d, p)
  BY <1>1 DEF MemoryTypeOK, Offer, status, device, mappings, thread
<1>2. CASE \E p \in Places : EnableQueue(d, p)
  BY <1>2 DEF MemoryTypeOK, EnableQueue, status, device, mappings, Live, Ended, Quiescent
<1>3. CASE DisableQueue(d)
  BY <1>3 DEF MemoryTypeOK, DisableQueue, status, device, mappings, thread
<1>4. CASE SetDriverOk(d)
  BY <1>4 DEF MemoryTypeOK, SetDriverOk, status, device, mappings, Live, Ended, Quiescent
<1>5. CASE Reset(d)
  BY <1>5 DEF MemoryTypeOK, Reset, ReadyAfterReset, device, mappings, thread
<1> QED
  BY <1>1, <1>2, <1>3, <1>4, <1>5

\* So do the host and the run thread between barriers.
LEMMA LoopTyped ==
  ASSUME MemoryTypeOK, Host \/ Attach \/ Start \/ SyncTarget \/ Finish \/ \E d \in Others : Serve(d)
  PROVE  MemoryTypeOK'
<1> USE DEF Live, Ended, Quiescent
<1>1. CASE Host
  BY <1>1 DEF MemoryTypeOK, Host, SetRequested, device, mappings, transport, thread
<1>2. CASE Attach
  BY <1>2 DEF MemoryTypeOK, Attach, status, mappings, transport
<1>3. CASE Start
  BY <1>3 DEF MemoryTypeOK, Start, device, mappings, transport
<1>4. CASE SyncTarget
  <2>1. NextGeneration \in 0..Generations - 1 /\ Active(Mem) \in BOOLEAN
    BY DEF MemoryTypeOK, NextGeneration, Active, Devices
  <2> QED
    BY <1>4, <2>1 DEF MemoryTypeOK, SyncTarget, SyncRequested, SyncGeneration, mappings, transport
<1>5. CASE Finish
  BY <1>5 DEF MemoryTypeOK, Finish, status, device, mappings, transport
<1>6. CASE \E d \in Others : Serve(d)
  <2>1. PICK d \in Devices : Serve(d)
    BY <1>6 DEF Devices
  <2>2. pending' \in [Devices -> SUBSET Chains]
    BY <2>1 DEF MemoryTypeOK, Serve
  <2>3. needsReset' \in [Devices -> BOOLEAN]
    BY <2>1 DEF MemoryTypeOK, Serve, Contain
  <2>4. pc' \in {"Loop", "End"}
    BY <2>1 DEF Serve, Contain
  <2> QED
    BY <2>1, <2>2, <2>3, <2>4 DEF MemoryTypeOK, Serve, status, device, mappings
<1> QED
  BY <1>1, <1>2, <1>3, <1>4, <1>5, <1>6

\* So does the barrier, from the look at the queue to the resume.
LEMMA BatchTyped ==
  ASSUME MemoryTypeOK, Check \/ Scan \/ Resume \/ Batch
  PROVE  MemoryTypeOK'
<1> USE DEF Live, Ended, Quiescent
<1>1. CASE Check
  BY <1>1 DEF MemoryTypeOK, Check, Contain, Devices, status, device, mappings
<1>2. CASE Scan
  <2> DEFINE scanned == {d \in Devices : ~needsReset[d]}
             corrupt == {d \in scanned : Corrupt(d)}
             pins    == UNION {Pins(d) : d \in scanned \ corrupt}
  <2>1. pins \subseteq Places
    <3>1. ASSUME NEW d \in scanned \ corrupt PROVE Pins(d) \subseteq Places
      <4>1. CASE queue[d] = Off
        BY <4>1 DEF Pins
      <4>2. CASE queue[d] # Off
        <5>1. ~Corrupt(d)
          BY <3>1
        <5>2. \A p \in Pins(d) : Mapped(p)
          BY <4>2, <5>1 DEF Corrupt, Pins
        <5>3. \A p : Mapped(p) => p \in Places
          BY DEF MemoryTypeOK, Mapped, Places, Region
        <5> QED
          BY <5>2, <5>3, Zenon
      <4> QED
        BY <4>1, <4>2
    <3> QED
      BY <3>1
  <2>2. Isolated(corrupt) \in [Devices -> BOOLEAN]
    BY DEF Isolated
  <2> QED
    BY <1>2, <2>1, <2>2 DEF MemoryTypeOK, Scan, status, device, mappings
<1>3. CASE Resume
  BY <1>3 DEF MemoryTypeOK, Resume, status, device, mappings, transport
<1>4. CASE \E p \in Chains : Refuse(p)
  BY <1>4 DEF MemoryTypeOK, Refuse, Devices, status, device, mappings, thread
<1>5. ASSUME NEW p \in Chains, NEW plug \in BOOLEAN, NEW a \in SUBSET Region, Begin(p, plug, a)
      PROVE  MemoryTypeOK'
  <2>1. [plug |-> plug, addresses |-> a, buffer |-> p] \in Requests
    BY DEF Requests
  <2> QED
    BY <1>5, <2>1 DEF MemoryTypeOK, Begin, Devices, status, device, mappings
<1>6. \A a \in Intervals : a \subseteq Region
  BY DEF Intervals, Region
<1>7. CASE \E p \in Chains : Plug(p) \/ Unplug(p) \/ UnplugAll(p)
  BY <1>5, <1>6, <1>7 DEF Plug, Unplug, UnplugAll, MemoryTypeOK
<1>8. CASE Malformed
  BY <1>8 DEF MemoryTypeOK, Malformed, Contain, Devices, status, device, mappings
<1>9. CASE BatchDone
  BY <1>9 DEF MemoryTypeOK, BatchDone, status, device, mappings, transport
<1> QED
  BY <1>1, <1>2, <1>3, <1>4, <1>7, <1>8, <1>9 DEF Batch

\* So does a transaction, committed, rolled back or failed.
LEMMA TransactionTyped ==
  ASSUME MemoryTypeOK, Transaction
  PROVE  MemoryTypeOK'
<1> USE DEF Live, Ended, Quiescent
<1>1. NoRequest \in Requests
  BY DEF NoRequest, Requests, Chains, Places
<1>2. request.addresses \subseteq Region
  BY DEF MemoryTypeOK, Requests
<1>3. CASE Nack
  BY <1>1, <1>3 DEF MemoryTypeOK, Nack, Answer, status, device, mappings, transport
<1>4. CASE Commit
  <2>1. Committed \subseteq Region
    BY <1>2 DEF MemoryTypeOK, Committed, Moved
  <2>2. PluggedSize \in Places
    BY <2>1, SizeTyped DEF PluggedSize
  <2>3. NextGeneration \in 0..Generations - 1
    BY DEF MemoryTypeOK, NextGeneration
  <2> QED
    BY <1>1, <1>2, <1>4, <2>1, <2>2, <2>3 DEF MemoryTypeOK, Commit, Moved, Answer, transport
<1>5. CASE Fail
  <2>1. PICK stuck \in SUBSET request.addresses : Rollback(stuck)
    BY <1>5 DEF Fail
  <2> QED
    BY <1>1, <1>2, <2>1 DEF MemoryTypeOK, Rollback, Moved, Answer, status, device, transport
<1>6. CASE Exhausted
  BY <1>6 DEF MemoryTypeOK, Exhausted, status, device, mappings, transport
<1> QED
  BY <1>3, <1>4, <1>5, <1>6 DEF Transaction

\* So does the end of the VM.
LEMMA TeardownTyped ==
  ASSUME MemoryTypeOK, Teardown
  PROVE  MemoryTypeOK'
<1> USE DEF Live, Ended, Quiescent
<1>1. CASE Stop
  BY <1>1 DEF MemoryTypeOK, Stop, LifecycleAfterStop, device, transport
<1>2. CASE \E success \in BOOLEAN : Destroy(success)
  BY <1>2 DEF MemoryTypeOK, Destroy, Leaked, status, device
<1> QED
  BY <1>1, <1>2 DEF Teardown

\* Every variable of the memory device, its mappings and the transports that
\* share guest memory keeps its type (memory.rs, hvf.rs, mmio.rs): in particular
\* no size passes the capacity of the region.
THEOREM MemoryTyped == Spec => []MemoryTypeOK
<1>1. Init => MemoryTypeOK
  <2> SUFFICES ASSUME Init PROVE MemoryTypeOK
    OBVIOUS
  <2>1. NoRequest \in Requests /\ 0 \in Places /\ 0 \in 0..Generations - 1
    BY DEF NoRequest, Requests, Places, Chains
  <2>2. /\ driverReady \in BOOLEAN /\ strict \in BOOLEAN
        /\ driverOk \in [Devices -> BOOLEAN] /\ needsReset \in [Devices -> BOOLEAN]
    BY Zenon DEF Init
  <2> QED
    BY <2>1, <2>2 DEF Init, MemoryTypeOK
<1>2. MemoryTypeOK /\ [Next]_vars => MemoryTypeOK'
  <2> SUFFICES ASSUME MemoryTypeOK, [Next]_vars PROVE MemoryTypeOK'
    OBVIOUS
  <2>1. CASE UNCHANGED vars
    BY <2>1 DEF MemoryTypeOK, vars, status, device, mappings, transport, thread
  <2>2. CASE Next
    BY <2>2, GuestTyped, LoopTyped, BatchTyped, TransactionTyped, TeardownTyped DEF Next, Barrier
  <2> QED
    BY <2>1, <2>2
<1> QED
  BY <1>1, <1>2, PTL DEF Spec

(***************************************************************************)
(* The inductive invariant.                                                *)
(***************************************************************************)

\* TransactionsAtomic from the start, before there is a block to plug.
OneMap ==
  pc \in {"Created", "Attached"} \cup Live =>
    blocks = view /\ view = mapped /\ mapped = table

\* No queue is set up before the guest runs.
NoQueueYet == pc \in {"Created", "Attached"} => \A d \in Devices : queue[d] = Off

\* A device whose queue counts: ready, and not waiting for a reset.
InService(d) == queue[d] # Off /\ ~needsReset[d]

\* The pins of the scan still cover everything in service.
PinsCover ==
  pc \in {"Process", "Commit"} =>
    \A d \in Devices : InService(d) => queue[d] \in pinned /\ pending[d] \subseteq pinned

\* What request found out about the blocks before it took the lock is still so.
RequestFits ==
  pc = "Commit" =>
    IF request.plug THEN request.addresses \cap blocks = {} ELSE request.addresses \subseteq blocks

MemInv ==
  /\ OneMap /\ NoQueueYet /\ LiveQueuesMapped
  /\ PinsCover /\ PendingChainsKept /\ RequestFits

\* The guest acts only while the vCPUs run, so never on a pinned queue.
LEMMA GuestInv ==
  ASSUME MemoryTypeOK, MemInv, Guest
  PROVE  MemInv'
<1> USE DEF MemInv, OneMap, NoQueueYet, LiveQueuesMapped, PinsCover, PendingChainsKept, RequestFits,
            InService, Mapped, Live, Quiescent, MemoryTypeOK
<1> PICK d \in Devices : \/ \E p \in Chains : Offer(d, p)
                         \/ \E p \in Places : EnableQueue(d, p)
                         \/ DisableQueue(d) \/ SetDriverOk(d) \/ Reset(d)
  BY DEF Guest
<1>1. CASE \E p \in Chains : Offer(d, p)
  BY <1>1 DEF Offer, status, device, mappings, thread
<1>2. CASE \E p \in Places : EnableQueue(d, p)
  BY <1>2 DEF EnableQueue, status, device, mappings
<1>3. CASE DisableQueue(d)
  BY <1>3 DEF DisableQueue, status, device, mappings, thread
<1>4. CASE SetDriverOk(d)
  BY <1>4 DEF SetDriverOk, status, device, mappings
<1>5. CASE Reset(d)
  BY <1>5 DEF Reset, device, mappings, thread
<1> QED
  BY <1>1, <1>2, <1>3, <1>4, <1>5

\* The host changes the target only; the loop moves no memory.
LEMMA LoopInv ==
  ASSUME MemoryTypeOK, MemInv,
         Host \/ Attach \/ Start \/ SyncTarget \/ Finish \/ \E d \in Others : Serve(d)
  PROVE  MemInv'
<1> USE DEF MemInv, OneMap, NoQueueYet, LiveQueuesMapped, PinsCover, PendingChainsKept, RequestFits,
            InService, Mapped, Live, Quiescent, MemoryTypeOK
<1>1. CASE Host
  BY <1>1 DEF Host, SetRequested, device, mappings, transport, thread
<1>2. CASE Attach
  BY <1>2 DEF Attach, status, mappings, transport
<1>3. CASE Start
  BY <1>3 DEF Start, device, mappings, transport
<1>4. CASE SyncTarget
  BY <1>4 DEF SyncTarget, mappings, transport
<1>5. CASE Finish
  BY <1>5 DEF Finish, status, device, mappings, transport
<1>6. CASE \E d \in Others : Serve(d)
  BY <1>6 DEF Serve, Contain, Devices, status, device, mappings
<1> QED
  BY <1>1, <1>2, <1>3, <1>4, <1>5, <1>6

\* The scan establishes the pins; taking a request keeps them.
LEMMA BatchInv ==
  ASSUME MemoryTypeOK, MemInv, Check \/ Scan \/ Resume \/ Batch
  PROVE  MemInv'
<1> USE DEF MemInv, OneMap, NoQueueYet, LiveQueuesMapped, PinsCover, PendingChainsKept, RequestFits,
            InService, Mapped, Live, Quiescent, MemoryTypeOK
<1>1. CASE Check
  BY <1>1 DEF Check, Contain, Devices, status, device, mappings
<1>2. CASE Scan
  <2> DEFINE scanned == {d \in Devices : ~needsReset[d]}
             corrupt == {d \in scanned : Corrupt(d)}
  <2>1. CASE strict /\ corrupt # {}
    BY <1>2, <2>1 DEF Scan, status, device, mappings
  <2>2. CASE ~(strict /\ corrupt # {})
    <3>1. /\ needsReset' = [d \in Devices |-> needsReset[d] \/ d \in corrupt]
          /\ pinned' = UNION {Pins(d) : d \in scanned \ corrupt}
          /\ pc' \in {"Resume", "Process"}
          /\ UNCHANGED <<view, blocks, mapped, table, queue, pending>>
      BY <1>2, <2>2 DEF Scan, Isolated, device, mappings
    <3>2. ASSUME NEW d \in Devices, InService(d)' PROVE d \in scanned \ corrupt /\ queue[d] # Off
      BY <3>1, <3>2
    <3>3. ASSUME NEW d \in scanned \ corrupt, queue[d] # Off
          PROVE  /\ Pins(d) = {queue[d]} \cup pending[d]
                 /\ \A p \in Pins(d) : Mapped(p)
                 /\ Pins(d) \subseteq pinned'
      BY <3>1, <3>3 DEF Pins, Corrupt
    <3>4. \A d \in Devices : InService(d)' =>
            /\ Mapped(queue[d]) /\ \A p \in pending[d] : Mapped(p)
            /\ queue[d] \in pinned' /\ pending[d] \subseteq pinned'
      BY <3>2, <3>3
    <3> QED
      BY <1>2, <3>1, <3>4 DEF Scan
  <2> QED
    BY <2>1, <2>2
<1>3. CASE Resume
  BY <1>3 DEF Resume, status, device, mappings, transport
<1>4. CASE \E p \in Chains : Refuse(p)
  BY <1>4 DEF Refuse, Devices, status, device, mappings, thread
<1>5. CASE \E p \in Chains : Plug(p)
  BY <1>5 DEF Plug, Begin, Devices, status, device, mappings
<1>6. CASE \E p \in Chains : Unplug(p) \/ UnplugAll(p)
  BY <1>6 DEF Unplug, UnplugAll, Begin, Devices, status, device, mappings
<1>7. CASE Malformed
  BY <1>7 DEF Malformed, Contain, Devices, status, device, mappings
<1>8. CASE BatchDone
  BY <1>8 DEF BatchDone, status, device, mappings, transport
<1> QED
  BY <1>1, <1>2, <1>3, <1>4, <1>5, <1>6, <1>7, <1>8 DEF Batch

\* A transaction moves no pinned place, and moves nothing when it fails.
LEMMA TransactionInv ==
  ASSUME MemoryTypeOK, MemInv, Transaction
  PROVE  MemInv'
<1> USE DEF MemInv, OneMap, NoQueueYet, LiveQueuesMapped, PinsCover, PendingChainsKept, RequestFits,
            InService, Mapped, Live, Quiescent, MemoryTypeOK
<1>1. CASE Nack
  BY <1>1 DEF Nack, Answer, status, device, mappings, transport
<1>2. CASE Commit
  BY <1>2 DEF Commit, Transacts, InUse, Committed, Moved, Answer, transport
<1>3. CASE Fail
  <2>1. PICK stuck \in SUBSET request.addresses : Rollback(stuck)
    BY <1>3 DEF Fail
  <2> QED
    BY <2>1 DEF Rollback, RolledBack, Moved, Transacts, Answer, status, device, transport
<1>4. CASE Exhausted
  BY <1>4 DEF Exhausted, Transacts, status, device, mappings, transport
<1> QED
  BY <1>1, <1>2, <1>3, <1>4 DEF Transaction

\* The end claims nothing more.
LEMMA TeardownInv ==
  ASSUME MemoryTypeOK, MemInv, Teardown
  PROVE  MemInv'
<1> USE DEF MemInv, OneMap, NoQueueYet, LiveQueuesMapped, PinsCover, PendingChainsKept, RequestFits,
            InService, Mapped, Live, Quiescent, MemoryTypeOK
<1>1. CASE Stop
  BY <1>1 DEF Stop
<1>2. CASE \E success \in BOOLEAN : Destroy(success)
  BY <1>2 DEF Destroy
<1> QED
  BY <1>1, <1>2 DEF Teardown

\* The invariant above holds in every state: the pins a barrier takes once cover
\* the whole batch, however the host moves the target meanwhile.
THEOREM MemoryInvariant == Spec => [](MemoryTypeOK /\ MemInv)
<1>1. Init => MemInv
  BY DEF Init, MemInv, OneMap, NoQueueYet, LiveQueuesMapped, PinsCover, PendingChainsKept,
         RequestFits, Live, Quiescent
<1>2. MemoryTypeOK /\ MemInv /\ [Next]_vars => MemInv'
  <2> SUFFICES ASSUME MemoryTypeOK, MemInv, [Next]_vars PROVE MemInv'
    OBVIOUS
  <2>1. CASE UNCHANGED vars
    BY <2>1 DEF MemInv, OneMap, NoQueueYet, LiveQueuesMapped, PinsCover, PendingChainsKept,
                RequestFits, InService, Mapped, vars, status, device, mappings, transport, thread
  <2>2. CASE Next
    BY <2>2, GuestInv, LoopInv, BatchInv, TransactionInv, TeardownInv DEF Next, Barrier
  <2> QED
    BY <2>1, <2>2
<1> QED
  BY <1>1, <1>2, MemoryTyped, PTL DEF Spec

\* VirtioMem::change is all or nothing, whichever mapping, unmapping or rollback
\* fails: device, view, hypervisor and table agree as long as the VM runs.
THEOREM ChangesAtomic == Spec => []TransactionsAtomic
<1>1. MemInv => TransactionsAtomic
  BY DEF MemInv, OneMap, TransactionsAtomic
<1> QED
  BY <1>1, MemoryInvariant, PTL

\* An unplug never takes the rings of a queue in service, nor the buffers of a chain
\* that was pending when the barrier began, nor those of the request that is being
\* answered (process_memory's pins).
THEOREM NothingInUseGoes == Spec => []InUseStays
<1>1. MemInv => InUseStays
  BY DEF MemInv, InUseStays
<1> QED
  BY <1>1, MemoryInvariant, PTL

\* Mappings::unmap and Mappings::destroyed never let go of an allocation the
\* hypervisor may still map.
THEOREM NothingMappedIsFreed == Spec => []MappedIsOwned
<1>1. Init => MappedIsOwned
  BY DEF Init, MappedIsOwned
<1>2. MappedIsOwned /\ [Next]_vars => MappedIsOwned'
  <2> SUFFICES ASSUME MappedIsOwned, [Next]_vars PROVE MappedIsOwned'
    OBVIOUS
  <2> USE DEF MappedIsOwned
  <2>1. CASE UNCHANGED mappings
    BY <2>1 DEF mappings
  <2>2. CASE Commit
    BY <2>2 DEF Commit, Moved
  <2>3. CASE Fail
    BY <2>3 DEF Fail, Rollback, Moved
  <2>4. CASE Stop
    BY <2>4 DEF Stop
  <2>5. CASE \E success \in BOOLEAN : Destroy(success)
    BY <2>5 DEF Destroy, Leaked
  <2>6. UNCHANGED mappings \/ Commit \/ Fail \/ Teardown
    BY DEF vars, Next, Host, SetRequested, Guest, Offer, EnableQueue, DisableQueue, SetDriverOk, Reset,
           Attach, Start, SyncTarget, Finish, Serve, Barrier, Check, Scan, Batch, Refuse, Plug, Unplug,
           UnplugAll, Begin, Malformed, BatchDone, Transaction, Nack, Exhausted, Resume
  <2> QED
    BY <2>1, <2>2, <2>3, <2>4, <2>5, <2>6 DEF Teardown
<1> QED
  BY <1>1, <1>2, PTL DEF Spec

\* Both facts together: what device, guest memory, hypervisor and table hold.
THEOREM MapsHold == Spec => []MapsAgree
BY ChangesAtomic, NothingMappedIsFreed, PTL DEF MapsAgree

\* request holds a plug against the target in the status it has locked, so that
\* plugging never goes past what the host has asked for by then.
THEOREM PlugBounded == Spec => PlugWithinTarget
<1>1. MemoryTypeOK /\ MemInv /\ [Next]_vars =>
        [Cardinality(blocks') > Cardinality(blocks) => Cardinality(blocks') <= target]_vars
  <2> SUFFICES ASSUME MemoryTypeOK, MemInv, [Next]_vars
               PROVE  Cardinality(blocks') > Cardinality(blocks) => Cardinality(blocks') <= target
    OBVIOUS
  <2>1. UNCHANGED blocks \/ Commit
    BY DEF vars, Next, Host, SetRequested, Guest, Offer, EnableQueue, DisableQueue, SetDriverOk, Reset,
           Attach, Start, SyncTarget, Finish, Serve, Barrier, Check, Scan, Batch, Refuse, Plug, Unplug,
           UnplugAll, Begin, Malformed, BatchDone, Transaction, Nack, Fail, Rollback, Exhausted, Resume,
           Teardown, Stop, Destroy, device
  <2>2. IsFiniteSet(blocks) /\ Cardinality(blocks) \in Nat
    BY SizeTyped, FS_CardinalityType DEF MemoryTypeOK
  <2>3. CASE UNCHANGED blocks
    BY <2>2, <2>3
  <2>4. CASE Commit /\ request.plug
    <3>1. request.addresses \subseteq Region
      BY DEF MemoryTypeOK, Requests
    <3>2. IsFiniteSet(request.addresses) /\ Cardinality(request.addresses) \in Nat
      BY <3>1, SizeTyped, FS_CardinalityType
    <3>3. request.addresses \cap blocks = {}
      BY <2>4 DEF MemInv, RequestFits, Commit, Transacts
    <3>4. Cardinality(blocks \cup request.addresses)
            = Cardinality(blocks) + Cardinality(request.addresses)
      <4>1. Cardinality(blocks \cup request.addresses)
              = Cardinality(blocks) + Cardinality(request.addresses)
                  - Cardinality(blocks \cap request.addresses)
        BY <2>2, <3>2, FS_Union, Zenon
      <4>2. blocks \cap request.addresses = {}
        BY <3>3
      <4>3. Cardinality(blocks \cap request.addresses) = 0
        BY <4>2, FS_EmptySet, Zenon
      <4> QED
        BY <2>2, <3>2, <4>1, <4>3
    <3>5. blocks' = blocks \cup request.addresses
      BY <2>4 DEF Commit, Committed, Moved
    <3> QED
      BY <2>2, <2>4, <3>2, <3>4, <3>5 DEF MemoryTypeOK, Places, Commit, Transacts, ExceedsTarget
  <2>5. CASE Commit /\ ~request.plug
    <3>1. blocks' \subseteq blocks
      BY <2>5 DEF Commit, Committed, Moved
    <3>2. Cardinality(blocks') <= Cardinality(blocks) /\ Cardinality(blocks') \in Nat
      BY <2>2, <3>1, FS_Subset, FS_CardinalityType
    <3> QED
      BY <2>2, <3>2
  <2> QED
    BY <2>1, <2>3, <2>4, <2>5
<1> QED
  BY <1>1, MemoryInvariant, PTL DEF Spec, PlugWithinTarget

\* sync_target and request move the generation with every change of the configuration
\* of a VM that runs: the counter has more than one value, so the guest sees it move.
THEOREM ChangesVersioned == Spec => ConfigVersioned
<1>1. MemoryTypeOK /\ [Next]_vars =>
        [(pc \in Live /\ (requested' # requested \/ plugged' # plugged))
           => (generation' # generation)]_vars
  <2> SUFFICES ASSUME MemoryTypeOK, Next, pc \in Live, requested' # requested \/ plugged' # plugged
               PROVE  generation' # generation
    BY DEF vars, device
  <2>1. NextGeneration # generation
    BY CountersAssumption DEF MemoryTypeOK, NextGeneration
  <2>2. SyncTarget \/ Commit
    BY DEF Next, Host, SetRequested, Guest, Offer, EnableQueue, DisableQueue, SetDriverOk, Reset,
           Attach, Live, Quiescent, Start, Finish, Serve, Barrier, Check, Scan, Batch, Refuse, Plug, Unplug,
           UnplugAll, Begin, Malformed, BatchDone, Transaction, Nack, Fail, Rollback, Exhausted, Resume,
           Teardown, Stop, Destroy, device
  <2>3. CASE SyncTarget
    BY <2>1, <2>3 DEF SyncTarget, SyncGeneration, SyncRequested
  <2>4. CASE Commit
    BY <2>1, <2>4 DEF Commit
  <2> QED
    BY <2>2, <2>3, <2>4
<1> QED
  BY <1>1, MemoryTyped, PTL DEF Spec, ConfigVersioned

\* The target is a bound for every plug and every change of it reaches the guest under
\* a new generation.
THEOREM GuestFollows == Spec => TargetFollowed
BY PlugBounded, ChangesVersioned, PTL DEF TargetFollowed

\* MemoryStatus and the configuration the guest reads both give the number of
\* blocks that are plugged, also after a transaction that failed half-way.
THEOREM SizesHonest == Spec => []SizesAgree
<1>1. Init => SizesAgree
  BY FS_EmptySet DEF Init, SizesAgree
<1>2. SizesAgree /\ [Next]_vars => SizesAgree'
  <2> SUFFICES ASSUME SizesAgree, [Next]_vars PROVE SizesAgree'
    OBVIOUS
  <2>1. UNCHANGED <<blocks, plugged, reported>> \/ Commit
    BY DEF vars, Next, Host, SetRequested, Guest, Offer, EnableQueue, DisableQueue, SetDriverOk, Reset,
           Attach, Start, SyncTarget, Finish, Serve, Barrier, Check, Scan, Batch, Refuse, Plug, Unplug,
           UnplugAll, Begin, Malformed, BatchDone, Transaction, Nack, Fail, Rollback, Exhausted, Resume,
           Teardown, Stop, Destroy, device, status
  <2> QED
    BY <2>1 DEF SizesAgree, Commit, PluggedSize
<1> QED
  BY <1>1, <1>2, PTL DEF Spec

\* The run thread is in its loop only after Start and before Stop.
RunningWhileLive == pc \in Live => lifecycle = "Running"

\* driver_ready is set by sync_target alone, of a running VM, and taken back by the
\* reset of the driver and by the stop.
LEMMA ReadyStep ==
  ASSUME MemoryTypeOK, RunningWhileLive, ReadyMeansDriver, [Next]_vars
  PROVE  RunningWhileLive' /\ ReadyMeansDriver'
<1>1. driverOk \in [Devices -> BOOLEAN] /\ Mem \in Devices
  BY DEF MemoryTypeOK, Devices
<1> USE <1>1 DEF RunningWhileLive, ReadyMeansDriver, Live, Quiescent, status, transport, thread
<1>2. CASE UNCHANGED vars
  BY <1>2 DEF vars
<1>3. CASE Host
  BY <1>3 DEF Host, SetRequested
<1>4. CASE Guest
  <2> PICK d \in Devices : \/ \E p \in Chains : Offer(d, p)
                           \/ \E p \in Places : EnableQueue(d, p)
                           \/ DisableQueue(d) \/ SetDriverOk(d) \/ Reset(d)
    BY <1>4 DEF Guest
  <2>1. CASE (\E p \in Chains : Offer(d, p)) \/ DisableQueue(d)
    BY <2>1 DEF Offer, DisableQueue
  <2>2. CASE (\E p \in Places : EnableQueue(d, p)) \/ SetDriverOk(d)
    BY <2>2 DEF EnableQueue, SetDriverOk
  <2>3. CASE Reset(d)
    <3>1. /\ lifecycle' = lifecycle /\ pc' = pc
          /\ d = Mem => ~driverReady'
          /\ d # Mem => driverReady' = driverReady /\ driverOk'[Mem] = driverOk[Mem]
      BY <2>3 DEF Reset, ReadyAfterReset
    <3> QED
      BY <3>1
  <2> QED
    BY <2>1, <2>2, <2>3
<1>5. CASE Attach \/ Start \/ Finish
  BY <1>5 DEF Attach, Start, Finish
<1>6. CASE SyncTarget
  <2>1. /\ pc = "Loop" /\ UNCHANGED <<lifecycle, driverOk>>
        /\ driverReady' => driverOk[Mem]
    BY <1>6, Zenon DEF SyncTarget, Active, transport
  <2> QED
    BY <2>1
<1>7. CASE \E d \in Others : Serve(d)
  BY <1>7 DEF Serve, Contain
<1>8. CASE Check \/ Resume
  BY <1>8 DEF Check, Contain, Resume
<1>9. CASE Scan
  BY <1>9 DEF Scan
<1>10. CASE Batch
  BY <1>10 DEF Batch, Refuse, Plug, Unplug, UnplugAll, Begin, Malformed, Contain, BatchDone
<1>11. CASE Transaction
  BY <1>11 DEF Transaction, Nack, Commit, Fail, Rollback, Exhausted, Transacts, Answer
<1>12. CASE Teardown
  BY <1>12 DEF Teardown, Stop, Destroy
<1> QED
  BY <1>2, <1>3, <1>4, <1>5, <1>6, <1>7, <1>8, <1>9, <1>10, <1>11, <1>12 DEF Next, Barrier

\* VmControl::memory_status never tells the host of a driver that is not there, nor
\* of a size other than the blocks that are plugged.
THEOREM HostToldTheTruth == Spec => []StatusHonest
<1>1. Init => RunningWhileLive /\ ReadyMeansDriver
  BY DEF Init, RunningWhileLive, ReadyMeansDriver, Live, Quiescent
<1>2. MemoryTypeOK /\ RunningWhileLive /\ ReadyMeansDriver /\ [Next]_vars =>
        RunningWhileLive' /\ ReadyMeansDriver'
  BY ReadyStep
<1> QED
  BY <1>1, <1>2, MemoryTyped, SizesHonest, PTL DEF Spec, StatusHonest

=============================================================================
