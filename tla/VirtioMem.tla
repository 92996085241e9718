------------------------------ MODULE VirtioMem ------------------------------
(***************************************************************************)
(* src/src/devices/memory.rs with src/src/memory.rs, the memory barrier of *)
(* src/src/runtime.rs and the mapping table of                             *)
(* src/src/platform/macos_arm64/hvf.rs: memory that the guest plugs and    *)
(* unplugs in blocks while the devices keep their rings and buffers in it. *)
(*                                                                         *)
(* An address is a place: 0 is the base RAM, 1..Blocks are the blocks of   *)
(* the hot-pluggable region, Nowhere is outside all memory.  A queue is    *)
(* the place of its rings, or Off when it is not ready.  The chains a      *)
(* driver has made available are the places of their buffers; Overrun      *)
(* stands for an available index that runs past the ring.  Every device    *)
(* has one queue.  The guest writes memory whenever the vCPUs run and      *)
(* registers when the run thread handles its access, so only in the loop.  *)
(***************************************************************************)
EXTENDS Naturals, FiniteSets

CONSTANTS
  Blocks,      \* capacity / block_size
  Others,      \* the devices that share guest memory with virtio-mem
  Mem,         \* the virtio-mem device
  Ring,        \* chains the driver of each device may make available at a time
  Generations  \* the generation counter wraps at this value

ASSUME BlocksAssumption == Blocks \in Nat \ {0}
ASSUME DevicesAssumption == Mem \notin Others
ASSUME CountersAssumption ==
  /\ Ring \in [Others \cup {Mem} -> Nat]
  /\ Generations \in Nat /\ Generations > 1

Region  == 1..Blocks
Places  == 0..Blocks
Nowhere == Blocks + 1
Overrun == Blocks + 2
Off     == Blocks + 3
Chains  == Places \cup {Nowhere, Overrun}
Devices == Others \cup {Mem}

VARIABLES
  target, reported, driverReady, lifecycle,   \* MemoryStatus, shared with the host
  requested, plugged, generation, blocks,     \* the device
  view,                                       \* the run thread's GuestMemoryMmap
  mapped, table, leaked,                      \* hypervisor, Mappings, forgotten allocations
  queue, pending, driverOk, needsReset,       \* every device's transport
  strict,                                     \* VmConfig::strict
  pc, pinned, request                         \* the run thread

status    == <<target, reported, driverReady, lifecycle>>
device    == <<requested, plugged, generation, blocks>>
mappings  == <<mapped, table, leaked>>
transport == <<queue, pending, driverOk, needsReset>>
thread    == <<pc, pinned, request>>
vars      == <<status, device, view, mappings, transport, strict, thread>>

NoRequest == [plug |-> FALSE, addresses |-> {}, buffer |-> 0]
Requests  == [plug : BOOLEAN, addresses : SUBSET Region, buffer : Chains]
Quiescent == {"Scan", "Process", "Commit", "Resume"}  \* between vm.pause and vm.resume
Live      == {"Loop", "Check"} \cup Quiescent
Ended     == {"End", "Stopped", "Destroyed"}

MemoryTypeOK ==
  /\ target \in Places /\ reported \in Places
  /\ driverReady \in BOOLEAN /\ lifecycle \in {"Created", "Running", "Stopped"}
  /\ requested \in Places /\ plugged \in Places /\ generation \in 0..Generations - 1
  /\ blocks \subseteq Region /\ view \subseteq Region
  /\ mapped \subseteq Region /\ table \subseteq Region /\ leaked \subseteq Region
  /\ queue \in [Devices -> Places \cup {Off}]
  /\ pending \in [Devices -> SUBSET Chains]
  /\ driverOk \in [Devices -> BOOLEAN] /\ needsReset \in [Devices -> BOOLEAN]
  /\ strict \in BOOLEAN
  /\ pc \in {"Created", "Attached"} \cup Live \cup Ended
  /\ pinned \subseteq Places
  /\ request \in Requests

Init ==
  /\ target = 0 /\ reported = 0 /\ driverReady = FALSE /\ lifecycle = "Created"
  /\ requested = 0 /\ plugged = 0 /\ generation = 0 /\ blocks = {}
  /\ view = {} /\ mapped = {} /\ table = {} /\ leaked = {}
  /\ queue = [d \in Devices |-> Off] /\ pending = [d \in Devices |-> {}]
  /\ driverOk = [d \in Devices |-> FALSE] /\ needsReset = [d \in Devices |-> FALSE]
  /\ strict \in BOOLEAN
  /\ pc = "Created" /\ pinned = {} /\ request = NoRequest

Mapped(p) == p \in view \cup {0}
Active(d) == driverOk[d] /\ ~needsReset[d]
NextGeneration_Unwrapped == generation + 1
NextGeneration == (generation + 1) % Generations

\* Mmio::contain of a guest error: the device is isolated, or the VM ends.
Contain(d, next) ==
  IF strict
  THEN pc' = "End" /\ UNCHANGED needsReset
  ELSE pc' = next /\ needsReset' = [needsReset EXCEPT ![d] = TRUE]

(***************************************************************************)
(* The host: a control handle sets the target from any thread.             *)
(***************************************************************************)
SetRequested(t) ==
  /\ lifecycle # "Stopped"
  /\ target' = t
  /\ UNCHANGED <<reported, driverReady, lifecycle, device, view, mappings, transport, strict, thread>>

(***************************************************************************)
(* The guest.                                                              *)
(***************************************************************************)
Offer(d, p) ==
  /\ pc \in Live \ Quiescent
  /\ queue[d] # Off /\ Cardinality(pending[d]) < Ring[d]
  /\ pending' = [pending EXCEPT ![d] = @ \cup {p}]
  /\ UNCHANGED <<status, device, view, mappings, queue, driverOk, needsReset, strict, thread>>

\* A rejected register write changes nothing; in strict mode it ends the VM.
EnableQueue(d, p) ==
  /\ pc = "Loop"
  /\ IF ~driverOk[d] /\ queue[d] = Off /\ Mapped(p)
     THEN queue' = [queue EXCEPT ![d] = p] /\ UNCHANGED pc
     ELSE strict /\ pc' = "End" /\ UNCHANGED queue
  /\ UNCHANGED <<status, device, view, mappings, pending, driverOk, needsReset, strict,
                 pinned, request>>

DisableQueue(d) ==
  /\ pc = "Loop" /\ queue[d] # Off
  /\ queue' = [queue EXCEPT ![d] = Off]
  /\ pending' = [pending EXCEPT ![d] = {}]
  /\ UNCHANGED <<status, device, view, mappings, driverOk, needsReset, strict, thread>>

SetDriverOk(d) ==
  /\ pc = "Loop" /\ ~driverOk[d]
  /\ IF queue[d] # Off /\ Mapped(queue[d])
     THEN driverOk' = [driverOk EXCEPT ![d] = TRUE] /\ UNCHANGED pc
     ELSE strict /\ pc' = "End" /\ UNCHANGED driverOk
  /\ UNCHANGED <<status, device, view, mappings, queue, pending, needsReset, strict,
                 pinned, request>>

ReadyAfterReset_Kept(d) == driverReady
ReadyAfterReset(d) == IF d = Mem THEN FALSE ELSE driverReady

\* virtio-mem's own reset forgets the driver; plugged blocks stay plugged.
Reset(d) ==
  /\ pc = "Loop"
  /\ queue' = [queue EXCEPT ![d] = Off]
  /\ pending' = [pending EXCEPT ![d] = {}]
  /\ driverOk' = [driverOk EXCEPT ![d] = FALSE]
  /\ needsReset' = [needsReset EXCEPT ![d] = FALSE]
  /\ driverReady' = ReadyAfterReset(d)
  /\ UNCHANGED <<target, reported, lifecycle, device, view, mappings, strict, thread>>

(***************************************************************************)
(* The run thread's loop.                                                  *)
(***************************************************************************)
Attach ==
  /\ pc = "Created"
  /\ requested' = target
  /\ pc' = "Attached"
  /\ UNCHANGED <<status, plugged, generation, blocks, view, mappings, transport, strict,
                 pinned, request>>

Start ==
  /\ pc = "Attached"
  /\ lifecycle' = "Running"
  /\ pc' = "Loop"
  /\ UNCHANGED <<target, reported, driverReady, device, view, mappings, transport, strict,
                 pinned, request>>

\* poll or notify takes one chain of another device.
Serve(d) ==
  /\ pc = "Loop" /\ Active(d) /\ queue[d] # Off
  /\ \E p \in pending[d] :
       IF Mapped(queue[d]) /\ Mapped(p)
       THEN /\ pending' = [pending EXCEPT ![d] = @ \ {p}]
            /\ UNCHANGED <<pc, needsReset>>
       ELSE Contain(d, "Loop") /\ UNCHANGED pending
  /\ UNCHANGED <<status, device, view, mappings, queue, driverOk, strict, pinned, request>>

SyncGeneration_Forgotten == generation
SyncGeneration == IF target = requested THEN generation ELSE NextGeneration

SyncRequested_Late == IF Active(Mem) THEN target ELSE requested
SyncRequested == target

\* process_memory up to the look at the queue: sync_target, every iteration.
SyncTarget ==
  /\ pc = "Loop"
  /\ driverReady' = Active(Mem)
  /\ requested' = SyncRequested
  /\ generation' = SyncGeneration
  /\ pc' = IF Active(Mem) THEN "Check" ELSE "Loop"
  /\ UNCHANGED <<target, reported, lifecycle, plugged, blocks, view, mappings, transport,
                 strict, pinned, request>>

\* available, contained, and the barrier when there is a request.
Check ==
  /\ pc = "Check"
  /\ IF queue[Mem] # Off /\ (~Mapped(queue[Mem]) \/ Overrun \in pending[Mem])
     THEN Contain(Mem, "Loop")
     ELSE /\ pc' = IF pending[Mem] = {} THEN "Loop" ELSE "Scan"
          /\ UNCHANGED needsReset
  /\ UNCHANGED <<status, device, view, mappings, queue, pending, driverOk, strict,
                 pinned, request>>

\* vm.pause finds the guest or a vCPU ending the VM, pause or resume fails, or
\* another part of the loop ends it.
Finish ==
  /\ pc \in {"Attached", "Loop", "Check", "Resume"}
  /\ pc' = "End"
  /\ UNCHANGED <<status, device, view, mappings, transport, strict, pinned, request>>

Isolated_Skipped(corrupt) == needsReset
Isolated(corrupt) == [d \in Devices |-> needsReset[d] \/ d \in corrupt]

\* One device's pending chains and rings: an error, or the places to pin.
Corrupt(d) == queue[d] # Off /\ ~\A p \in {queue[d]} \cup pending[d] : Mapped(p)
Pins_NoRings(d) == IF queue[d] = Off THEN {} ELSE pending[d]
Pins_NoBuffers(d) == IF queue[d] = Off THEN {} ELSE {queue[d]}
Pins(d) == IF queue[d] = Off THEN {} ELSE {queue[d]} \cup pending[d]

Scan ==
  /\ pc = "Scan"
  /\ LET scanned == {d \in Devices : ~needsReset[d]}
         corrupt == {d \in scanned : Corrupt(d)}
     IN /\ IF strict /\ corrupt # {}
           THEN pc' = "End" /\ UNCHANGED <<needsReset, pinned>>
           ELSE /\ needsReset' = Isolated(corrupt)
                /\ pinned' = UNION {Pins(d) : d \in scanned \ corrupt}
                /\ pc' = IF Mem \in corrupt THEN "Resume" ELSE "Process"
  /\ UNCHANGED <<status, device, view, mappings, queue, pending, driverOk, strict, request>>

(***************************************************************************)
(* VirtioMem::process: the requests of one batch, each in two steps, for   *)
(* the host may change the target until request takes the status lock.     *)
(***************************************************************************)
Intervals == {a..b : a \in Region, b \in Region} \ {{}}

\* Popped, and answered without a transaction: a bad request or a state query.
Refuse(p) ==
  /\ pc = "Process" /\ p \in pending[Mem] /\ Mapped(p)
  /\ pending' = [pending EXCEPT ![Mem] = @ \ {p}]
  /\ UNCHANGED <<status, device, view, mappings, queue, driverOk, needsReset, strict, thread>>

\* Popped and found to have the wrong descriptors, or to be outside memory.
Malformed ==
  /\ pc = "Process" /\ pending[Mem] # {}
  /\ Contain(Mem, "Resume")
  /\ UNCHANGED <<status, device, view, mappings, queue, pending, driverOk, strict,
                 pinned, request>>

Begin(p, plug, addresses) ==
  /\ pc = "Process" /\ p \in pending[Mem] /\ Mapped(p)
  /\ request' = [plug |-> plug, addresses |-> addresses, buffer |-> p]
  /\ pending' = [pending EXCEPT ![Mem] = @ \ {p}]
  /\ pc' = "Commit"
  /\ UNCHANGED <<status, device, view, mappings, queue, driverOk, needsReset, strict, pinned>>

Plug(p)      == \E a \in Intervals : a \cap blocks = {} /\ Begin(p, TRUE, a)
Unplug(p)    == \E a \in Intervals : a \subseteq blocks /\ Begin(p, FALSE, a)
UnplugAll(p) == Begin(p, FALSE, blocks)

\* What request decides once it holds the status lock.
ExceedsTarget_Stale ==
  request.plug /\ Cardinality(blocks) + Cardinality(request.addresses) > requested
ExceedsTarget ==
  request.plug /\ Cardinality(blocks) + Cardinality(request.addresses) > target
InUse ==
  ~request.plug /\ request.addresses \cap (pinned \cup {request.buffer}) # {}

\* The reply is written and the next request is taken.
Answer == pc' = "Process" /\ request' = NoRequest

Nack ==
  /\ pc = "Commit" /\ (ExceedsTarget \/ InUse)
  /\ Answer
  /\ UNCHANGED <<status, device, view, mappings, transport, strict, pinned>>

Transacts == pc = "Commit" /\ ~ExceedsTarget /\ ~InUse

\* Mappings::map and Mappings::unmap of some of the blocks.
Moved(S, some) == IF request.plug THEN S \cup some ELSE S \ some

\* change, every block mapped or unmapped.
Committed == Moved(blocks, request.addresses)

PluggedSize_Before == Cardinality(blocks)
PluggedSize == Cardinality(Committed)

Commit ==
  /\ Transacts
  /\ blocks' = Committed /\ view' = Committed
  /\ mapped' = Moved(mapped, request.addresses)
  /\ table' = Moved(table, request.addresses)
  /\ plugged' = PluggedSize /\ reported' = PluggedSize
  /\ generation' = NextGeneration
  /\ Answer
  /\ UNCHANGED <<target, driverReady, lifecycle, requested, leaked, transport, strict, pinned>>

RolledBack_Assumed(stuck) == TRUE
RolledBack(stuck) == stuck = {}

\* change, a block fails and the ones before it are rolled back, last first;
\* the rollback of the blocks in stuck fails too, and that ends the VM.
Rollback(stuck) ==
  /\ Transacts
  /\ IF RolledBack(stuck) THEN Answer ELSE pc' = "End" /\ UNCHANGED request
  /\ mapped' = Moved(mapped, stuck)
  /\ table' = Moved(table, stuck)
  /\ UNCHANGED <<status, device, view, leaked, transport, strict, pinned>>

Fail ==
  \E f \in request.addresses : \E stuck \in SUBSET {a \in request.addresses : a < f} :
    Rollback(stuck)

\* change cannot allocate a block.
Exhausted ==
  /\ Transacts /\ request.plug
  /\ pc' = "End"
  /\ UNCHANGED <<status, device, view, mappings, transport, strict, pinned, request>>

BatchDone ==
  /\ pc = "Process" /\ pending[Mem] = {}
  /\ pc' = "Resume"
  /\ UNCHANGED <<status, device, view, mappings, transport, strict, pinned, request>>

Resume ==
  /\ pc = "Resume"
  /\ pc' = "Loop" /\ pinned' = {}
  /\ UNCHANGED <<status, device, view, mappings, transport, strict, request>>

(***************************************************************************)
(* The end: VirtioMem::stop, and the VM destroyed with what is left.       *)
(***************************************************************************)
LifecycleAfterStop_FirstError(failed) == IF failed = {} THEN "Stopped" ELSE lifecycle
LifecycleAfterStop(failed) == "Stopped"

Stop ==
  /\ pc = "End"
  /\ driverReady' = FALSE
  /\ \E failed \in SUBSET (blocks \cap table) :
       /\ lifecycle' = LifecycleAfterStop(failed)
       /\ mapped' = mapped \ (blocks \ failed)
       /\ table' = table \ (blocks \ failed)
  /\ pc' = "Stopped"
  /\ UNCHANGED <<target, reported, device, view, leaked, transport, strict, pinned, request>>

Leaked_Freed(success) == leaked
Leaked(success) == IF success THEN leaked ELSE leaked \cup table

\* Vm::drop, and the devices with their queues: without a successful destruction
\* the allocations are forgotten.
Destroy(success) ==
  /\ pc = "Stopped"
  /\ mapped' = IF success THEN {} ELSE mapped
  /\ leaked' = Leaked(success)
  /\ table' = {}
  /\ queue' = [d \in Devices |-> Off] /\ pending' = [d \in Devices |-> {}]
  /\ pc' = "Destroyed"
  /\ UNCHANGED <<status, device, view, driverOk, needsReset, strict, pinned, request>>

Host == \E t \in Places : SetRequested(t)

Guest ==
  \E d \in Devices :
    \/ \E p \in Chains : Offer(d, p)
    \/ \E p \in Places : EnableQueue(d, p)
    \/ DisableQueue(d)
    \/ SetDriverOk(d)
    \/ Reset(d)

Batch ==
  \/ \E p \in Chains : Refuse(p) \/ Plug(p) \/ Unplug(p) \/ UnplugAll(p)
  \/ Malformed
  \/ BatchDone

Transaction == Nack \/ Commit \/ Fail \/ Exhausted

Barrier == Check \/ Scan \/ Batch \/ Transaction \/ Resume

Teardown == Stop \/ \E success \in BOOLEAN : Destroy(success)

Next ==
  \/ Host \/ Guest
  \/ Attach \/ Start \/ SyncTarget \/ Finish
  \/ \E d \in Others : Serve(d)
  \/ Barrier \/ Teardown

Spec == Init /\ [][Next]_vars

(***************************************************************************)
(* Fairness: the run thread never stops in the middle of an iteration and  *)
(* starts another one.  Nothing obliges the host, the guest or a failure.  *)
(***************************************************************************)
LiveSpec ==
  Spec /\ WF_vars(Start) /\ WF_vars(SyncTarget) /\ WF_vars(Barrier) /\ WF_vars(Teardown)

(***************************************************************************)
(* Properties.                                                             *)
(***************************************************************************)

\* While the VM runs, the device's blocks, the memory the devices access, the
\* hypervisor's map and the table that owns the allocations are one set: change
\* takes effect everywhere or nowhere, however mapping and rollback fail.
TransactionsAtomic == pc \in Live => blocks = view /\ view = mapped /\ mapped = table

\* The size the host reads and the size the guest reads are the blocks that are
\* plugged, in every state, a transaction that failed half-way included.
SizesAgree == reported = Cardinality(blocks) /\ plugged = Cardinality(blocks)

\* No unplug pulls the rings of a queue from under a device that still serves
\* it: only a device that waits for its reset may lose them (runtime.rs 225-231).
LiveQueuesMapped ==
  pc \in Live =>
    \A d \in Devices : queue[d] # Off /\ ~needsReset[d] => Mapped(queue[d])

\* From the scan to the resume every chain still pending at a device that was
\* not isolated keeps its buffers, and so does the request being answered: the
\* pins taken once hold for the whole batch.
PendingChainsKept ==
  pc \in {"Process", "Commit", "Resume"} =>
    /\ \A d \in Devices : queue[d] # Off /\ ~needsReset[d] => \A p \in pending[d] : Mapped(p)
    /\ pc = "Commit" => Mapped(request.buffer)

\* What a device in service works on stays in memory: its rings and the buffers
\* of its pending chains.
InUseStays == LiveQueuesMapped /\ PendingChainsKept

\* A plug is held against the target the host has set by then, not against the
\* target the guest last saw: plugging never goes past it.
PlugWithinTarget ==
  [][Cardinality(blocks') > Cardinality(blocks) => Cardinality(blocks') <= target]_vars

\* A guest that reads the configuration twice under one generation has read one
\* configuration: whatever changes it changes the generation.  (The counter
\* wraps, so this is about successive configurations.)
ConfigVersioned ==
  [][(pc \in Live /\ (requested' # requested \/ plugged' # plugged))
       => (generation' # generation)]_vars

\* The guest follows the host's target: it cannot pass it, and cannot miss that
\* its configuration has changed.
TargetFollowed == PlugWithinTarget /\ ConfigVersioned

\* The host is told the driver is ready only of a running VM whose driver has
\* set DRIVER_OK since the last reset.
ReadyMeansDriver == driverReady => lifecycle = "Running" /\ driverOk[Mem]

\* VmControl::memory_status tells the host the truth at every step.
StatusHonest == SizesAgree /\ ReadyMeansDriver

\* What the hypervisor still maps is never freed: failed unmaps and failed
\* rollbacks stay with the table, and a failed destruction leaks them.
MappedIsOwned == mapped \subseteq table \cup leaked

\* Device, guest memory, hypervisor and owner of the allocations never part, and
\* when the VM has ended what is still mapped is at least still allocated.
MapsAgree == TransactionsAtomic /\ MappedIsOwned

\* A target the host leaves alone reaches the guest's configuration, unless the
\* VM ends.
TargetDelivered ==
  \A t \in Places : target = t ~> (requested = t \/ target # t \/ pc \in {"Created"} \cup Ended)

\* Every request in virtio-mem's ring is answered, or the device or the VM is
\* no longer in service.
RequestsAnswered ==
  \A p \in Chains : p \in pending[Mem] ~> (p \notin pending[Mem] \/ ~Active(Mem) \/ pc \in Ended)

\* An ended VM is torn down, and by then the host can set no more targets.
TornDown == pc = "End" ~> (pc = "Destroyed" /\ lifecycle = "Stopped")

\* Targets arrive, requests are answered and an ended VM is torn down.
MemoryProgress == TargetDelivered /\ RequestsAnswered /\ TornDown
=============================================================================
