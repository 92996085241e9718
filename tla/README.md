# w-vmm in TLA+

A verification project for w-vmm, a virtual machine monitor library in Rust for
Hypervisor.framework on arm64 macOS.  It models the library's control plane, the
run thread, the vCPU threads, dynamic memory, the virtio transport with its
interrupts, the block and network devices, the guest's address space, and the demo
command with its disks, terminal, control server and vmnet interface; TLC checks the models on small
instances and TLAPS proves the central results for every size.
`PROJECT.json` lists the components, the runs, the mapping of definitions to
source lines, the hazards the properties are for, and the theorems.

## 1. The system

A host builds a `Vmm` from a configuration, named disks, a network backend,
optional dynamic memory and a serial backend, keeps a `VmControl` handle and
calls `Vmm::run` on a thread of its choice.  That thread (the *run thread*)
creates the machine, maps RAM, starts the vCPUs and then loops: serve one request
of the handle, poll serial and devices, process dynamic memory, raise interrupt
lines, and handle one event of a vCPU.  Each vCPU has a thread of its own, which
sends the run thread its MMIO accesses and waits for the reply.

| Component | State it keeps | Operations | What is hard about it |
|---|---|---|---|
| Control handle (`control.rs`) | lifecycle, owner, request queue, final and cleanup error, one mutex and condition variable | `pause`, `resume`, `stop` from any thread; `begin`, `running`, `next`, `complete`, `reject_stopping`, `wait`, `cleaning`, `finish`, `dropped` from the run thread | callers against the run thread, lost wake-ups, requests that arrive as the VM ends, a callback that stops its own VM, panics |
| `Vmm` and run thread (`lib.rs`, `runtime.rs`) | the VM, mapped regions, devices, a cached `paused` | `run`, `init`, `run_loop`, `process_memory`, `handle_io`, `cleanup`, `Drop` | early returns of init, cleanup where each step may fail, unwinding |
| vCPU threads (`macos_arm64/cpus.rs`, `mod.rs`) | stop, paused, power, running flags, one event channel, a reply channel per access | `start`, `pause`, `resume`, `stop`, PSCI on/off, `poll`, `drain` | quiescence while replies are owed, kicks lost before the vCPU enters the guest, destroying vCPUs, faults found late |
| Dynamic memory (`devices/memory.rs`, `memory.rs`) | target, sizes, block bitmap, generation; memory view and mapping table | `set_requested_mib`, plug, unplug, unplug all, state, reset, `stop` | transactions over several mappings with rollback, memory in use by other devices, host and guest moving at once |
| virtio-mmio (`devices/mmio.rs`) | status, features, selectors, queues, interrupt bits | register writes, notify, poll, `contain`, reset | any order of writes, isolation after an error, queues whose memory goes |
| Block device and disk (`devices/block.rs`, `storage.rs`) | image caches, advisory lock | open, read, write, flush, get-id, reset, cleanup, drop | partial failure, durability, overlapping buffers, 64-bit arithmetic, others with the same image or path |
| Network device (`devices/net.rs`) | a deferred frame and its copy | transmit, receive, poll, reset | back-pressure, a chain put back, frames that outlive their queue |
| vmnet backend (`net/macos.rs`) | the interface, callbacks the framework owes | start, `send`, `recv`, close on drop | callbacks that come late or never, answers that say less than success |
| Serial port (`serial.rs`) and demo terminal (`demo/src/terminal.rs`) | UART input, terminal mode, signal handlers, the stop thread | poll input, notice, bind, drop | a full UART, a signal before anyone listens, restoring on every way out |
| Control server (`demo/src/control.rs`) | socket file, accept thread, connections | bind, accept, serve, drop | clients that never send, a table that is full, another process on the path, exit with clients waiting |
| Demo command (`demo/src/main.rs`) | owner of all the above | acquire, run, release | one of several acquisitions fails; ways to stop that coincide |
| Layout (`platform/mod.rs`, `boot.rs`, `runtime.rs`) | the machine's regions | `Platform::layout`, `validate`, attach, map, prepare, `handle_io` | arithmetic at the ends of the word, overlap, accesses across a boundary |
| Bindings, boot images, errors | see section 7 | | mostly construction and I/O |

Interactions: `VmControl` and the run thread share one mutex and condition
variable; the run thread calls the machine (`VirtualMachine`), which is threads and
channels; devices share guest memory, which dynamic memory changes under a barrier
(all vCPUs quiescent); device errors are fatal or, in lenient mode, isolate the
device until its driver resets it; backends are called on the run thread and may
call the handle back.

The properties that make these parts correct are those of section 3.  The hazards
behind them, each at its source line, are in `PROJECT.json`.

## 2. The modules

Every module names its source in its header; `map` in `PROJECT.json` gives the lines
of each definition.  A definition `X_Variant` just before `X` is a plausible bug in
X: no specification uses it, and with it in the place of X TLC reports the property that
`PROJECT.json` pairs it with.

* **VmLifecycle** — abstract: the life of a VM as its status shows it, and its vCPUs.
* **Control** — `VmControl`.  What is done under one hold of the mutex is one step.
  The condition variable has an explicit wait set.  A caller's position is `call`,
  `operation` and `reply`; the reply channel closes when its sender is dropped.
* **RunThread** — EXTENDS Control with `Vmm::run`, `Drop` and all of `runtime.rs` but
  the devices.  `pc` is the program point; at every point in `Callbacks` platform or
  device code runs, which may fail, panic or use the handle (`Runner` is a caller
  too).  `LifecycleRefinement` maps it onto VmLifecycle.
* **Machine** — abstract: the contract of trait `VirtualMachine` RunThread relies on.
* **Cpus** — vCPU threads and the VM in front of them.  A step is one hold of
  the lock, one channel operation or one stay in the guest.  The lock is released before
  `hv_vcpu_run`, so "Enter" and "Guest" are two points; a kick works only in the second.
  `ContractRefinement` maps it onto Machine.
* **VirtioMem** — the virtio-mem device with the host's control, the memory barrier of
  `process_memory` and the mapping table.  Addresses are places: base RAM, a block, or
  nowhere.  Other devices are their rings and pending buffers.
* **Mmio** — the transport under any sequence of register writes.  A bit register is
  the set of its bits; the rings of a queue lie Here, There or Nowhere.
* **Interrupts** — interrupt bits, the level-triggered line, and a driver that reads the
  status, acknowledges what it read and then looks for work.
* **Net** — transmit and receive, one iteration of a loop per step, between a driver and
  a backend that may refuse or fail.
* **Disk**, **Block** — Block EXTENDS Disk.  Disk is the transfer in batches, caches and
  flush; contents are the number of the write that put them there, `stable` is what a
  crash of the host would leave.  Block is notify, validation and answering.
* **VmnetIo** — what the answers of `vmnet_write` and `vmnet_read` (a status and a count)
  mean to the network device; Net EXTENDS it.
* **Vmnet** — start and stop of a vmnet interface: the framework calls back on a queue
  of its own, the owner waits up to a deadline and may give up first.
* **Terminal** — serial input through a UART of bounded size, the terminal's mode, the
  signal handlers, and the stop thread that a byte on a socket pair wakes.
* **ControlServer** — the socket file with the identity the server remembers, the accept
  thread, one thread per connection, and the clients and rivals outside.
* **DiskImage** — opening, locking, checking and dropping qcow2 images whose path may come to
  name another file while another process opens the same images.  A header is its version
  and what is wrong with it; `flock` is external.
* **Demo** — EXTENDS Terminal, ControlServer, Vmnet and DiskImage with the main thread: `main`
  is its program point from opening the disks to the end of the process.  The VM is an INSTANCE
  of VmLifecycle, which RunThread implements, with a queue of requests in front.
* **Layout** — one run of the checks from configuration to a guest's access.  `plan` is
  what the platform returned, `layout` the part of it that `validate` has read, `ranges` and
  `total` are its local variables.  Then attach, mapping, `prepare`, and `handle_io`
  up to the register.
* **MC\*** modules give constants for TLC; **\*Proofs** hold the theorems, one module for each
  component (TransportProofs: Mmio and Interrupts, the two halves of the transport).

### Abstractions to know about

* Cpus: timed waits and waits that re-check their condition in a loop have no spurious
  wake-ups.  HVF is external: a vCPU in the guest exits for any reason at any time.
  Register contents, PSCI argument checks and instruction decoding are left out.
* RunThread: `handle_io` succeeds, fails or panics; its decoding is in Layout.  A thread
  that panics outside of the code that catches it aborts and is not modelled.
* VirtioMem: one queue per device, the transport's own states (FAILED, negotiation) are
  in Mmio, pausing by the host is in RunThread, and the generation wraps at `Generations`.
* Mmio: register reads have no effect; which of them decode is in Layout; the driver starts its rings
  afresh on a reset.
* DiskImage: cleanup's flush and the one of `Drop for Disk` are one step, since nothing is written
  between them; the variant without it has neither.
* Interrupts: a notified device uses some of the chains, and may be isolated over the next one,
  which raises the configuration bit before the line is set.  The driver is external and well behaved (it acknowledges what it read).
* Net: indices of the rings do not wrap; the code only uses wrapping differences of them.
  Whether a packet is received in place or through a copy does not show.
* Block: a segment is one sector; empty ones are skipped by the code.  All faults that
  are answered with an I/O error before the disk is touched are one flaw, "Shape", except
  those that depend on the disk (read-only, bounds, overflow).  A failed flush leaves the
  cache as it was; it promises nothing.
* Vmnet: the parsing of the interface's parameters is one outcome of the start callback.
* ControlServer: a request is its operation; deadline, line too long, bad line and the end
  of the client's stream are all "the read fails".  Each client connects once.
* Demo: `VmControl` is as coarse as VmLifecycle makes it; RunThread has the detail.
  If `Runtime::new` fails, its arguments are dropped in an order the model leaves open (point
  "Undo"), but for a disk that would close while the interface is stopping.
  Signals to a command that has not registered handlers yet kill it, which is an end too.
* Layout: a machine word of `WordBits` bits; a sum or product past `Top` is what the
  `checked_` operations report.  A custom platform may return any regions: each is chosen at
  the step that reads it, which no check can tell from a layout complete from the start.
  What framework and FDT writer answer (redistributor size, interrupt range, FDT length) is
  nondeterministic.  A failure of the host behind the checks (`HostFails`: no memory, no VM, no
  mapping) and one of a decoded access (`IoFails`: serial output, a device's fatal error, the
  interrupt line, the completion) is an outcome of its step.  Registers themselves are Mmio's.
* Net, Block: whether a guest error is fatal (strict) or isolates the device (lenient) is
  chosen at each error; Mmio keeps the choice for a whole run.

## 3. What the runs check

Every action of every module fires in some run.  A property with parts is the
conjunction of the named definitions after it; each part has a variant of the code that
breaks it.

**runthread** (3 clients, 2 RAM regions; 191,000 states).
* `RequestsServed`: a caller that waits for a reply is queued once, in service or answered
  (`RequestsAccounted`), nothing is queued once the VM is ending (`QueueServed`), and whoever
  sleeps on the condition variable has nothing to wake up for (`NoLostWakeup`).
* `PausedIsQuiet`: while the status is Paused, vCPUs are quiescent and no device is
  processed.
* `MachineTracked`: the loop's `unwrap` of the VM is safe (`LoopHasMachine`); Stopped means
  vCPUs joined, the machine destroyed (and with it every mapping), memory stopped and devices
  flushed, or that the cleanup result says otherwise (`StoppedIsGone`).  `mapped` is the code's
  counter, which cleanup does not reset, and no part of it.
* `FailureReported`: no fault, cleanup failure or panic is swallowed.
* `CallsReturn`: every call returns.
* `LifecycleRefinement`: RunThread implements VmLifecycle, its liveness included.
* `EndIsFinal`: what `stop` returned is what it returns ever after (`SavedResultFixed`), and
  dynamic memory does not come back (`MemoryStaysStopped`).

Three clients are what it takes for one request in service, one queued and a stop at the
same time.  There is no symmetry reduction, which would be unsound for the liveness.

**unrun_drop** — a disagreement with a doc comment; see section 6.

**cpus_safety** (3 vCPUs; 1.3 million states).
* `MayExecute`: between `pause` and `resume` nobody executes guest code or writes a reply
  back (`PauseBarrier`); a vCPU is destroyed while no other is in the guest
  (`DestroyAlone`); only powered vCPUs execute (`GuestIsOn`).
* `EventsAccounted`: a vCPU that waits for a reply has one coming (`ReplyOwed`); at most one
  event of each thread is in the channel (`OneEventEach`); no thread sleeps on what has
  happened (`VcpuWakeups`).
* `FaultsExact`: if a vCPU failed, `poll` or `stop` returns a fault, of several the first one
  found (`FaultReported`), and no stop turns an access in flight into one (`NoSpuriousFault`).
* `ContractRefinement`: all of it implements Machine.

Three vCPUs are needed for two CPU_ON calls to race for a third.

**cpus_liveness** (2 vCPUs; 20,000 states).
* `CpusProgress`: a stop ends every thread (`ThreadsEnd`), a pause returns whatever is pending
  (`PauseReturns`), and a machine that has ended by itself is torn down
  (`EndsUnlessPaused`).

**memory_safety** (2 blocks, a disk and the memory device, batches of two; 5 million
states).
* `MapsAgree`: device, view, hypervisor and table agree whenever the guest runs, whichever
  mapping or rollback fails (`TransactionsAtomic`), and memory the hypervisor may map is not
  freed (`MappedIsOwned`).
* `StatusHonest`: the sizes host and guest read are the number of plugged blocks
  (`SizesAgree`), and the host sees a driver only where there is one (`ReadyMeansDriver`).
* `InUseStays`: no unplug takes rings (`LiveQueuesMapped`) or buffers (`PendingChainsKept`)
  in use.
* `TargetFollowed`: plugging stays within the target of that moment (`PlugWithinTarget`), and
  each change of configuration moves the generation (`ConfigVersioned`).

Two blocks suffice: one to fail and one to roll back, one in use and one not.

**memory_liveness** (1 block; 136,000 states).
* `MemoryProgress`: a target reaches the guest (`TargetDelivered`), every request is answered or
  its device isolated (`RequestsAnswered`), an ended VM is torn down (`TornDown`).

**transport** (2 queues, two feature bits below and one above bit 32, one of them not
offered; 680,000 states).
* `Sound`: no order of writes gets an unsupported feature into force (`FeaturesInForce`) or
  a half-configured device into service (`ServiceIsSound`).
* `OnlyActiveConsumes`: only a device in service takes chains.
* `OneLife`: short of a reset no queue restarts (`NoRestart`) and no isolated device returns
  (`IsolatedUntilReset`).

**interrupts** (2 devices; 20,000 states).
* `InterruptsExact`: when a driver reads its status after an interrupt, a bit is set
  (`NoSpuriousInterrupt`); work that has not been looked at is announced, or the driver is
  on its way (`NoticeKept`).
* `NoticesSeen`: it is looked at.

**network** (2 frames, buffers and packets, budget 2; 555,000 states).
* `Accounted`: what was sent since the reset, the deferred frame and the ring are what the
  driver offered, in order (`FramesInOrder`); each chain taken is completed once
  (`ChainsReturned`); each packet taken appears in the used ring, in order
  (`PacketsAccounted`).
* `SendsInService`: nothing leaves for a disabled queue or an isolated device.
* `NetProgress`: frames leave unless the backend refuses for ever (`FramesLeave`), packets are
  taken once there is a buffer (`PacketsTaken`), both without a notification.

A deferred frame with one behind it, or with one after a reset, takes two frames.  As
frames are bounded, liveness does not show that the budget is needed, only that it does
no harm.

**block** (3 sectors, batches of 2, words of 16 values, 3 requests of 10 kinds; 824,000
states).
* `DataIntact`: a write answered OK is on the disk as a whole (`AckedIsWritten`); what was made
  durable, by a flush, by write-through when FLUSH is not negotiated, by a reset or by an
  orderly end, survives a host crash at any moment (`PromisesKept`); overlapping buffers are
  filled as if one by one (`ReadsInOrder`).
* `WritesStayInside`: the disk changes only by a valid write and only where it says.
* `NotifiedAnswered`: a request that was available when its notification was sent is
  answered.

Sixteen values and sectors of two bytes let `sector * 512` overflow, back to the first
sector.  Three requests are a write, one that fails on the same sectors, and a flush.

**demo** (2 clients for 1 connection, a UART of 2 bytes, 3 keys, 2 disks; 238,000 states).
* `Restored`: no way out leaves the terminal raw, and Stopped means that terminal and
  interface are back (`TerminalRestored`); a started interface is stopped once, also when the
  start was given up or completes late (`InterfaceStopped`); the socket file goes, and only if it
  is the server's own (`SocketCleaned`); an open disk is the file that was locked and checked, and
  nobody else's while it may be written to (`DisksExclusive`); Stopped means disks let go, and no
  end of the command, a signal's included, leaves an unsynced write behind unless a flush failed
  (`DisksReleased`).
* `RepliesHonest`: the command does not end on a waiting client, and a stop that was
  answered means joined vCPUs.
* `CommandProgress`: a notice or a VM that stops ends the command, whatever framework and clients
  fail to do (`CommandEnds`); each connected client is answered or disconnected
  (`ClientsServed`); Ctrl-] is heard unless the VM is paused or its UART full
  (`EscapeHeard`).

What acts from outside is split into settings (clients, a rival for the socket's path, keys
and the network, disks with a network, disks read-only; each with signals), so that their
behaviours add up instead of multiplying: main thread, stop thread and server are the same in
each.  Clients are numbered in the order in which they connect, which halves the states.
Both disks name one path: the second is refused, opens the same image read-only, or
opens the file that was moved there in between.  With one
connection, one of two clients always finds the table full.  `SocketCleaned` leaves out
the two windows where the server cannot know (between bind and reading the inode, and between
comparing and removing).  `EscapeHeard` and its exceptions follow from `poll_input`, which reads
nothing while there is no room.

**layout** (words of 6 bits, `boot.rs` scaled to them; 1.1 million states).
* `VerdictRight`: `validate` against a definition by bytes.  What it accepts gives each byte
  to one region at most, inside the word, with the RAM the configuration asks for; what it
  refuses has a defect in what was read; attaching never fails after it.
* `OwnLayoutSound`: the library takes its own layout, for every memory size, hotplug range and
  kernel `Hvf::layout` lets pass (`OwnLayoutAccepted`); kernel, initramfs and FDT lie in RAM
  apart, the GIC's windows meet nothing, each device has an interrupt of its own that the GIC
  has (`BootSound`).
* `DecodeExact`: an access goes to the one device whose window it starts in, reaches a register
  only with all its bytes in that window, and RAM is never a device; in lenient mode only
  an address without a device is refused (`src/README.md:183-184`).

The constants keep the order and divisibility of the real ones, as `LayoutAssumption` states
them; those relations, not the magnitudes, are what the checks rely on.  Regions are chosen to
be empty, too small, adjacent, nested, too large for the RAM left, and to end at and
past the last port and the last address.

Each specification has one type invariant, which also says that counters stay in range:
`RunTypeOK`, `CpusTypeOK`, `MemoryTypeOK`, `TransportTypeOK`, `CommandTypeOK` and `LayoutTypeOK`; in
Interrupts (`IrqTypeOK`), Net and Block (`TypeOK`) it is a part of the first property.
Deadlock is checked in RunThread, Cpus and Interrupts; it is not in the others, where
a VM or command that has ended (or a driver that has used up its requests) stops.

## 4. Fairness

Nobody is obliged to call anything: no fairness is assumed of clients, guests or hosts.

* RunThread: weak fairness of the run thread's steps and of a caller whose call may
  return.  Both are threads that the operating system schedules; `control.wait` counts as
  a step only once it is notified.
* Cpus: weak fairness of each vCPU thread, of the exit of a kicked vCPU that is in the
  guest (what `hv_vcpus_exit` guarantees), of the run loop and of teardown.  No guest is
  assumed to exit by itself.
* VirtioMem: weak fairness of start, target synchronisation, barrier and teardown, which
  are parts of every iteration of the run loop; the host does not pause the VM for ever.
* Interrupts: weak fairness of the run thread; strong fairness of handling a device's
  access (the event channel is FIFO, so a waiting access cannot be overtaken for ever) and
  of the driver.
* Net: weak fairness of the run thread, which polls in every iteration; strong fairness
  of an accepting `send`: a backend that refuses for ever is allowed by its trait, and then
  nothing can be promised.
* Demo: weak fairness of main, stop and server thread and of each connection:
  threads of one process, whose waits have deadlines or are ended by another
  thread.  None of a guest's end, a failing accept or barrier, keys, signals, clients
  or the framework's callbacks.  Serial output is not modelled: it is assumed that no write to
  stdout blocks the run thread for ever, as one to a terminal or pipe that nobody reads would.
* Layout has no liveness: it is a sequence of checks.
* Block: weak fairness of the run thread.  There is no poll: the driver's notification
  is what gets a request served, so `NotifiedAnswered` begins with one.

## 5. What is proved

TLAPS checks the following for all values of the constants that satisfy the assumptions
named in the modules (threads are distinct; numbers of regions, blocks and ring entries
are naturals, with at least one block; VERSION_1 and the required features are offered; Layout's
are below).

**RunThreadProofs** — any set of clients, any number of regions.  `TypeCorrect`, and the
inductive invariant `Inv`: `Phase` relates the program point to the lifecycle, the
owner and the queue; `MachinePhase` to the machine, regions and flush; `ReportPhase` to the
errors found so far and what has been saved of them.  None of the safety
properties is inductive alone: that the loop has a machine depends on `running` refusing to
overwrite Stopping, and that Stopped means gone on every path through cleanup and
unwinding.  From it: `StrandsNobody` (QueueServed), `MachineTruth`
(MachineTracked), `NoFailureSwallowed` (FailureReported), and `EndStays` (EndIsFinal) from
`ResultFixed` and `MemoryStops`.

**VirtioMemProofs** — any number of blocks, devices and chains.  `MemoryTyped`, and the
inductive invariant `MemInv`: one map (`OneMap`), pins that cover everything in service
from the scan to the end of the batch (`PinsCover`: the guest cannot move a queue while
it is quiescent, and a device that becomes isolated only leaves service), and a request
whose check against the blocks still holds when it changes them (`RequestFits`).  From it:
`MapsHold` (MapsAgree, from `ChangesAtomic` and `NothingMappedIsFreed`), `NothingInUseGoes`
(InUseStays), `GuestFollows` (TargetFollowed, from `PlugBounded`, with the library's theorems on
cardinality, and `ChangesVersioned`), `SizesHonest` (SizesAgree).

**TransportProofs**, on Mmio — any queues, features and writes.  `TransportTyped`; `TransportSound`: the
two parts of Sound are inductive together because FEATURES_OK freezes the features and no
status bit is dropped short of a reset; `ConsumesInService` (OnlyActiveConsumes); `OneLifeOnly`
(OneLife).

**RunThreadProofs, continued** — `RequestsInvariant` adds `RequestPhase`, `RequestsAccounted` and
`NoLostWakeup` to `Inv`: a caller waits exactly while its request is in the queue, in the run
thread's hands or answered and not yet read.  From it `EveryRequestServed` (RequestsServed).
`PausedMeansQuiet` (PausedIsQuiet) needs `PausePhase`, which ties the lifecycle to the vCPUs
between the barrier and the completion of a request.  `LifecycleImplemented` is the refinement of
VmLifecycle without its fairness: every step is one of its steps or a stutter.

**VirtioMemProofs** also has `HostToldTheTruth` (StatusHonest).

**CpusProofs** — any number of vCPUs.  The invariant `CpusInvariant`: `ExecutesOn` and `Barriers`
say where a thread may be while it executes, pauses or goes; `EventsOwned` and `AccessOwed` where
its event or its reply is, without positions in the channel, which `OneEventEach` then gives back;
`FaultsOwned` follows an error from the thread that met it to the caller.  From it `CpusTyped`,
`ExecutesOnlyWhenItMay` (MayExecute), `NothingLost` (EventsAccounted), `FaultsAreExact`
(FaultsExact), and `CpusImplementMachine`: Machine has no fairness, so this is ContractRefinement
as the run checks it.

**TransportProofs**, on Interrupts — any devices and ring size.  `InterruptInvariant` adds to NoticeKept what
bounds a ring, when a driver waits, what the run thread holds between the access and the line,
and that line and bits agree but for the update under way (`LineHonest`).  From it
`InterruptsAreExact` (InterruptsExact).

**BlockProofs** — any disk size, word, batch, queue and set of requests.  `BlockInvariant`: what is
left of a transfer is the end of the request and `offset` its place (`Progress`, which needs the
checks a request has passed, `Checked`, for the arithmetic not to wrap); the sectors and buffers
done so far hold the right contents (`Transferred`); and promised, acknowledged, stable and disk
contents are ordered (`Ordered`).  From it `DataStaysIntact` (DataIntact) and `WritesInside`
(WritesStayInside).

**NetProofs** — any budget, frame size and number of frames, buffers and packets.  `Accounted`
speaks of concatenations of what was sent, what waits and what is left; `NetInvariant` says it by
index since the last reset (`TxIndex`, `RxIndex`), also in a device that is Down, and adds that loops
run only in service, which packet is next in the backend, and how the counters bound the rings in
a device out of service, where Reset reads them.  From it `NothingLostOrRepeated` (Accounted) and
`NoFrameOutOfService` (SendsInService).

**LayoutProofs** — any word size, configuration, platform and list of regions.  `InputAssumption`
gives what comes from outside its types (a hotplug range has a size and an alignment, as
`VirtioMem::new` requires), and `LayoutAssumption` the order and divisibility of the
constants of `boot.rs`.  Three inductive invariants:
* `ValidInv` (`LayoutInvariant`) says what the variables are in the middle of `validate`: all that was
  read (`AllRead`) grows at its end, `ranges` is its image, no two of its regions share a byte, and
  `total` is the number of bytes of RAM in it.  From it `LayoutTypes` (LayoutTypeOK) and `ValidateIsRight`
  (VerdictRight): comparing two ends is right for sets of bytes, the sum for their number.
* `DecodeInv` is DecodeExact with the stages at which there is an access; it follows from the
  accepted windows having no byte in common (`HandleIoIsExact`).
* `OwnInv` holds the arithmetic of `boot.rs`: what `Hvf::layout` checked fits, its lists lie
  one behind the other (UART, virtio, RAM, hotplug), and no later check can refuse
  them.  From it `BuiltInLayoutIsSound` (OwnLayoutSound).

**DemoProofs** — any command lines, clients, disks and images, any UART and connection limit
(`SettingAssumption`, `ServerAssumption`, `DiskAssumption` and `TerminalAssumption` give them their
types, and the UART and the connection table at least one place).  `Restored` and `RepliesHonest` are
about the ends of the command; what makes them true is what holds at every point on the way, so
the invariant `DemoInv` (`DemoInvariant`) says it by `main`:
* `TerminalPhase`, `NetPhase`, `LifePhase`, `DiskPhase`: a raw terminal has its guard and is still
  to be dropped; interface and disks are gone once `main` is at Release or past it; a VM that
  has run is Stopped only there.  `Gone` is the one point that `main` alone does not tell:
  `Drop for Server` runs before the `Vmm` is dropped if `Server::bind` fails, without a listener if
  the thread was not spawned and with it if the file's mode was not set, and after it otherwise.  A signal kills only a command without a guard, which has written nothing.
* `SocketPhase`: whose file the path names, and that the server's identity is right unless the file was
  replaced in one of the two windows.
* `LocksExclude`: two disks on one file, or a disk and another process, only with shared locks.
* `QueuesKept`, `ClientsKept`, `AnswersKept`: nobody is in backlog or request queue twice, a client
  that waits is in the backlog or has a thread, and threads are there only while the server's is.
  Every step is one of the moves `ClientMove` of each client (`ClientStep`), and these follow.

From it `DemoTyped` (CommandTypeOK), `EverythingGivenBack` (Restored) and `AnswersAreHonest` (RepliesHonest).

Each invariant was an INVARIANT of a TLC run on the bounds of section 3 before it was proved.

Every invariant and action property of the passing runs is stated by a theorem.  Only
model-checked are liveness under fairness and what needs ENABLED, which are out of the prover's
reach: CallsReturn, NoticesSeen, NotifiedAnswered, CpusProgress, MemoryProgress, NetProgress,
CommandProgress, and of LifecycleRefinement the fairness of VmLifecycle (its safety is `LifecycleImplemented`).

## 6. A finding

`unrun_drop`: `VmControl::dropped` reads the lifecycle under the lock and acts on it after
releasing it (`src/src/control.rs:264`).  If a `Vmm` that was never run is dropped by a panicking
thread, a `stop()` in between makes the VM Stopped and returns Ok; `dropped` then saves
`VmmThreadPanicked` as the cleanup result, and the next `stop()` returns CleanupFailed.  The
comment at `src/src/control.rs:155` says "Repeated calls return the saved cleanup result."
`SavedResultFixed`, which excludes this case, holds and is proved.

## 7. Not modelled

* What is inside a qcow2 image: the format is imago's (`storage.rs` calls it).  Programs that
  ignore the advisory lock.
* The 16550 itself (`vm-superio`), serial output and the UART's interrupt level (`serial.rs`).
* What the FDT says and the PE loader does (`boot.rs`): calls of libraries.
* Error types and their wording (`error.rs`): data.
* The values register reads return (`mmio.rs`); only whether they decode is modelled.
* Hypervisor bindings (`hvf.rs`) but for mappings, VM destruction and the checks in Layout.
* Arguments and output of the demo, and its client side (`demo/src/main.rs`).

## 8. Plan

Done, in this order: the control plane with the run thread; vCPU threads; dynamic memory;
transport; interrupts; network; block; vmnet, terminal, control server, disk images and the
command that composes them; layout and decoding.

Theorems: the run thread with its clients and the refinement of VmLifecycle, vCPU threads
and the refinement of Machine, dynamic memory, transport, interrupts, block, network, layout, and
the command with all that it composes.

Open: what section 7 lists, first the UART's interrupt level, and proofs of liveness, for which a
prover with ENABLED and fairness is needed.
