------------------------------ MODULE RunThread ------------------------------
(***************************************************************************)
(* The control plane of one VM together with the thread that runs it:      *)
(* Vmm::run and Drop (src/src/lib.rs) and run, init, run_loop,             *)
(* process_memory and cleanup (src/src/runtime.rs), on top of module       *)
(* Control.  The machine follows the contract of trait VirtualMachine      *)
(* (src/src/platform/mod.rs): while it executes it may end by itself, by a *)
(* guest shutdown or a vCPU fault.  Module Cpus models what is behind it.  *)
(***************************************************************************)
EXTENDS Control

CONSTANT Regions    \* number of base RAM regions of the layout
ASSUME RegionsAssumption == Regions \in Nat

VARIABLES
  pc,         \* where the run thread is
  request,    \* the request in service, or None
  paused,     \* run_loop's local
  outcome,    \* outcome of the request in service
  result, fault, cleanup,  \* locals of run: run loop's, stop's and cleanup's error
  panicking,  \* the thread unwinds
  vm, mapped, \* Runtime: the VM and the number of base regions mapped
  vcpus,      \* the machine: None, Running, Paused, Joined
  ending,     \* the machine ended by itself: No, Clean, or Fault not yet reported
  flushed,    \* every device was flushed
  began,      \* history: run was entered
  faulted     \* history: a vCPU fault happened

locals  == <<request, paused, outcome, result, fault, cleanup, panicking>>
machine == <<vm, mapped, vcpus, ending, flushed>>
history == <<began, faulted>>
vars == <<control, pc, locals, machine, history>>

\* Program points at which platform or device code runs: it may panic, and it may
\* call the control handle.
Initialising == {"New", "Alloc", "Create", "Map", "Prepare", "Start"}
Processing   == {"Poll", "Memory", "Process", "MemResume", "Event"}
CleaningUp   == {"VmStop", "Flush", "MemStop", "Unmap", "Destroy"}
Callbacks    == Initialising \cup {"Serve"} \cup Processing \cup CleaningUp
PCs == Callbacks \cup
  {"Created", "Check", "MemStart", "Announce", "Loop", "Next", "Complete", "Reject",
   "Wait", "Cleaning", "CleanupResult", "FinishMemory", "Finish", "Unwind",
   "DropDevices", "Dropped", "DropCleanup", "Done"}

RunTypeOK ==
  /\ ControlTypeOK
  /\ pc \in PCs
  /\ request \in Callers \cup {None}
  /\ paused \in BOOLEAN
  /\ outcome \in {"Ok", "Failed"}
  /\ result \in Errors \cup {"None"}
  /\ fault \in {"None", "Fault"}
  /\ cleanup \in {"None", "Cleanup"}
  /\ panicking \in BOOLEAN
  /\ vm \in {"None", "Created", "Prepared", "Started"}
  /\ mapped \in 0..Regions
  /\ vcpus \in {"None", "Running", "Paused", "Joined"}
  /\ ending \in {"No", "Clean", "Fault"}
  /\ flushed \in BOOLEAN
  /\ began \in BOOLEAN
  /\ faulted \in BOOLEAN

Init ==
  /\ ControlInit
  /\ pc = "Created" /\ request = None /\ paused = FALSE /\ outcome = "Ok"
  /\ result = "None" /\ fault = "None" /\ cleanup = "None" /\ panicking = FALSE
  /\ vm = "None" /\ mapped = 0 /\ vcpus = "None" /\ ending = "No" /\ flushed = FALSE
  /\ began = FALSE /\ faulted = FALSE

(***************************************************************************)
(* Callers, the run thread among them, and the machine.                    *)
(***************************************************************************)
\* The run thread calls the handle only outside run or from a callback.
MayCall(c) == c = Runner => pc \in Callbacks \cup {"Created", "DropDevices", "Unwind", "Done"}

Call(c) ==
  /\ MayCall(c)
  /\ Stop(c) \/ \E op \in {"Pause", "Resume"} : Submit(c, op)
  /\ UNCHANGED <<pc, locals, machine, history>>

Return(c) ==
  /\ Receive(c) \/ StopWake(c)
  /\ UNCHANGED <<pc, locals, machine, history>>

Wake(c) == SpuriousWake(c) /\ UNCHANGED <<pc, locals, machine, history>>

GuestShutdown ==
  /\ vcpus = "Running" /\ ending = "No"
  /\ ending' = "Clean"
  /\ UNCHANGED <<control, pc, locals, vm, mapped, vcpus, flushed, history>>

\* A fault may follow a shutdown or another vCPU's fault; one is enough to lose.
\* The fault of a vCPU that could not boot may surface behind a granted pause.
VcpuFault ==
  /\ vcpus \in {"Running", "Paused"} /\ ~faulted
  /\ ending' = "Fault" /\ faulted' = TRUE
  /\ UNCHANGED <<control, pc, locals, vm, mapped, vcpus, flushed, began>>

(***************************************************************************)
(* Startup.  Step moves the run thread unless one of its own calls blocks. *)
(***************************************************************************)
Step(from, to) == call[Runner] = "Idle" /\ pc = from /\ pc' = to
Fail == result' = "Run"
SameLocals == UNCHANGED <<request, paused, outcome, fault, cleanup, panicking>>

Begin ==
  /\ \/ Step("Created", "New") /\ begin /\ began' = TRUE
     \/ /\ Step("Created", "DropDevices") /\ lifecycle # "Created"
        /\ UNCHANGED <<control, began>>
  /\ UNCHANGED <<locals, machine, faulted>>

\* The Vmm is dropped without run, possibly by a panicking thread.
DropUnrun ==
  /\ Step("Created", "DropDevices")
  /\ panicking' \in BOOLEAN
  /\ UNCHANGED <<control, request, paused, outcome, result, fault, cleanup, machine, history>>

\* Runtime::new; a failure drops the devices and skips the cleanup.
New ==
  /\ \/ Step("New", "Check") /\ UNCHANGED <<control, result>>
     \/ Step("New", "FinishMemory") /\ Fail /\ stop_memory
  /\ SameLocals /\ UNCHANGED <<machine, history>>

Check ==
  /\ Step("Check", IF Stopping THEN "Cleaning" ELSE "Alloc")
  /\ UNCHANGED <<control, locals, machine, history>>

\* init: a stop that is seen before a step skips the rest of init and is seen
\* again by the run loop; an error goes straight to the cleanup.
InitSkip(from) == Step(from, "Announce") /\ Stopping /\ UNCHANGED <<result, vm, mapped, vcpus>>
InitFail(from) == Step(from, "Cleaning") /\ Fail /\ UNCHANGED <<vm, mapped, vcpus>>
InitFrame == SameLocals /\ UNCHANGED <<control, ending, flushed, history>>

InitStage(from, to, v) ==
  /\ \/ /\ Step(from, to) /\ ~Stopping
        /\ vm' = v
        /\ vcpus' = IF v = "Started" THEN "Running" ELSE vcpus
        /\ UNCHANGED <<result, mapped>>
     \/ ~Stopping /\ InitFail(from)
     \/ InitSkip(from)
  /\ InitFrame

Alloc ==
  /\ \/ Step("Alloc", "Create") /\ UNCHANGED <<result, vm, mapped, vcpus>>
     \/ InitFail("Alloc")
  /\ InitFrame

Create == InitStage("Create", "Map", "Created")

\* MUTANT: one region too many.
Unmapped_Over == mapped <= Regions
Unmapped == mapped < Regions

Map ==
  /\ \/ /\ Unmapped
        /\ \/ /\ Step("Map", "Map") /\ ~Stopping
              /\ mapped' = mapped + 1 /\ UNCHANGED <<result, vm, vcpus>>
           \/ ~Stopping /\ InitFail("Map")
           \/ InitSkip("Map")
     \/ /\ ~Unmapped
        /\ Step("Map", "Prepare") /\ UNCHANGED <<result, vm, mapped, vcpus>>
  /\ InitFrame

Prepare == InitStage("Prepare", "Start", "Prepared")
Start   == InitStage("Start", "MemStart", "Started")

MemStart ==
  /\ Step("MemStart", "Announce") /\ start_memory
  /\ UNCHANGED <<locals, machine, history>>

Announce ==
  /\ Step("Announce", "Loop") /\ running
  /\ UNCHANGED <<locals, machine, history>>

(***************************************************************************)
(* run_loop.                                                               *)
(***************************************************************************)
Loop ==
  /\ Step("Loop", IF Stopping THEN "Cleaning" ELSE "Next")
  /\ UNCHANGED <<control, locals, machine, history>>

NextRequest ==
  /\ \/ Step("Next", "Serve") /\ next /\ request' = Head(queue)
     \/ /\ queue = <<>> /\ Step("Next", IF paused THEN "Wait" ELSE "Poll")
        /\ UNCHANGED <<control, request>>
  /\ UNCHANGED <<paused, outcome, result, fault, cleanup, panicking, machine, history>>

\* The request needs the machine: a pause of a running, a resume of a paused VM.
Effective == operation[request] = IF paused THEN "Resume" ELSE "Pause"

\* PauseOutcome::Stopping: the machine already ends and will never resume.
PauseStops == ending # "No"

\* MUTANT: the loop forgets that it is paused.
PausedAfter_Never(o) == FALSE
PausedAfter(o) == IF o = "Ok" THEN operation[request] = "Pause" ELSE paused

Served(o) == Step("Serve", "Complete") /\ outcome' = o /\ paused' = PausedAfter(o)

Serve ==
  /\ pc = "Serve"
  /\ \/ ~Effective /\ Served("Ok") /\ UNCHANGED vcpus
     \/ Effective /\ Served("Failed") /\ UNCHANGED vcpus
     \/ Effective /\ paused /\ Served("Ok") /\ vcpus' = "Running"
     \/ Effective /\ ~paused /\ ~PauseStops /\ Served("Ok") /\ vcpus' = "Paused"
     \/ /\ Effective /\ ~paused /\ PauseStops /\ Step("Serve", "Reject")
        /\ UNCHANGED <<outcome, paused, vcpus>>
  /\ UNCHANGED <<control, request, result, fault, cleanup, panicking, vm, mapped, ending,
                 flushed, history>>

Complete ==
  /\ Step("Complete", IF outcome = "Ok" THEN "Loop" ELSE "Cleaning")
  /\ complete(request, outcome)
  /\ request' = None /\ outcome' = "Ok"
  /\ result' = IF outcome = "Ok" THEN result ELSE "Run"
  /\ UNCHANGED <<paused, fault, cleanup, panicking, machine, history>>

Reject ==
  /\ Step("Reject", "Cleaning") /\ reject_stopping(request)
  /\ request' = None
  /\ UNCHANGED <<paused, outcome, result, fault, cleanup, panicking, machine, history>>

Wait ==
  /\ Runner \notin waiting
  /\ \/ Step("Wait", "Wait") /\ wait
     \/ ~MustWait /\ Step("Wait", "Loop") /\ UNCHANGED control
  /\ UNCHANGED <<locals, machine, history>>

\* One pass over serial, devices, dynamic memory and one machine event.
PassTo(from, to) == Step(from, to) /\ UNCHANGED <<result, vcpus, ending>>
PassFail(from) == Step(from, "Cleaning") /\ Fail /\ UNCHANGED <<vcpus, ending>>
Barrier(from, to, v) == Step(from, to) /\ vcpus' = v /\ UNCHANGED <<result, ending>>
PassFrame == SameLocals /\ UNCHANGED <<control, vm, mapped, flushed, history>>

Poll == (PassTo("Poll", "Memory") \/ PassFail("Poll")) /\ PassFrame

\* process_memory: only queued virtio-mem requests need the barrier.
Memory ==
  /\ \/ PassTo("Memory", "Event")
     \/ PassFail("Memory")
     \/ ~PauseStops /\ Barrier("Memory", "Process", "Paused")
     \/ PauseStops /\ PassTo("Memory", "Cleaning")
  /\ PassFrame

Process == (PassTo("Process", "MemResume") \/ PassFail("Process")) /\ PassFrame

MemResume ==
  (Barrier("MemResume", "Event", "Running") \/ PassFail("MemResume")) /\ PassFrame

\* poll_event and handle_io: an ending machine reports Shutdown or its fault;
\* accesses queued before that are still handled.
Event ==
  /\ \/ PassTo("Event", "Loop")
     \/ PassFail("Event")
     \/ ending # "No" /\ PassTo("Event", "Cleaning")
     \/ /\ ending = "Fault" /\ Step("Event", "Cleaning")
        /\ Fail /\ ending' = "Clean" /\ UNCHANGED vcpus
  /\ PassFrame

(***************************************************************************)
(* Termination: run after the loop, finish, and Vmm's Drop.                *)
(***************************************************************************)
Cleaning ==
  /\ Step("Cleaning", "VmStop") /\ cleaning
  /\ UNCHANGED <<locals, machine, history>>

\* cleanup: every step runs; the first error of the steps after stop is kept.
CleanupFrame == UNCHANGED <<request, paused, outcome, result, panicking, mapped, ending, history>>
MayFail == UNCHANGED cleanup \/ cleanup' = "Cleanup"

Joined == IF vcpus = "None" THEN "None" ELSE "Joined"

\* MUTANT: stop joins the vCPUs but does not drain their faults.
StopFault_Lost == "None"
StopFault == IF ending = "Fault" THEN "Fault" ELSE "None"

VmStop ==
  /\ Step("VmStop", "Flush")
  /\ vcpus' = Joined /\ fault' = StopFault
  /\ CleanupFrame /\ UNCHANGED <<control, cleanup, vm, flushed>>

Flush ==
  /\ Step("Flush", IF vm = "None" THEN "Destroy" ELSE "MemStop")
  /\ flushed' = TRUE /\ MayFail
  /\ CleanupFrame /\ UNCHANGED <<control, fault, vm, vcpus>>

MemStop ==
  /\ Step("MemStop", "Unmap") /\ stop_memory /\ MayFail
  /\ CleanupFrame /\ UNCHANGED <<fault, vm, vcpus, flushed>>

Unmap ==
  /\ Step("Unmap", "Destroy")
  /\ UNCHANGED cleanup \/ (mapped > 0 /\ MayFail)
  /\ CleanupFrame /\ UNCHANGED <<control, fault, vm, vcpus, flushed>>

\* The VM, base RAM and the devices are dropped, VirtioMem among them.
Destroy ==
  /\ Step("Destroy", "CleanupResult") /\ stop_memory
  /\ vm' = "None"
  /\ CleanupFrame /\ UNCHANGED <<cleanup, fault, vcpus, flushed>>

First(a, b) == IF a # "None" THEN a ELSE b

CleanupResult ==
  /\ Step("CleanupResult", "FinishMemory") /\ cleanup_result(cleanup)
  /\ result' = First(result, First(fault, cleanup))
  /\ SameLocals /\ UNCHANGED <<machine, history>>

FinishMemory ==
  /\ Step("FinishMemory", "Finish") /\ stop_memory
  /\ UNCHANGED <<locals, machine, history>>

Finish ==
  /\ Step("Finish", "Dropped") /\ finish(result)
  /\ UNCHANGED <<locals, machine, history>>

\* A panic in platform or device code drops the request in service.
Panic ==
  /\ \E p \in Callbacks : Step(p, "Unwind")
  /\ panicking' = TRUE
  /\ disconnect(request) /\ request' = None
  /\ UNCHANGED <<paused, outcome, result, fault, cleanup, machine, history>>

\* MUTANT: an unwinding thread leaks the machine.
Unwind_Leak ==
  /\ Step("Unwind", "Dropped") /\ stop_memory
  /\ UNCHANGED <<locals, machine, history>>
\* Runtime's fields drop: the VM first (Vm::drop stops it), then the devices.
Unwind ==
  /\ Step("Unwind", "Dropped") /\ stop_memory
  /\ vcpus' = Joined /\ vm' = "None"
  /\ UNCHANGED <<locals, mapped, ending, flushed, history>>

DropDevices ==
  /\ Step("DropDevices", "Dropped") /\ stop_memory
  /\ UNCHANGED <<locals, machine, history>>

\* dropped: the status is read under the lock and acted on after it.
Dropped ==
  /\ \/ lifecycle = "Stopped" /\ Step("Dropped", "Done") /\ UNCHANGED result
     \/ /\ lifecycle # "Stopped" /\ panicking
        /\ Step("Dropped", "DropCleanup") /\ result' = "Panic"
     \/ /\ lifecycle # "Stopped" /\ ~panicking
        /\ Step("Dropped", "FinishMemory") /\ result' = "None"
  /\ SameLocals /\ UNCHANGED <<control, machine, history>>

DropCleanup ==
  /\ Step("DropCleanup", "FinishMemory") /\ cleanup_result("Panic")
  /\ UNCHANGED <<locals, machine, history>>

(***************************************************************************)
(* The system.                                                             *)
(***************************************************************************)
\* What the run thread does by itself once run was called or the Vmm dropped.
RunnerStep ==
  \/ New \/ Check \/ Alloc \/ Create \/ Map \/ Prepare \/ Start \/ MemStart \/ Announce
  \/ Loop \/ NextRequest \/ Serve \/ Complete \/ Reject \/ Wait
  \/ Poll \/ Memory \/ Process \/ MemResume \/ Event
  \/ Cleaning \/ VmStop \/ Flush \/ MemStop \/ Unmap \/ Destroy \/ CleanupResult
  \/ FinishMemory \/ Finish \/ Unwind \/ DropDevices \/ Dropped \/ DropCleanup

Next ==
  \/ Begin \/ DropUnrun \/ Panic \/ RunnerStep
  \/ GuestShutdown \/ VcpuFault
  \/ \E c \in Callers : Call(c) \/ Return(c) \/ Wake(c)

\* Threads are scheduled; nobody is obliged to call run, pause, resume or stop.
Fairness ==
  /\ WF_vars(RunnerStep)
  /\ \A c \in Callers : WF_vars(Return(c))

Spec == Init /\ [][Next]_vars /\ Fairness

(***************************************************************************)
(* Correctness.                                                            *)
(***************************************************************************)
\* An accepted pause or resume is in exactly one place: once in the queue, or in
\* service, or answered.  So no request is lost when a stop, a guest shutdown, an
\* error or a panic overtakes it (submit, next, complete, cancel), and none is
\* answered twice.
RequestsAccounted ==
  /\ \A i, j \in 1..Len(queue) : queue[i] = queue[j] => i = j
  /\ \A c \in Callers :
       /\ c \in Queued => call[c] = "Reply" /\ request # c /\ reply[c] = "None"
       /\ c = request => call[c] = "Reply" /\ reply[c] = "None"
       /\ call[c] = "Reply" => c \in Queued \/ c = request \/ reply[c] # "None"

\* Requests are queued only while the run loop will still look at the queue or
\* cancel it: a VM that is stopping or stopped strands nobody in submit.
QueueServed == queue # <<>> => lifecycle \in {"Running", "Paused"}

\* A thread asleep on the condition variable has a reason to sleep: wait() sleeps
\* only over an empty queue of a paused VM, stop() only until Stopped, although
\* complete, cleaning and cleanup_result change the state without notifying.
NoLostWakeup ==
  \A t \in waiting :
    IF call[t] = "Stopped" THEN lifecycle # "Stopped" ELSE t = Runner /\ MustWait

\* Nobody waits for an answer that cannot come: a request is in the queue or in
\* service exactly as long as its caller waits, never in the queue of a VM that
\* stops, and never while the thread that would serve it sleeps.
RequestsServed == RequestsAccounted /\ QueueServed /\ NoLostWakeup

\* "Wait until all vCPUs and device processing are paused" (pause): while the
\* status is Paused no vCPU executes and no device is processed, except that a
\* resume in service releases the vCPUs just before it changes the status.
PausedIsQuiet ==
  lifecycle = "Paused" =>
    /\ vcpus \in {"Paused", "Joined"} \/ (pc = "Complete" /\ operation[request] = "Resume")
    /\ pc \notin Processing

\* The run loop and process_memory unwrap the VM.  init's early returns on a stop
\* leave it absent or not started, and only the stickiness of Stopping keeps the
\* loop from touching it.
LoopHasMachine == pc \in {"Serve"} \cup Processing => vm = "Started"

\* What stop() waited for: once a VM that was run is Stopped its vCPUs are joined,
\* its machine is destroyed and its memory stopped, and its disks were flushed if
\* the guest ever ran, unless the cleanup result says otherwise.
StoppedIsGone ==
  lifecycle = "Stopped" =>
    /\ memory = "Stopped"
    /\ began => vm = "None" /\ vcpus \in {"None", "Joined"}
    /\ began /\ vcpus = "Joined" /\ cleanupError = "None" => flushed

\* The run thread always knows what it holds: a started machine in its loop,
\* nothing at all once it reports Stopped.
MachineTracked == LoopHasMachine /\ StoppedIsGone

\* No failure is swallowed: a vCPU fault or a cleanup error of a finished run shows
\* in final_error, whatever the run thread was doing when it happened.
FailureReported ==
  lifecycle = "Stopped" /\ began /\ (faulted \/ cleanupError # "None") => finalError # "None"

\* "Repeated calls return the saved cleanup result" (stop): for a VM that was run,
\* the result stop() reads is fixed once the VM is Stopped.
SavedResultFixed == [][lifecycle = "Stopped" /\ began => cleanupError' = cleanupError]_vars

\* The same of every VM, run or not.
SavedResultAlwaysFixed == [][lifecycle = "Stopped" => cleanupError' = cleanupError]_vars

\* Stopped memory never runs again, so a stopped VM keeps rejecting targets, although
\* VirtioMem::start assigns Running without looking.
MemoryStaysStopped == [][memory = "Stopped" => memory' = "Stopped"]_vars

\* The end of a VM is final: neither the saved result nor the memory lifecycle
\* changes any more.
EndIsFinal == SavedResultFixed /\ MemoryStaysStopped

\* Every call returns: a pause or resume is answered and a stop ends, whoever else
\* calls and however the VM ends; a device callback that calls the handle is refused
\* instead of waiting for its own thread.
CallsReturn == \A c \in Callers : call[c] # "Idle" ~> call[c] = "Idle"

\* The control plane implements the life of a VM (module VmLifecycle).
Abstract == INSTANCE VmLifecycle WITH life <- lifecycle
LifecycleRefinement == Abstract!Spec
==============================================================================
