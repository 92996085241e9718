--------------------------- MODULE RunThreadProofs ---------------------------
(***************************************************************************)
(* Theorems about module RunThread, for any set of clients and any number  *)
(* of base RAM regions.                                                    *)
(***************************************************************************)
EXTENDS RunThread, TLAPS

USE ThreadAssumption, RegionsAssumption DEF Callers, Errors, Replies, Stopping

\* The Boolean variables, and the type invariant in two halves.
flags == <<paused, panicking, flushed, began, faulted>>

FlagsOK ==
  /\ paused \in BOOLEAN /\ panicking \in BOOLEAN /\ flushed \in BOOLEAN
  /\ began \in BOOLEAN /\ faulted \in BOOLEAN

DataOK ==
  /\ ControlTypeOK
  /\ pc \in PCs
  /\ request \in Callers \cup {None}
  /\ outcome \in {"Ok", "Failed"}
  /\ result \in Errors \cup {"None"}
  /\ fault \in {"None", "Fault"}
  /\ cleanup \in {"None", "Cleanup"}
  /\ vm \in {"None", "Created", "Prepared", "Started"}
  /\ mapped \in 0..Regions
  /\ vcpus \in {"None", "Running", "Paused", "Joined"}
  /\ ending \in {"No", "Clean", "Fault"}

\* The state a VmControl and its Vmm start in is typed.
LEMMA InitTyped == Init => RunTypeOK
<1> SUFFICES ASSUME Init PROVE RunTypeOK
  OBVIOUS
<1>1. ControlTypeOK
  BY DEF Init, ControlInit, ControlTypeOK
<1>2. FlagsOK
  BY Zenon DEF Init, FlagsOK
<1>3. DataOK
  BY <1>1 DEF Init, DataOK, PCs
<1> QED
  BY <1>2, <1>3, Zenon DEF RunTypeOK, FlagsOK, DataOK

\* The run thread keeps every type while it begins and initialises.
LEMMA StartTyped ==
  ASSUME RunTypeOK, Begin \/ DropUnrun \/ New \/ Check \/ Alloc \/ Create \/ Map \/ Prepare
                 \/ Start \/ MemStart \/ Announce
  PROVE  DataOK'
<1> USE DEF RunTypeOK, DataOK, ControlTypeOK, PCs, Callbacks, Initialising, Processing, CleaningUp,
            locals, machine, history, callers, errors, control, Step, SameLocals, Fail
<1>1. ASSUME Begin PROVE DataOK'
  BY <1>1 DEF Begin, begin
<1>2. ASSUME DropUnrun PROVE DataOK'
  BY <1>2 DEF DropUnrun
<1>3. ASSUME New PROVE DataOK'
  BY <1>3 DEF New, stop_memory
<1>4. ASSUME Check \/ Alloc PROVE DataOK'
  BY <1>4 DEF Check, Alloc, InitFail, InitFrame
<1>5. ASSUME Create \/ Prepare \/ Start PROVE DataOK'
  BY <1>5 DEF Create, Prepare, Start, InitStage, InitFail, InitSkip, InitFrame
<1>6. ASSUME Map PROVE DataOK'
  BY <1>6 DEF Map, Unmapped, InitFail, InitSkip, InitFrame
<1>7. ASSUME MemStart \/ Announce PROVE DataOK'
  BY <1>7 DEF MemStart, Announce, start_memory, running, Announced
<1> QED
  BY <1>1, <1>2, <1>3, <1>4, <1>5, <1>6, <1>7

\* The replies of a cancelled queue are replies.
LEMMA CancelTyped ==
  ASSUME ControlTypeOK PROVE Cancelled \in [Callers -> Replies \cup {"None"}]
BY DEF ControlTypeOK, Cancelled

\* The run loop keeps every type.
LEMMA LoopTyped ==
  ASSUME RunTypeOK, Loop \/ NextRequest \/ Serve \/ Complete \/ Reject \/ Wait
                 \/ Poll \/ Memory \/ Process \/ MemResume \/ Event
  PROVE  DataOK'
<1> USE DEF RunTypeOK, DataOK, ControlTypeOK, PCs, Callbacks, Initialising, Processing, CleaningUp,
            locals, machine, history, callers, errors, control, Step, SameLocals, Fail
<1>1. ASSUME Loop \/ NextRequest PROVE DataOK'
  <2>1. CASE Loop
    BY <2>1 DEF Loop
  <2>2. CASE NextRequest /\ queue = <<>>
    BY <2>2 DEF NextRequest, next
  <2>3. CASE NextRequest /\ queue # <<>>
    <3>1. Head(queue) \in Callers /\ Tail(queue) \in Seq(Callers)
      BY <2>3
    <3>2. queue' \in Seq(Callers) /\ request' \in Callers \cup {None} /\ pc' = "Serve"
      BY <2>3, <3>1 DEF NextRequest, next
    <3>3. /\ UNCHANGED <<lifecycle, owner, errors, waiting, memory, callers>>
          /\ UNCHANGED <<outcome, result, fault, cleanup, machine>>
      BY <2>3 DEF NextRequest, next
    <3> QED
      BY <3>2, <3>3
  <2> QED
    BY <1>1, <2>1, <2>2, <2>3
<1>2. ASSUME Serve PROVE DataOK'
  BY <1>2 DEF Serve, Served
<1>3. ASSUME Complete PROVE DataOK'
  <2>1. Completed(request, outcome) \in
          {"Created", "Starting", "Running", "Paused", "Stopping", "Stopped"}
    BY DEF Completed
  <2>2. [reply EXCEPT ![request] = outcome] \in [Callers -> Replies \cup {"None"}]
    OBVIOUS
  <2> QED
    BY <1>3, <2>1, <2>2 DEF Complete, complete
<1>4. ASSUME Reject PROVE DataOK'
  <2>1. [Cancelled EXCEPT ![request] = "Stopping"] \in [Callers -> Replies \cup {"None"}]
    BY CancelTyped
  <2> QED
    BY <1>4, <2>1 DEF Reject, reject_stopping
<1>5. ASSUME Wait PROVE DataOK'
  BY <1>5 DEF Wait, wait
<1>6. ASSUME Poll \/ Memory \/ Process \/ MemResume \/ Event PROVE DataOK'
  BY <1>6 DEF Poll, Memory, Process, MemResume, Event, PassTo, PassFail, Barrier, PassFrame
<1> QED
  BY <1>1, <1>2, <1>3, <1>4, <1>5, <1>6

\* So do cleanup, finish and the drop of the Vmm.
LEMMA EndTyped ==
  ASSUME RunTypeOK, Cleaning \/ VmStop \/ Flush \/ MemStop \/ Unmap \/ Destroy \/ CleanupResult
                 \/ FinishMemory \/ Finish \/ Panic \/ Unwind \/ DropDevices \/ Dropped
                 \/ DropCleanup
  PROVE  DataOK'
<1> USE DEF RunTypeOK, DataOK, ControlTypeOK, PCs, Callbacks, Initialising, Processing, CleaningUp,
            locals, machine, history, callers, errors, control, Step, SameLocals
<1>1. ASSUME Cleaning PROVE DataOK'
  BY <1>1 DEF Cleaning, cleaning, Cancel, Cancelled
<1>2. ASSUME VmStop \/ Flush \/ Unmap PROVE DataOK'
  BY <1>2 DEF VmStop, Flush, Unmap, CleanupFrame, MayFail, Joined, StopFault
<1>3. ASSUME MemStop \/ Destroy \/ FinishMemory \/ Unwind \/ DropDevices PROVE DataOK'
  BY <1>3 DEF MemStop, Destroy, FinishMemory, Unwind, DropDevices, CleanupFrame, MayFail, Joined,
              stop_memory
<1>4. ASSUME CleanupResult \/ DropCleanup PROVE DataOK'
  BY <1>4 DEF CleanupResult, DropCleanup, cleanup_result, First
<1>5. ASSUME Finish PROVE DataOK'
  BY <1>5 DEF Finish, finish, Cancel, Cancelled
<1>6. ASSUME Panic PROVE DataOK'
  BY <1>6 DEF Panic, disconnect
<1>7. ASSUME Dropped PROVE DataOK'
  BY <1>7 DEF Dropped
<1> QED
  BY <1>1, <1>2, <1>3, <1>4, <1>5, <1>6, <1>7

\* So do the callers of the handle.
LEMMA CallerTyped ==
  ASSUME RunTypeOK, NEW c \in Callers,
         Call(c) \/ Return(c) \/ Wake(c) \/ GuestShutdown \/ VcpuFault
  PROVE  DataOK'
<1> USE DEF RunTypeOK, DataOK, ControlTypeOK, locals, machine, history, callers, errors, control
<1>1. ASSUME Stop(c), UNCHANGED <<pc, locals, machine, history>> PROVE DataOK'
  <2>1. lifecycle' \in {"Created", "Starting", "Running", "Paused", "Stopping", "Stopped"}
        /\ memory' \in {"Created", "Running", "Stopped"}
    BY <1>1 DEF Stop, StopTarget, MemoryAfterStop
  <2>2. waiting' \in SUBSET Callers /\ call' \in [Callers -> {"Idle", "Reply", "Stopped"}]
    BY <1>1 DEF Stop
  <2>3. queue' \in Seq(Callers) /\ reply' \in [Callers -> Replies \cup {"None"}]
    <3>1. queue' \in {queue, <<>>} /\ reply' \in {reply, Cancelled}
      BY <1>1, Zenon DEF Stop, Cancel
    <3>2. queue \in Seq(Callers) /\ <<>> \in Seq(Callers)
      OBVIOUS
    <3> QED
      BY <3>1, <3>2, CancelTyped
  <2> QED
    BY <1>1, <2>1, <2>2, <2>3 DEF Stop
<1>2. ASSUME NEW op \in {"Pause", "Resume"}, Submit(c, op), UNCHANGED <<pc, locals, machine, history>>
      PROVE DataOK'
  <2>1. CASE UNCHANGED <<queue, waiting, call, operation>>
    BY <1>2, <2>1 DEF Submit
  <2>2. CASE /\ queue' = Append(queue, c) /\ waiting' = {}
             /\ call' = [call EXCEPT ![c] = "Reply"] /\ operation' = [operation EXCEPT ![c] = op]
    <3>1. queue' \in Seq(Callers)
      BY <2>2
    <3>2. call' \in [Callers -> {"Idle", "Reply", "Stopped"}]
          /\ operation' \in [Callers -> {"None", "Pause", "Resume"}]
      BY <1>2, <2>2
    <3> QED
      BY <1>2, <2>2, <3>1, <3>2 DEF Submit
  <2> QED
    BY <1>2, <2>1, <2>2, Zenon DEF Submit, Woken
<1>3. ASSUME Return(c) \/ Wake(c) PROVE DataOK'
  BY <1>3 DEF Return, Wake, Receive, StopWake, SpuriousWake
<1>4. ASSUME GuestShutdown \/ VcpuFault PROVE DataOK'
  BY <1>4 DEF GuestShutdown, VcpuFault
<1> QED
  BY <1>1, <1>2, <1>3, <1>4 DEF Call

\* The Boolean variables, apart from the rest for the sake of the provers.
LEMMA FlagsTyped ==
  ASSUME FlagsOK, Next
  PROVE  FlagsOK'
<1> USE DEF flags, locals, machine, history, SameLocals
<1>1. ASSUME UNCHANGED flags PROVE FlagsOK'
  BY <1>1, Zenon DEF FlagsOK
<1>2. CASE Begin
  <2>1. UNCHANGED <<paused, panicking, flushed, faulted>> /\ (began' = TRUE \/ began' = began)
    BY <1>2 DEF Begin
  <2> QED
    BY <2>1, Zenon DEF FlagsOK
<1>3. CASE DropUnrun
  <2>1. UNCHANGED <<paused, flushed, began, faulted>> /\ panicking' \in BOOLEAN
    BY <1>3 DEF DropUnrun
  <2> QED
    BY <2>1, Zenon DEF FlagsOK
<1>4. CASE Serve
  <2>1. UNCHANGED <<panicking, flushed, began, faulted>>
    BY <1>4 DEF Serve
  <2>2. paused' \in BOOLEAN
    BY <1>4, Zenon DEF Serve, Served, PausedAfter, FlagsOK
  <2> QED
    BY <2>1, <2>2, Zenon DEF FlagsOK
<1>5. CASE Flush
  <2>1. UNCHANGED <<paused, panicking, began, faulted>> /\ flushed' = TRUE
    BY <1>5 DEF Flush, CleanupFrame
  <2> QED
    BY <2>1, Zenon DEF FlagsOK
<1>6. CASE Panic
  <2>1. UNCHANGED <<paused, flushed, began, faulted>> /\ panicking' = TRUE
    BY <1>6 DEF Panic
  <2> QED
    BY <2>1, Zenon DEF FlagsOK
<1>7. CASE VcpuFault
  <2>1. UNCHANGED <<paused, panicking, flushed, began>> /\ faulted' = TRUE
    BY <1>7 DEF VcpuFault
  <2> QED
    BY <2>1, Zenon DEF FlagsOK
<1>8. CASE RunnerStep /\ ~Serve /\ ~Flush
  <2>1. CASE New \/ Check \/ Alloc \/ Create \/ Map \/ Prepare \/ Start \/ MemStart \/ Announce
    BY <1>1, <2>1 DEF New, Check, Alloc, Create, Map, Prepare, Start, MemStart, Announce, InitStage,
                 InitSkip, InitFail, InitFrame
  <2>2. CASE Loop \/ NextRequest \/ Complete \/ Reject \/ Wait
             \/ Poll \/ Memory \/ Process \/ MemResume \/ Event
    BY <1>1, <2>2 DEF Loop, NextRequest, Complete, Reject, Wait, Poll, Memory, Process, MemResume,
                 Event, PassFrame
  <2>3. CASE Cleaning \/ VmStop \/ MemStop \/ Unmap \/ Destroy \/ CleanupResult
             \/ FinishMemory \/ Finish \/ Unwind \/ DropDevices \/ Dropped \/ DropCleanup
    BY <1>1, <2>3 DEF Cleaning, VmStop, MemStop, Unmap, Destroy, CleanupResult, FinishMemory, Finish,
                 Unwind, DropDevices, Dropped, DropCleanup, CleanupFrame
  <2> QED
    BY <1>8, <2>1, <2>2, <2>3 DEF RunnerStep
<1>9. CASE GuestShutdown \/ \E c \in Callers : Call(c) \/ Return(c) \/ Wake(c)
  BY <1>1, <1>9 DEF GuestShutdown, Call, Return, Wake
<1> QED
  BY <1>2, <1>3, <1>4, <1>5, <1>6, <1>7, <1>8, <1>9 DEF Next

\* Type correctness of every variable the control plane and the run thread share.
THEOREM TypeCorrect == Spec => []RunTypeOK
<1>1. RunTypeOK /\ [Next]_vars => RunTypeOK'
  <2> SUFFICES ASSUME RunTypeOK, [Next]_vars PROVE RunTypeOK'
    OBVIOUS
  <2>1. CASE UNCHANGED vars
    BY <2>1 DEF RunTypeOK, ControlTypeOK, vars, control, errors, callers, locals, machine, history
  <2>2. CASE Next
    <3>1. DataOK'
      BY <2>2, StartTyped, LoopTyped, EndTyped, CallerTyped DEF Next, RunnerStep
    <3>2. FlagsOK'
      BY <2>2, FlagsTyped DEF RunTypeOK, FlagsOK
    <3> QED
      BY <3>1, <3>2, Zenon DEF RunTypeOK, FlagsOK, DataOK
  <2> QED
    BY <2>1, <2>2
<1> QED
  BY <1>1, InitTyped, PTL DEF Spec

(***************************************************************************)
(* The phases of the run thread.                                           *)
(***************************************************************************)
StartPCs == Initialising \cup {"Check", "MemStart", "Announce"}
LoopPCs  == {"Loop", "Next", "Serve", "Complete", "Reject", "Wait"} \cup Processing
EndPCs   == {"FinishMemory", "Finish", "Dropped", "DropCleanup", "Done"}

\* Where the run thread can be for each lifecycle, owner and queue of the shared state.
Phase ==
  /\ ~began => /\ pc \in {"Created", "DropDevices"} \cup EndPCs
               /\ lifecycle \in {"Created", "Stopped"} /\ owner = None
  /\ began => pc \notin {"Created", "DropDevices"} /\ lifecycle # "Created"
  /\ began /\ lifecycle # "Stopped" => owner = Runner
  /\ began /\ lifecycle = "Stopped" => pc \in {"Dropped", "Done"} /\ owner = None
  /\ pc \in StartPCs => lifecycle \in {"Starting", "Stopping"}
  /\ pc \in LoopPCs => lifecycle \in {"Running", "Paused", "Stopping"}
  /\ pc \in CleaningUp \cup {"CleanupResult"} => Stopping
  /\ pc = "Done" => lifecycle = "Stopped"
  /\ call[Runner] = "Idle"
  /\ QueueServed

\* What of the machine exists at each step of the run thread.
MachinePhase ==
  /\ ~began => vm = "None" /\ vcpus = "None"
  /\ pc \in {"New", "Check", "Alloc", "Create", "CleanupResult"} \cup EndPCs => vm = "None"
  /\ pc = "MemStart" => vm = "Started"
  /\ pc \in {"Announce", "Loop"} /\ ~Stopping => vm = "Started"
  /\ pc \in LoopPCs \ {"Loop"} => vm = "Started"
  /\ pc \in StartPCs \ {"MemStart", "Announce"} => vcpus = "None"
  /\ pc \in {"Flush", "MemStop", "Unmap", "Destroy", "CleanupResult"} \cup EndPCs =>
       vcpus \in {"None", "Joined"}
  /\ lifecycle = "Stopped" \/ pc \in {"Finish", "Dropped", "DropCleanup"} => memory = "Stopped"
  /\ pc \in StartPCs \ {"Announce"} \/ (pc = "Created" /\ lifecycle = "Created") =>
       memory = "Created"
  /\ pc \in {"MemStop", "Unmap", "Destroy", "CleanupResult"} => flushed
  /\ began /\ pc \in EndPCs /\ vcpus = "Joined" /\ cleanupError = "None" =>
       flushed \/ (pc \in {"Dropped", "DropCleanup"} /\ lifecycle # "Stopped")
  /\ began /\ pc \in {"Unwind", "Dropped"} /\ lifecycle # "Stopped" => panicking

\* Which errors the shared state and the result hold at each step.
ReportPhase ==
  /\ pc \notin EndPCs => cleanupError = "None"
  /\ vcpus = "None" => ~faulted
  /\ pc \notin {"Flush", "MemStop", "Unmap", "Destroy", "CleanupResult", "Unwind"} \cup EndPCs
       /\ faulted => ending = "Fault" \/ result # "None"
  /\ pc \in {"Flush", "MemStop", "Unmap", "Destroy", "CleanupResult"} /\ faulted =>
       result # "None" \/ fault # "None"
  /\ began /\ pc \in {"FinishMemory", "Finish"} /\ (faulted \/ cleanupError # "None") =>
       result # "None"
  /\ began /\ pc = "DropCleanup" => result # "None"
  /\ FailureReported

\* The inductive invariant.
Inv == Phase /\ MachinePhase /\ ReportPhase

\* It holds when the handle is created.
LEMMA InvInit == Init => Inv
BY DEF Init, ControlInit, Inv, Phase, QueueServed, MachinePhase, ReportPhase, FailureReported,
       StartPCs, LoopPCs, EndPCs, Initialising, Processing, CleaningUp

\* Beginning and initialising keep it.
LEMMA InvStart ==
  ASSUME RunTypeOK, Inv,
         Begin \/ DropUnrun \/ New \/ Check \/ Alloc \/ Create \/ Map \/ Prepare
         \/ Start \/ MemStart \/ Announce
  PROVE  Inv'
<1> USE DEF RunTypeOK, ControlTypeOK, Inv, Phase, QueueServed, MachinePhase, ReportPhase,
            StartPCs, LoopPCs, EndPCs, Initialising, Processing, CleaningUp,
            locals, machine, history, callers, errors, control, FailureReported, Step, SameLocals, Fail
<1>1. ASSUME Begin PROVE Inv'
  BY <1>1 DEF Begin, begin
<1>2. ASSUME DropUnrun PROVE Inv'
  BY <1>2 DEF DropUnrun
<1>3. ASSUME New PROVE Inv'
  BY <1>3 DEF New, stop_memory
<1>4. ASSUME Check \/ Alloc PROVE Inv'
  BY <1>4 DEF Check, Alloc, InitFail, InitFrame
<1>5. ASSUME Create \/ Prepare \/ Start PROVE Inv'
  BY <1>5 DEF Create, Prepare, Start, InitStage, InitFail, InitSkip, InitFrame
<1>6. ASSUME Map PROVE Inv'
  BY <1>6 DEF Map, InitFail, InitSkip, InitFrame
<1>7. ASSUME MemStart \/ Announce PROVE Inv'
  BY <1>7 DEF MemStart, Announce, start_memory, running, Announced
<1> QED
  BY <1>1, <1>2, <1>3, <1>4, <1>5, <1>6, <1>7

\* The run loop keeps it.
LEMMA InvLoop ==
  ASSUME RunTypeOK, Inv,
         Loop \/ NextRequest \/ Serve \/ Complete \/ Reject \/ Wait
         \/ Poll \/ Memory \/ Process \/ MemResume \/ Event
  PROVE  Inv'
<1> USE DEF RunTypeOK, ControlTypeOK, Inv, Phase, QueueServed, MachinePhase, ReportPhase,
            StartPCs, LoopPCs, EndPCs, Initialising, Processing, CleaningUp,
            locals, machine, history, callers, errors, control, FailureReported, Step, SameLocals, Fail
<1>1. ASSUME Loop \/ NextRequest PROVE Inv'
  BY <1>1 DEF Loop, NextRequest, next
<1>2. ASSUME Serve PROVE Inv'
  BY <1>2 DEF Serve, Served
<1>3. ASSUME Complete PROVE Inv'
  BY <1>3 DEF Complete, complete, Completed
<1>4. ASSUME Reject PROVE Inv'
  BY <1>4 DEF Reject, reject_stopping
<1>5. ASSUME Wait PROVE Inv'
  BY <1>5 DEF Wait, wait
<1>6. ASSUME Poll \/ Memory \/ Process \/ MemResume \/ Event PROVE Inv'
  BY <1>6 DEF Poll, Memory, Process, MemResume, Event, PassTo, PassFail, Barrier, PassFrame
<1> QED
  BY <1>1, <1>2, <1>3, <1>4, <1>5, <1>6

\* Cleanup, finish and drop keep it.
LEMMA InvEnd ==
  ASSUME RunTypeOK, Inv,
         Cleaning \/ VmStop \/ Flush \/ MemStop \/ Unmap \/ Destroy \/ CleanupResult
         \/ FinishMemory \/ Finish \/ Panic \/ Unwind \/ DropDevices \/ Dropped
         \/ DropCleanup
  PROVE  Inv'
<1> USE DEF RunTypeOK, ControlTypeOK, Inv, Phase, QueueServed, MachinePhase, ReportPhase,
            StartPCs, LoopPCs, EndPCs, Initialising, Processing, CleaningUp,
            locals, machine, history, callers, errors, control, FailureReported, Step, SameLocals, Fail
<1>1. ASSUME Cleaning PROVE Inv'
  BY <1>1 DEF Cleaning, cleaning, Cancel
<1>2. ASSUME VmStop \/ Flush \/ Unmap PROVE Inv'
  BY <1>2 DEF VmStop, Flush, Unmap, CleanupFrame, MayFail, Joined, StopFault
<1>3. ASSUME MemStop \/ Destroy \/ FinishMemory \/ Unwind \/ DropDevices PROVE Inv'
  BY <1>3 DEF MemStop, Destroy, FinishMemory, Unwind, DropDevices,
              CleanupFrame, MayFail, Joined, stop_memory
<1>4. ASSUME CleanupResult \/ DropCleanup PROVE Inv'
  BY <1>4 DEF CleanupResult, DropCleanup, cleanup_result, First
<1>5. ASSUME Finish PROVE Inv'
  BY <1>5 DEF Finish, finish, Cancel
<1>6. ASSUME Panic PROVE Inv'
  BY <1>6 DEF Panic, disconnect, Callbacks
<1>7. ASSUME Dropped PROVE Inv'
  BY <1>7 DEF Dropped
<1> QED
  BY <1>1, <1>2, <1>3, <1>4, <1>5, <1>6, <1>7

\* Pause, resume and stop from any thread keep it.
LEMMA InvCaller ==
  ASSUME RunTypeOK, Inv, NEW c \in Callers,
         Call(c) \/ Return(c) \/ Wake(c) \/ GuestShutdown \/ VcpuFault
  PROVE  Inv'
<1> USE DEF RunTypeOK, ControlTypeOK, Inv, Phase, QueueServed, MachinePhase, ReportPhase,
            StartPCs, LoopPCs, EndPCs, Initialising, Processing, CleaningUp,
            locals, machine, history, callers, errors, control, FailureReported
<1>1. ASSUME Stop(c), UNCHANGED <<pc, locals, machine, history>> PROVE Inv'
  BY <1>1 DEF Stop, Cancel, StopTarget, MemoryAfterStop, IsOwner
<1>2. ASSUME NEW op \in {"Pause", "Resume"}, Submit(c, op), UNCHANGED <<pc, locals, machine, history>>
      PROVE Inv'
  BY <1>2 DEF Submit, IsOwner, Accepting
<1>3. ASSUME Return(c) \/ Wake(c) PROVE Inv'
  BY <1>3 DEF Return, Wake, Receive, StopWake, SpuriousWake
<1>4. ASSUME GuestShutdown \/ VcpuFault PROVE Inv'
  BY <1>4 DEF GuestShutdown, VcpuFault
<1> QED
  BY <1>1, <1>2, <1>3, <1>4 DEF Call


\* The conjunction is inductive.
THEOREM Invariant == Spec => [](RunTypeOK /\ Inv)
<1>1. RunTypeOK /\ Inv /\ [Next]_vars => Inv'
  <2> SUFFICES ASSUME RunTypeOK, Inv, [Next]_vars PROVE Inv'
    OBVIOUS
  <2>1. CASE UNCHANGED vars
    BY <2>1 DEF Inv, Phase, QueueServed, MachinePhase, ReportPhase, FailureReported, vars, control,
                errors, callers, locals, machine, history
  <2>2. CASE Next
    BY <2>2, InvStart, InvLoop, InvEnd, InvCaller DEF Next, RunnerStep
  <2> QED
    BY <2>1, <2>2
<1> QED
  BY <1>1, InvInit, TypeCorrect, PTL DEF Spec

\* control.rs: a request is queued only while the run thread will still serve or
\* cancel it, so no caller of pause or resume is left waiting.
THEOREM StrandsNobody == Spec => []QueueServed
<1>1. Inv => QueueServed
  BY DEF Inv, Phase
<1> QED
  BY <1>1, Invariant, PTL

\* runtime.rs: the loop and everything it calls find self.vm, which they unwrap,
\* created and its vCPUs started; control.rs finish: a caller that sees Stopped sees
\* a VM whose vCPUs are joined, whose machine is destroyed and whose disks were
\* flushed, or the saved cleanup result says otherwise.
THEOREM MachineTruth == Spec => []MachineTracked
<1>1. Inv => LoopHasMachine
  BY DEF Inv, MachinePhase, LoopHasMachine, LoopPCs, Processing
<1>2. Inv => StoppedIsGone
  BY DEF Inv, Phase, MachinePhase, StoppedIsGone, EndPCs
<1>3. Inv => MachineTracked
  BY <1>1, <1>2 DEF MachineTracked
<1> QED
  BY <1>3, Invariant, PTL

\* runtime.rs cleanup, control.rs finish: a fault or a cleanup error of a VM that
\* ran is in the final error.
THEOREM NoFailureSwallowed == Spec => []FailureReported
<1>1. Inv => FailureReported
  BY DEF Inv, ReportPhase
<1> QED
  BY <1>1, Invariant, PTL

\* control.rs finish and dropped: once a VM that was run is Stopped, the cleanup
\* result that stop returns never changes.
THEOREM ResultFixed == Spec => SavedResultFixed
<1>1. ASSUME RunTypeOK, Inv, [Next]_vars, lifecycle = "Stopped", began
      PROVE  cleanupError' = cleanupError
  <2> USE DEF locals, machine, history, callers, errors, control, Step
  <2>1. pc \in {"Dropped", "Done"}
    BY <1>1 DEF Inv, Phase
  <2>2. CASE UNCHANGED vars
    BY <2>2 DEF vars
  <2>3. CASE Dropped
    BY <2>3 DEF Dropped
  <2>4. CASE \E c \in Callers : Call(c) \/ Return(c) \/ Wake(c)
    BY <2>4 DEF Call, Return, Wake, Submit, Stop, Receive, StopWake, SpuriousWake
  <2>5. CASE GuestShutdown \/ VcpuFault
    BY <2>5 DEF GuestShutdown, VcpuFault
  <2>6. ~Begin /\ ~DropUnrun /\ ~Panic
    BY <2>1 DEF Begin, DropUnrun, Panic, Callbacks, Initialising, Processing, CleaningUp
  <2>7. RunnerStep => Dropped
    BY <2>1 DEF RunnerStep, New, Check, Alloc, Create, Map, Prepare, Start, MemStart, Announce,
                InitStage, InitSkip, InitFail, Loop, NextRequest, Serve, Served, Complete, Reject,
                Wait, Poll, Memory, Process, MemResume, Event, PassTo, PassFail, Barrier, Cleaning,
                VmStop, Flush, MemStop, Unmap, Destroy, CleanupResult, FinishMemory, Finish, Unwind,
                DropDevices, DropCleanup
  <2> QED
    BY <1>1, <2>2, <2>3, <2>4, <2>5, <2>6, <2>7 DEF Next
<1> QED
  BY <1>1, Invariant, PTL DEF Spec, SavedResultFixed

\* memory.rs start and stop: a memory device that has stopped accepts targets no
\* more, whatever the order of start, stop and drop.
THEOREM MemoryStops == Spec => MemoryStaysStopped
<1>1. ASSUME RunTypeOK, Inv, [Next]_vars, memory = "Stopped"
      PROVE  memory' = "Stopped"
  <2> USE <1>1 DEF locals, machine, history, callers, errors, control, Step
  <2>1. CASE MemStart
    BY <2>1 DEF MemStart, Inv, MachinePhase, StartPCs, Initialising
  <2>2. CASE UNCHANGED vars
    BY <2>2 DEF vars
  <2>3. CASE \E c \in Callers : Call(c) \/ Return(c) \/ Wake(c)
    BY <2>3 DEF Call, Return, Wake, Submit, Stop, MemoryAfterStop, Receive, StopWake, SpuriousWake
  <2>4. CASE GuestShutdown \/ VcpuFault
    BY <2>4 DEF GuestShutdown, VcpuFault
  <2>5. CASE Begin \/ DropUnrun \/ New \/ Check \/ Alloc \/ Create \/ Map \/ Prepare
             \/ Start \/ Announce
    BY <2>5 DEF Begin, begin, DropUnrun, New, stop_memory, Check, Alloc, Create, Map, Prepare, Start,
                InitStage, InitFrame, Announce, running
  <2>6. CASE Loop \/ NextRequest \/ Serve \/ Complete \/ Reject \/ Wait
             \/ Poll \/ Memory \/ Process \/ MemResume \/ Event
    BY <2>6 DEF Loop, NextRequest, next, Serve, Complete, complete, Reject, reject_stopping, Wait,
                wait, Poll, Memory, Process, MemResume, Event, PassFrame
  <2>7. CASE Cleaning \/ VmStop \/ Flush \/ MemStop \/ Unmap \/ Destroy \/ CleanupResult
             \/ FinishMemory \/ Finish \/ Panic \/ Unwind \/ DropDevices \/ Dropped \/ DropCleanup
    BY <2>7 DEF Cleaning, cleaning, VmStop, Flush, MemStop, Unmap, Destroy, CleanupResult,
                cleanup_result, FinishMemory, stop_memory, Finish, finish, Panic, disconnect, Unwind,
                DropDevices, Dropped, DropCleanup
  <2> QED
    BY <2>1, <2>2, <2>3, <2>4, <2>5, <2>6, <2>7 DEF Next, RunnerStep
<1> QED
  BY <1>1, Invariant, PTL DEF Spec, MemoryStaysStopped

\* control.rs and memory.rs: what a VM that was run reports when it is Stopped is
\* final, and so is the end of its memory.
THEOREM EndStays == Spec => EndIsFinal
  BY ResultFixed, MemoryStops DEF EndIsFinal

(***************************************************************************)
(* Requests, wake-ups and the pause.                                       *)
(***************************************************************************)
\* The run thread holds a request from next to complete, reject or a panic; a reply
\* is for a caller that waits for one; the run thread sleeps only in wait.
RequestPhase ==
  /\ pc \in {"Serve", "Complete", "Reject"} => request \in Callers
  /\ pc \notin {"Serve", "Complete", "Reject"} => request = None
  /\ \A c \in Callers : call[c] = "Reply" => operation[c] \in {"Pause", "Resume"}
  /\ \A c \in Callers : reply[c] # "None" => call[c] = "Reply"
  /\ Runner \in waiting => pc = "Wait"

\* run_loop's local, the status and the barrier move together, but for the request
\* that is about to be completed and for a stop that has overtaken it.
PausePhase ==
  /\ pc \in StartPCs \cup {"Created"} => ~paused
  /\ pc \in {"Loop", "Next", "Serve", "Wait"} \cup Processing /\ ~Stopping =>
       (paused <=> lifecycle = "Paused")
  /\ pc \in Processing => ~paused
  /\ pc \in {"Loop", "Next", "Serve", "Wait", "Complete"} /\ paused => vcpus = "Paused"
  /\ pc = "Complete" /\ outcome = "Ok" =>
       /\ paused <=> operation[request] = "Pause"
       /\ operation[request] = "Resume" /\ lifecycle = "Paused" => vcpus = "Running"
  /\ pc = "Complete" /\ outcome = "Failed" /\ ~Stopping => (paused <=> lifecycle = "Paused")
  /\ pc = "MemStart" \/ (pc = "Announce" /\ ~Stopping) => vcpus = "Running"
  /\ pc \in LoopPCs \ {"Loop"} \/ (pc = "Loop" /\ ~Stopping) => vcpus \in {"Running", "Paused"}
  /\ PausedIsQuiet

\* The whole invariant.
FullInv == RunTypeOK /\ Inv /\ RequestPhase /\ RequestsAccounted /\ NoLostWakeup /\ PausePhase

\* The callers in a queue, and that none is in it twice.
Elements(q) == {q[i] : i \in 1..Len(q)}
Distinct(q) == \A i, j \in 1..Len(q) : q[i] = q[j] => i = j

\* submit adds one caller at the end.
LEMMA ElementsAppend ==
  ASSUME NEW q \in Seq(Callers), NEW c \in Callers, Distinct(q), c \notin Elements(q)
  PROVE  Elements(Append(q, c)) = Elements(q) \cup {c} /\ Distinct(Append(q, c))
<1> DEFINE r == Append(q, c)
<1>1. Len(r) = Len(q) + 1 /\ r[Len(q) + 1] = c /\ Len(q) \in Nat
  OBVIOUS
<1>2. \A n \in 1..Len(q) : r[n] = q[n]
  OBVIOUS
<1> HIDE DEF r
<1>3. Elements(r) = Elements(q) \cup {c}
  <2>1. \A e \in Elements(r) : e \in Elements(q) \cup {c}
    BY <1>1, <1>2 DEF Elements
  <2>2. \A e \in Elements(q) : e \in Elements(r)
    BY <1>1, <1>2 DEF Elements
  <2>3. c \in Elements(r)
    BY <1>1 DEF Elements
  <2> QED
    BY <2>1, <2>2, <2>3
<1>4. Distinct(r)
  BY <1>1, <1>2 DEF Distinct, Elements
<1> QED
  BY <1>3, <1>4 DEF r

\* next takes the oldest one.
LEMMA ElementsTail ==
  ASSUME NEW q \in Seq(Callers), q # <<>>, Distinct(q)
  PROVE  /\ Head(q) \in Elements(q) /\ Distinct(Tail(q))
         /\ Elements(Tail(q)) = Elements(q) \ {Head(q)}
<1>1. \A n \in 1..Len(Tail(q)) : n + 1 \in 1..Len(q) /\ Tail(q)[n] = q[n + 1]
  OBVIOUS
<1>2. \A n \in 2..Len(q) : n - 1 \in 1..Len(Tail(q)) /\ Tail(q)[n - 1] = q[n]
  OBVIOUS
<1>3. Head(q) = q[1] /\ 1 \in 1..Len(q)
  OBVIOUS
<1>4. Distinct(Tail(q))
  BY <1>1 DEF Distinct
<1>5. \A e \in Elements(Tail(q)) : e \in Elements(q) /\ e # Head(q)
  <2> SUFFICES ASSUME NEW n \in 1..Len(Tail(q))
               PROVE  Tail(q)[n] \in Elements(q) /\ Tail(q)[n] # Head(q)
    BY DEF Elements
  <2>1. n + 1 # 1
    OBVIOUS
  <2> QED
    BY <1>1, <1>3, <2>1 DEF Elements, Distinct
<1>6. \A e \in Elements(q) : e # Head(q) => e \in Elements(Tail(q))
  <2> SUFFICES ASSUME NEW n \in 1..Len(q), q[n] # Head(q) PROVE q[n] \in Elements(Tail(q))
    BY DEF Elements
  <2>1. n \in 2..Len(q)
    BY <1>3
  <2> QED
    BY <1>2, <2>1 DEF Elements
<1> QED
  BY <1>3, <1>4, <1>5, <1>6 DEF Elements

\* RequestsAccounted in these terms.
Accounted(q, r, k, y) ==
  /\ Distinct(q)
  /\ \A c \in Callers :
       /\ c \in Elements(q) => k[c] = "Reply" /\ r # c /\ y[c] = "None"
       /\ c = r => k[c] = "Reply" /\ y[c] = "None"
       /\ k[c] = "Reply" => c \in Elements(q) \/ c = r \/ y[c] # "None"

\* RequestsAccounted as an operator of the variables it reads, before and after.
LEMMA AccountedIs ==
  /\ RequestsAccounted <=> Accounted(queue, request, call, reply)
  /\ RequestsAccounted' <=> Accounted(queue', request', call', reply')
BY DEF RequestsAccounted, Accounted, Distinct, Elements, Queued

\* A step of the run thread that touches neither queue nor callers.
LEMMA RequestsAlone ==
  ASSUME RunTypeOK, Inv, RequestPhase, RequestsAccounted, NoLostWakeup,
         UNCHANGED <<queue, waiting, call, operation, reply, request>>,
         pc \notin {"Serve", "Complete", "Reject", "Wait"},
         pc' \notin {"Serve", "Complete", "Reject"},
         lifecycle' = lifecycle \/ lifecycle' # "Stopped"
  PROVE  RequestPhase' /\ RequestsAccounted' /\ NoLostWakeup'
<1>1. RequestsAccounted'
  BY AccountedIs
<1>2. RequestPhase'
  BY DEF RequestPhase
<1>3. NoLostWakeup'
  BY DEF NoLostWakeup, RequestPhase
<1> QED
  BY <1>1, <1>2, <1>3

\* cancel answers every caller in the queue, and nobody else.
LEMMA CancelAccounts ==
  ASSUME RunTypeOK, RequestsAccounted, Cancel, UNCHANGED request,
         \A c \in Callers : call'[c] = "Reply" <=> call[c] = "Reply"
  PROVE  /\ RequestsAccounted'
         /\ \A c \in Callers : reply'[c] # "None" => reply[c] # "None" \/ call[c] = "Reply"
<1>1. Elements(queue') = {} /\ Distinct(queue')
  BY DEF Cancel, Elements, Distinct
<1>2. \A c \in Callers : reply'[c] = IF c \in Elements(queue) THEN "Stopping" ELSE reply[c]
  BY DEF Cancel, Cancelled, Queued, Elements
<1>3. Accounted(queue, request, call, reply)
  BY AccountedIs
<1>4. Accounted(queue', request', call', reply')
  BY <1>1, <1>2, <1>3 DEF Accounted
<1> QED
  BY <1>2, <1>3, <1>4, AccountedIs DEF Accounted

\* Startup, the loop outside a request, and the cleanup after its cancel.
LEMMA RequestsAloneStep ==
  ASSUME RunTypeOK, Inv, RequestPhase, RequestsAccounted, NoLostWakeup,
         \/ Begin \/ DropUnrun \/ New \/ Check \/ Alloc \/ Create \/ Map \/ Prepare
         \/ Start \/ MemStart \/ Announce \/ Loop
         \/ Poll \/ Memory \/ Process \/ MemResume \/ Event
         \/ VmStop \/ Flush \/ MemStop \/ Unmap \/ Destroy \/ CleanupResult
         \/ FinishMemory \/ Unwind \/ DropDevices \/ Dropped \/ DropCleanup
  PROVE  RequestPhase' /\ RequestsAccounted' /\ NoLostWakeup'
<1> USE DEF locals, machine, history, callers, errors, control, Step, SameLocals
<1> SUFFICES /\ UNCHANGED <<queue, waiting, call, operation, reply, request>>
             /\ pc \notin {"Serve", "Complete", "Reject", "Wait"}
             /\ pc' \notin {"Serve", "Complete", "Reject"}
             /\ lifecycle' = lifecycle \/ lifecycle' # "Stopped"
  BY RequestsAlone
<1>1. CASE Begin \/ DropUnrun \/ New \/ Check \/ Alloc
  BY <1>1 DEF Begin, begin, DropUnrun, New, stop_memory, Check, Alloc, InitFail, InitFrame
<1>2. CASE Create \/ Map \/ Prepare \/ Start
  BY <1>2 DEF Create, Map, Prepare, Start, InitStage, InitFail, InitSkip, InitFrame
<1>3. CASE MemStart \/ Announce \/ Loop
  BY <1>3 DEF MemStart, start_memory, Announce, running, Announced, Loop
<1>4. CASE Poll \/ Memory \/ Process \/ MemResume \/ Event
  BY <1>4 DEF Poll, Memory, Process, MemResume, Event, PassTo, PassFail, Barrier, PassFrame
<1>5. CASE VmStop \/ Flush \/ MemStop \/ Unmap \/ Destroy
  BY <1>5 DEF VmStop, Flush, MemStop, Unmap, Destroy, CleanupFrame, stop_memory
<1>6. CASE CleanupResult \/ FinishMemory \/ Unwind \/ DropDevices \/ Dropped \/ DropCleanup
  BY <1>6 DEF CleanupResult, FinishMemory, Unwind, DropDevices, Dropped, DropCleanup, cleanup_result,
              stop_memory
<1> QED
  BY <1>1, <1>2, <1>3, <1>4, <1>5, <1>6

\* A request taken, served, answered or dropped; the sleep of the run thread; the
\* cancel before the cleanup and at the end.
LEMMA RequestsServedStep ==
  ASSUME RunTypeOK, Inv, RequestPhase, RequestsAccounted, NoLostWakeup,
         \/ NextRequest \/ Serve \/ Complete \/ Reject \/ Wait \/ Cleaning \/ Finish \/ Panic
  PROVE  RequestPhase' /\ RequestsAccounted' /\ NoLostWakeup'
<1>1. /\ queue \in Seq(Callers) /\ call \in [Callers -> {"Idle", "Reply", "Stopped"}]
      /\ reply \in [Callers -> Replies \cup {"None"}] /\ call[Runner] = "Idle"
      /\ waiting \in SUBSET Callers
  BY DEF RunTypeOK, ControlTypeOK, Inv, Phase
<1>2. Accounted(queue, request, call, reply)
  BY AccountedIs
<1>3. None \notin Callers
  OBVIOUS
<1> USE <1>1, <1>3 DEF locals, machine, history, callers, errors, control, Step
<1>4. CASE NextRequest
  <2>1. CASE queue = <<>> /\ pc' \in {"Wait", "Poll"} /\ UNCHANGED <<control, request>>
    BY <1>4, <2>1, RequestsAlone DEF NextRequest
  <2>2. CASE queue # <<>> /\ queue' = Tail(queue)
    <3>1. /\ pc = "Next" /\ pc' = "Serve" /\ request = None /\ request' = Head(queue)
          /\ UNCHANGED <<waiting, call, operation, reply, lifecycle>>
      BY <1>4, <2>2 DEF NextRequest, next, RequestPhase
    <3>2. /\ Head(queue) \in Elements(queue) /\ Distinct(queue')
          /\ Elements(queue') = Elements(queue) \ {Head(queue)}
      BY <1>2, <2>2, ElementsTail DEF Accounted
    <3>3. Head(queue) \in Callers
      BY <2>2
    <3>4. RequestsAccounted'
      <4>1. Accounted(queue', request', call', reply')
        BY <1>2, <3>1, <3>2, <3>3 DEF Accounted
      <4> QED
        BY <4>1, AccountedIs
    <3>5. RequestPhase'
      BY <3>1, <3>3 DEF RequestPhase
    <3>6. NoLostWakeup'
      BY <3>1 DEF NoLostWakeup, RequestPhase
    <3> QED
      BY <3>4, <3>5, <3>6
  <2> QED
    BY <1>4, <2>1, <2>2 DEF NextRequest, next
<1>5. CASE Serve
  <2>1. /\ pc = "Serve" /\ pc' \in {"Complete", "Reject"}
        /\ UNCHANGED <<queue, waiting, call, operation, reply, lifecycle, request>>
    BY <1>5 DEF Serve, Served
  <2>2. RequestsAccounted'
    BY <2>1, AccountedIs
  <2> QED
    BY <2>1, <2>2 DEF RequestPhase, NoLostWakeup
<1>6. CASE Complete
  <2>1. /\ pc = "Complete" /\ pc' \in {"Loop", "Cleaning"} /\ request' = None /\ request \in Callers
        /\ UNCHANGED <<queue, waiting, call, operation>>
        /\ reply' = [reply EXCEPT ![request] = outcome] /\ outcome # "None"
        /\ lifecycle' = Completed(request, outcome)
    BY <1>6 DEF Complete, complete, RequestPhase, RunTypeOK
  <2>2. Accounted(queue', request', call', reply')
    BY <1>2, <2>1 DEF Accounted
  <2>3. RequestPhase'
    BY <1>2, <2>1 DEF RequestPhase, Accounted
  <2>4. lifecycle # "Stopped" => lifecycle' # "Stopped"
    BY <2>1 DEF Completed
  <2>5. NoLostWakeup'
    BY <2>1, <2>4 DEF NoLostWakeup, RequestPhase
  <2> QED
    BY <2>2, <2>3, <2>5, AccountedIs
<1>7. CASE Reject
  <2>1. /\ pc = "Reject" /\ pc' = "Cleaning" /\ request' = None /\ request \in Callers
        /\ UNCHANGED <<call, operation>>
        /\ queue' = <<>> /\ waiting' = {} /\ reply' = [Cancelled EXCEPT ![request] = "Stopping"]
    BY <1>7 DEF Reject, reject_stopping, RequestPhase
  <2>2. \A c \in Callers :
          reply'[c] = IF c \in Elements(queue) \cup {request} THEN "Stopping" ELSE reply[c]
    BY <2>1 DEF Cancelled, Queued, Elements
  <2>3. Elements(queue') = {} /\ Distinct(queue')
    BY <2>1 DEF Elements, Distinct
  <2>4. Accounted(queue', request', call', reply')
    BY <1>2, <2>1, <2>2, <2>3 DEF Accounted
  <2>5. RequestPhase'
    BY <1>2, <2>1, <2>2 DEF RequestPhase, Accounted
  <2> QED
    BY <2>1, <2>4, <2>5, AccountedIs DEF NoLostWakeup
<1>8. CASE Wait
  <2>1. /\ pc = "Wait" /\ Runner \notin waiting /\ pc' \in {"Wait", "Loop"}
        /\ UNCHANGED <<queue, call, operation, reply, lifecycle, request>>
        /\ \/ waiting' = waiting \cup {Runner} /\ MustWait /\ pc' = "Wait"
           \/ waiting' = waiting
    BY <1>8 DEF Wait, wait
  <2>2. RequestsAccounted'
    BY <2>1, AccountedIs
  <2>3. RequestPhase'
    BY <2>1 DEF RequestPhase
  <2>4. NoLostWakeup'
    BY <2>1 DEF NoLostWakeup, MustWait
  <2> QED
    BY <2>2, <2>3, <2>4
<1>9. CASE Cleaning \/ Finish
  <2>1. /\ pc \in {"Cleaning", "Finish"} /\ pc' \in {"VmStop", "Dropped"}
        /\ Cancel /\ UNCHANGED <<request, call, operation>>
        /\ waiting' = {} \/ (waiting' = waiting /\ lifecycle' = "Stopping")
    BY <1>9 DEF Cleaning, cleaning, Finish, finish
  <2>2. /\ RequestsAccounted'
        /\ \A c \in Callers : reply'[c] # "None" => reply[c] # "None" \/ call[c] = "Reply"
    BY <2>1, CancelAccounts
  <2>3. RequestPhase'
    BY <2>1, <2>2 DEF RequestPhase
  <2>4. NoLostWakeup'
    BY <2>1 DEF NoLostWakeup, RequestPhase
  <2> QED
    BY <2>2, <2>3, <2>4
<1>10. CASE Panic
  <2>1. /\ pc' = "Unwind" /\ request' = None /\ UNCHANGED <<queue, waiting, call, operation, lifecycle>>
        /\ pc # "Wait"
        /\ reply' = IF request = None THEN reply ELSE [reply EXCEPT ![request] = "Disconnected"]
    BY <1>10 DEF Panic, disconnect, Callbacks, Initialising, Processing, CleaningUp
  <2>2. request \in Callers \cup {None}
    BY DEF RunTypeOK
  <2>3. Accounted(queue', request', call', reply')
    BY <1>2, <2>1, <2>2 DEF Accounted
  <2>4. RequestPhase'
    BY <1>2, <2>1, <2>2 DEF RequestPhase, Accounted
  <2>5. NoLostWakeup'
    BY <2>1 DEF NoLostWakeup, RequestPhase
  <2> QED
    BY <2>3, <2>4, <2>5, AccountedIs
<1> QED
  BY <1>4, <1>5, <1>6, <1>7, <1>8, <1>9, <1>10

\* The callers and the machine.
LEMMA RequestsCallerStep ==
  ASSUME RunTypeOK, Inv, RequestPhase, RequestsAccounted, NoLostWakeup, NEW c \in Callers,
         Call(c) \/ Return(c) \/ Wake(c) \/ GuestShutdown \/ VcpuFault
  PROVE  RequestPhase' /\ RequestsAccounted' /\ NoLostWakeup'
<1>1. /\ queue \in Seq(Callers) /\ call \in [Callers -> {"Idle", "Reply", "Stopped"}]
      /\ operation \in [Callers -> {"None", "Pause", "Resume"}]
      /\ reply \in [Callers -> Replies \cup {"None"}] /\ call[Runner] = "Idle"
      /\ waiting \in SUBSET Callers
  BY DEF RunTypeOK, ControlTypeOK, Inv, Phase
<1>2. Accounted(queue, request, call, reply)
  BY AccountedIs
<1> USE <1>1 DEF locals, machine, history, callers, errors, control
<1>3. ASSUME Stop(c), UNCHANGED <<pc, locals, machine, history>>
      PROVE  RequestPhase' /\ RequestsAccounted' /\ NoLostWakeup'
  <2>1. CASE IsOwner(c) /\ UNCHANGED <<lifecycle, queue, reply, memory, call, waiting>>
    <3>1. UNCHANGED <<queue, request, call, reply, operation, waiting, lifecycle, pc>>
      BY <1>3, <2>1 DEF Stop
    <3> QED
      BY <3>1, AccountedIs DEF RequestPhase, NoLostWakeup, MustWait
  <2>2. CASE /\ Cancel /\ lifecycle' = StopTarget
             /\ call' = [call EXCEPT ![c] = IF StopTarget = "Stopped" THEN "Idle" ELSE "Stopped"]
             /\ waiting' = IF StopTarget = "Stopped" THEN {} ELSE {c}
    <3>1. call[c] = "Idle" /\ UNCHANGED <<operation, request, pc>>
      BY <1>3 DEF Stop
    <3>2. \A d \in Callers : call'[d] = "Reply" <=> call[d] = "Reply"
      BY <2>2, <3>1
    <3>3. /\ RequestsAccounted'
          /\ \A d \in Callers : reply'[d] # "None" => reply[d] # "None" \/ call[d] = "Reply"
      BY <2>2, <3>1, <3>2, CancelAccounts
    <3>4. NoLostWakeup'
      BY <2>2 DEF NoLostWakeup, StopTarget
    <3>5. Runner \notin waiting' \/ pc = "Wait"
      <4>1. lifecycle \in {"Created", "Stopped"} \/ ~IsOwner(c)
        BY <1>3, <2>2 DEF Stop, Inv, Phase
      <4> QED
        BY <2>2, <3>1, <4>1 DEF StopTarget, IsOwner, Inv, Phase, MayCall
    <3> QED
      BY <3>1, <3>2, <3>3, <3>4, <3>5 DEF RequestPhase
  <2> QED
    BY <1>3, <2>1, <2>2 DEF Stop
<1>4. ASSUME NEW op \in {"Pause", "Resume"}, Submit(c, op), UNCHANGED <<pc, locals, machine, history>>
      PROVE  RequestPhase' /\ RequestsAccounted' /\ NoLostWakeup'
  <2>1. CASE UNCHANGED <<queue, waiting, call, operation>>
    <3>1. UNCHANGED <<queue, request, call, reply, operation, waiting, lifecycle, pc>>
      BY <1>4, <2>1 DEF Submit
    <3> QED
      BY <3>1, AccountedIs DEF RequestPhase, NoLostWakeup, MustWait
  <2>2. CASE /\ queue' = Append(queue, c) /\ waiting' = {}
             /\ call' = [call EXCEPT ![c] = "Reply"] /\ operation' = [operation EXCEPT ![c] = op]
    <3>1. call[c] = "Idle" /\ UNCHANGED <<reply, request, pc>>
      BY <1>4 DEF Submit
    <3>2. c \notin Elements(queue) /\ Distinct(queue) /\ c # request /\ reply[c] = "None"
      BY <1>2, <3>1 DEF Accounted, RequestPhase
    <3>3. Elements(queue') = Elements(queue) \cup {c} /\ Distinct(queue')
      BY <2>2, <3>2, ElementsAppend
    <3>4. Accounted(queue', request', call', reply')
      BY <1>2, <2>2, <3>1, <3>2, <3>3 DEF Accounted
    <3>5. RequestPhase'
      BY <2>2, <3>1 DEF RequestPhase
    <3> QED
      BY <2>2, <3>4, <3>5, AccountedIs DEF NoLostWakeup
  <2> QED
    BY <1>4, <2>1, <2>2, Zenon DEF Submit, Woken
<1>5. CASE Return(c) /\ Receive(c)
  <2>1. /\ call[c] = "Reply" /\ reply[c] # "None" /\ call' = [call EXCEPT ![c] = "Idle"]
        /\ operation' = [operation EXCEPT ![c] = "None"] /\ reply' = [reply EXCEPT ![c] = "None"]
        /\ UNCHANGED <<lifecycle, queue, waiting, request, pc>>
    BY <1>5 DEF Return, Receive
  <2>2. Accounted(queue', request', call', reply')
    BY <1>2, <2>1 DEF Accounted
  <2>3. RequestPhase'
    BY <2>1 DEF RequestPhase
  <2>4. NoLostWakeup'
    BY <2>1 DEF NoLostWakeup, MustWait
  <2> QED
    BY <2>2, <2>3, <2>4, AccountedIs
<1>6. CASE Return(c) /\ StopWake(c)
  <2>1. /\ call[c] = "Stopped" /\ c \notin waiting
        /\ UNCHANGED <<lifecycle, queue, operation, reply, request, pc>>
        /\ \/ call' = [call EXCEPT ![c] = "Idle"] /\ waiting' = waiting
           \/ lifecycle # "Stopped" /\ waiting' = waiting \cup {c} /\ call' = call
    BY <1>6 DEF Return, StopWake
  <2>2. Accounted(queue', request', call', reply')
    BY <1>2, <2>1 DEF Accounted
  <2>3. RequestPhase'
    BY <2>1 DEF RequestPhase
  <2>4. NoLostWakeup'
    BY <2>1 DEF NoLostWakeup, MustWait
  <2> QED
    BY <2>2, <2>3, <2>4, AccountedIs
<1>7. CASE Wake(c) \/ GuestShutdown \/ VcpuFault
  <2>1. /\ UNCHANGED <<lifecycle, queue, call, operation, reply, request, pc>>
        /\ waiting' \subseteq waiting
    BY <1>7 DEF Wake, SpuriousWake, GuestShutdown, VcpuFault
  <2>2. RequestsAccounted'
    BY <2>1, AccountedIs
  <2> QED
    BY <2>1, <2>2 DEF RequestPhase, NoLostWakeup, MustWait
<1> QED
  BY <1>3, <1>4, <1>5, <1>6, <1>7 DEF Call, Return

\* control.rs: the bookkeeping of requests and of sleeping threads, by induction on
\* the steps of the run thread, of the callers and of the machine.
THEOREM RequestsInvariant == Spec => [](RequestPhase /\ RequestsAccounted /\ NoLostWakeup)
<1> DEFINE R == RequestPhase /\ RequestsAccounted /\ NoLostWakeup
<1>1. Init => R
  <2> SUFFICES ASSUME Init PROVE R
    OBVIOUS
  <2>1. /\ pc = "Created" /\ request = None /\ queue = <<>> /\ waiting = {}
        /\ call = [c \in Callers |-> "Idle"] /\ reply = [c \in Callers |-> "None"]
    BY DEF Init, ControlInit
  <2>2. RequestPhase /\ NoLostWakeup
    BY <2>1 DEF RequestPhase, NoLostWakeup
  <2>3. Accounted(queue, request, call, reply)
    BY <2>1 DEF Accounted, Distinct, Elements
  <2> QED
    BY <2>2, <2>3, AccountedIs
<1>2. ASSUME RunTypeOK, Inv, R, [Next]_vars PROVE R'
  <2>1. CASE UNCHANGED vars
    <3>1. UNCHANGED <<queue, waiting, call, operation, reply, request, pc, lifecycle>>
      BY <2>1 DEF vars, control, callers, locals
    <3> QED
      BY <1>2, <3>1, AccountedIs DEF RequestPhase, NoLostWakeup, MustWait
  <2>2. CASE Next
    BY <1>2, <2>2, RequestsAloneStep, RequestsServedStep, RequestsCallerStep DEF Next, RunnerStep
  <2> QED
    BY <1>2, <2>1, <2>2
<1> QED
  BY <1>1, <1>2, Invariant, PTL DEF Spec

\* control.rs submit, next, complete, cancel, wait: no request is lost, answered twice
\* or stranded in the queue of a VM that stops, and no thread sleeps without a reason.
THEOREM EveryRequestServed == Spec => []RequestsServed
<1>1. Inv /\ RequestsAccounted /\ NoLostWakeup => RequestsServed
  BY DEF Inv, Phase, RequestsServed
<1> QED
  BY <1>1, Invariant, RequestsInvariant, PTL

\* Startup keeps the loop's view of the pause.
LEMMA PauseStart ==
  ASSUME RunTypeOK, Inv, PausePhase,
         Begin \/ DropUnrun \/ New \/ Check \/ Alloc \/ Create \/ Map \/ Prepare
         \/ Start \/ MemStart \/ Announce
  PROVE  PausePhase'
<1> USE DEF Inv, Phase, MachinePhase, PausePhase, PausedIsQuiet, StartPCs, LoopPCs, EndPCs,
            Initialising, Processing, CleaningUp,
            locals, machine, history, callers, errors, control, Step, SameLocals
<1>1. CASE Begin \/ DropUnrun \/ New \/ Check \/ Alloc
  BY <1>1 DEF Begin, begin, DropUnrun, New, stop_memory, Check, Alloc, InitFail, InitFrame
<1>2. CASE Create \/ Map \/ Prepare \/ Start
  BY <1>2 DEF Create, Map, Prepare, Start, InitStage, InitFail, InitSkip, InitFrame
<1>3. CASE MemStart \/ Announce
  BY <1>3 DEF MemStart, start_memory, Announce, running, Announced
<1> QED
  BY <1>1, <1>2, <1>3

\* Serving a request moves the local first and the status with the answer.
LEMMA PauseLoop ==
  ASSUME RunTypeOK, Inv, RequestPhase, RequestsAccounted, PausePhase,
         Loop \/ NextRequest \/ Serve \/ Complete \/ Reject \/ Wait
         \/ Poll \/ Memory \/ Process \/ MemResume \/ Event
  PROVE  PausePhase'
<1> USE DEF Inv, Phase, PausePhase, PausedIsQuiet, StartPCs, LoopPCs, EndPCs,
            Initialising, Processing, CleaningUp,
            locals, machine, history, callers, errors, control, Step, SameLocals
<1>0. /\ outcome \in {"Ok", "Failed"} /\ paused \in BOOLEAN
      /\ operation \in [Callers -> {"None", "Pause", "Resume"}]
  BY Zenon DEF RunTypeOK, ControlTypeOK
<1>1. CASE Loop \/ NextRequest \/ Wait
  BY <1>1 DEF Loop, NextRequest, next, Wait, wait, MustWait
<1>2. CASE Serve
  <2>1. /\ request \in Callers /\ call[request] = "Reply" /\ operation[request] \in {"Pause", "Resume"}
    BY <1>2 DEF Serve, RequestPhase, RequestsAccounted
  <2>2. /\ pc = "Serve" /\ pc' \in {"Complete", "Reject"} /\ UNCHANGED <<lifecycle, operation, request>>
    BY <1>2 DEF Serve, Served
  <2>3. CASE pc' = "Reject"
    BY <1>2, <2>2, <2>3 DEF Serve, Served
  <2>4. CASE pc' = "Complete" /\ outcome' = "Failed"
    <3>1. paused' = paused /\ vcpus' = vcpus
      BY <1>2, <2>4, Zenon DEF Serve, Served, PausedAfter
    <3> QED
      BY <2>2, <2>4, <3>1
  <2>5. CASE pc' = "Complete" /\ outcome' = "Ok"
    <3>1. paused' = (operation[request] = "Pause")
      BY <1>2, <2>5, Zenon DEF Serve, Served, PausedAfter
    <3>2. /\ ~paused' \/ vcpus' = "Paused"
          /\ paused' \/ vcpus' = "Running" \/ lifecycle # "Paused"
          /\ vcpus' \in {"Running", "Paused"}
      BY <1>2, <2>1, <2>5, <3>1 DEF Serve, Served, Effective
    <3> QED
      BY <2>1, <2>2, <2>5, <3>1, <3>2
  <2> QED
    BY <1>2, <2>2, <2>3, <2>4, <2>5 DEF Serve, Served
<1>3. CASE Complete
  BY <1>0, <1>3 DEF Complete, complete, Completed, RequestPhase
<1>4. CASE Reject
  BY <1>4 DEF Reject, reject_stopping
<1>5. CASE Poll \/ Memory \/ Process \/ MemResume \/ Event
  BY <1>5 DEF Poll, Memory, Process, MemResume, Event, PassTo, PassFail, Barrier, PassFrame
<1> QED
  BY <1>1, <1>2, <1>3, <1>4, <1>5

\* The end of a run is never seen as Paused.
LEMMA PauseEnd ==
  ASSUME RunTypeOK, Inv, PausePhase,
         Cleaning \/ VmStop \/ Flush \/ MemStop \/ Unmap \/ Destroy \/ CleanupResult
         \/ FinishMemory \/ Finish \/ Panic \/ Unwind \/ DropDevices \/ Dropped \/ DropCleanup
  PROVE  PausePhase'
<1> USE DEF Inv, Phase, MachinePhase, PausePhase, PausedIsQuiet, StartPCs, LoopPCs, EndPCs,
            Initialising, Processing, CleaningUp,
            locals, machine, history, callers, errors, control, Step, SameLocals
<1>1. CASE Cleaning \/ Finish
  BY <1>1 DEF Cleaning, cleaning, Finish, finish
<1>2. CASE VmStop \/ Flush \/ MemStop \/ Unmap \/ Destroy
  BY <1>2 DEF VmStop, Flush, MemStop, Unmap, Destroy, CleanupFrame, stop_memory, Joined
<1>3. CASE CleanupResult \/ FinishMemory \/ DropDevices \/ Dropped \/ DropCleanup
  BY <1>3 DEF CleanupResult, FinishMemory, DropDevices, Dropped, DropCleanup, cleanup_result,
              stop_memory
<1>4. CASE Panic
  BY <1>4 DEF Panic, disconnect, Callbacks
<1>5. CASE Unwind
  BY <1>5 DEF Unwind, stop_memory, Joined
<1> QED
  BY <1>1, <1>2, <1>3, <1>4, <1>5

\* Callers never change the operation of a request in service; a stop overtakes it.
LEMMA PauseCaller ==
  ASSUME RunTypeOK, Inv, RequestPhase, RequestsAccounted, PausePhase, NEW c \in Callers,
         Call(c) \/ Return(c) \/ Wake(c) \/ GuestShutdown \/ VcpuFault
  PROVE  PausePhase'
<1>1. UNCHANGED <<pc, request, paused, outcome, vcpus>>
  BY DEF Call, Return, Wake, GuestShutdown, VcpuFault, locals, machine
<1>2. lifecycle' = lifecycle \/ lifecycle' \in {"Stopping", "Stopped"}
  BY DEF Call, Return, Wake, GuestShutdown, VcpuFault, Stop, Submit, Receive, StopWake, SpuriousWake,
         StopTarget, control
<1>3. lifecycle' = "Stopped" => lifecycle \in {"Created", "Stopped"}
  BY DEF Call, Return, Wake, GuestShutdown, VcpuFault, Stop, Submit, Receive, StopWake, SpuriousWake,
         StopTarget, control
<1>4. pc = "Complete" => operation'[request] = operation[request]
  <2> SUFFICES ASSUME pc = "Complete" PROVE operation'[request] = operation[request]
    OBVIOUS
  <2>1. request \in Callers /\ call[request] = "Reply" /\ reply[request] = "None"
    BY DEF RequestPhase, RequestsAccounted
  <2>2. operation \in [Callers -> {"None", "Pause", "Resume"}]
    BY DEF RunTypeOK, ControlTypeOK
  <2> QED
    BY <2>1, <2>2 DEF Call, Return, Wake, GuestShutdown, VcpuFault, Stop, Submit, Receive, StopWake,
                      SpuriousWake, control, callers
<1> QED
  BY <1>1, <1>2, <1>3, <1>4 DEF PausePhase, PausedIsQuiet, Inv, Phase, StartPCs, LoopPCs,
                                Initialising, Processing

\* runtime.rs run_loop, process_memory and control.rs complete: while the status is
\* Paused the guest is quiescent and no device is processed.
THEOREM PausedMeansQuiet == Spec => [](PausePhase /\ PausedIsQuiet)
<1>1. Init => PausePhase
  BY DEF Init, ControlInit, PausePhase, PausedIsQuiet, StartPCs, LoopPCs, Initialising, Processing
<1>2. ASSUME RunTypeOK, Inv, RequestPhase, RequestsAccounted, PausePhase, [Next]_vars PROVE PausePhase'
  <2>1. CASE UNCHANGED vars
    BY <1>2, <2>1 DEF PausePhase, PausedIsQuiet, vars, control, callers, locals, machine
  <2>2. CASE Next
    BY <1>2, <2>2, PauseStart, PauseLoop, PauseEnd, PauseCaller DEF Next, RunnerStep
  <2> QED
    BY <1>2, <2>1, <2>2
<1>3. PausePhase => PausedIsQuiet
  BY DEF PausePhase
<1> QED
  BY <1>1, <1>2, <1>3, Invariant, RequestsInvariant, PTL DEF Spec

(***************************************************************************)
(* The life of a VM (module VmLifecycle), without its fairness.            *)
(***************************************************************************)
AbstractStep == [Abstract!Next]_(Abstract!lvars)
AbstractSafety == Abstract!Init /\ [][Abstract!Next]_(Abstract!lvars)

\* Startup takes the abstract steps Begin, Boot and Announce.
LEMMA LifeStart ==
  ASSUME RunTypeOK, Inv, PausePhase,
         Begin \/ DropUnrun \/ New \/ Check \/ Alloc \/ Create \/ Map \/ Prepare
         \/ Start \/ MemStart \/ Announce
  PROVE  AbstractStep
<1> USE DEF AbstractStep, Abstract!Next, Abstract!lvars, locals, machine, history, callers, errors,
            control, Step
<1>1. CASE Begin
  BY <1>1 DEF Begin, begin, Abstract!Begin
<1>2. CASE DropUnrun \/ New \/ Check \/ Alloc \/ MemStart
  BY <1>2 DEF DropUnrun, New, stop_memory, Check, Alloc, InitFail, InitFrame, MemStart, start_memory
<1>3. CASE Create \/ Map \/ Prepare
  BY <1>3 DEF Create, Map, Prepare, InitStage, InitFail, InitSkip, InitFrame
<1>4. CASE Start
  <2>1. pc = "Start" /\ lifecycle \in {"Starting", "Stopping"} /\ vcpus = "None"
    BY <1>4 DEF Start, InitStage, InitFail, InitSkip, Inv, Phase, MachinePhase, StartPCs, Initialising
  <2> QED
    BY <1>4, <2>1 DEF Start, InitStage, InitFail, InitSkip, InitFrame, Abstract!Boot
<1>5. CASE Announce
  <2>1. pc = "Announce" /\ lifecycle \in {"Starting", "Stopping"} /\ (~Stopping => vcpus = "Running")
    BY <1>5 DEF Announce, Inv, Phase, StartPCs, PausePhase
  <2> QED
    BY <1>5, <2>1 DEF Announce, running, Announced, Abstract!Announce
<1> QED
  BY <1>1, <1>2, <1>3, <1>4, <1>5

\* The barrier moves the vCPUs, and the answer to a request moves the status after it.
LEMMA LifeLoop ==
  ASSUME RunTypeOK, Inv, RequestPhase, RequestsAccounted, PausePhase,
         Loop \/ NextRequest \/ Serve \/ Complete \/ Reject \/ Wait
         \/ Poll \/ Memory \/ Process \/ MemResume \/ Event
  PROVE  AbstractStep
<1> USE DEF AbstractStep, Abstract!Next, Abstract!lvars, locals, machine, history, callers, errors,
            control, Step
<1>1. CASE Loop \/ NextRequest \/ Wait
  BY <1>1 DEF Loop, NextRequest, next, Wait, wait
<1>2. CASE Serve \/ Memory \/ MemResume
  <2>1. vcpus \in {"Running", "Paused"}
    BY <1>2 DEF Serve, Memory, MemResume, PassTo, PassFail, Barrier, PausePhase, LoopPCs, Processing
  <2>2. UNCHANGED lifecycle /\ vcpus' \in {vcpus, "Running", "Paused"}
    BY <1>2 DEF Serve, Memory, MemResume, PassTo, PassFail, Barrier, PassFrame
  <2> QED
    BY <2>1, <2>2 DEF Abstract!Quiesce, Abstract!Release
<1>3. CASE Complete
  <2>1. /\ pc = "Complete" /\ lifecycle \in {"Running", "Paused", "Stopping"} /\ UNCHANGED vcpus
        /\ lifecycle' = Completed(request, outcome)
    BY <1>3 DEF Complete, complete, Inv, Phase, LoopPCs
  <2>2. request \in Callers /\ operation[request] \in {"Pause", "Resume"}
    BY <2>1 DEF RequestPhase, RequestsAccounted
  <2>3. CASE lifecycle' = lifecycle
    BY <2>1, <2>3
  <2>4. CASE lifecycle' # lifecycle
    <3>1. outcome = "Ok" /\ lifecycle \in {"Running", "Paused"}
      BY <2>1, <2>4 DEF Completed
    <3>2. CASE operation[request] = "Pause"
      <4>1. vcpus = "Paused" /\ lifecycle = "Running" /\ lifecycle' = "Paused"
        BY <2>1, <2>4, <3>1, <3>2 DEF Completed, PausePhase
      <4> QED
        BY <2>1, <4>1 DEF Abstract!Pause
    <3>3. CASE operation[request] = "Resume"
      <4>1. vcpus = "Running" /\ lifecycle = "Paused" /\ lifecycle' = "Running"
        BY <2>1, <2>4, <3>1, <3>3 DEF Completed, PausePhase
      <4> QED
        BY <2>1, <4>1 DEF Abstract!Resume
    <3> QED
      BY <2>2, <3>2, <3>3
  <2> QED
    BY <2>3, <2>4
<1>4. CASE Reject
  BY <1>4 DEF Reject, reject_stopping, Inv, Phase, LoopPCs, Abstract!Terminate
<1>5. CASE Poll \/ Process \/ Event
  BY <1>5 DEF Poll, Process, Event, PassTo, PassFail, PassFrame
<1> QED
  BY <1>1, <1>2, <1>3, <1>4, <1>5

\* The end: the vCPUs are joined before the status is Stopped.
LEMMA LifeEnd ==
  ASSUME RunTypeOK, Inv,
         Cleaning \/ VmStop \/ Flush \/ MemStop \/ Unmap \/ Destroy \/ CleanupResult
         \/ FinishMemory \/ Finish \/ Panic \/ Unwind \/ DropDevices \/ Dropped \/ DropCleanup
  PROVE  AbstractStep
<1> USE DEF AbstractStep, Abstract!Next, Abstract!lvars, locals, machine, history, callers, errors,
            control, Step
<1>0. /\ lifecycle \in {"Created", "Starting", "Running", "Paused", "Stopping", "Stopped"}
      /\ vcpus \in {"None", "Running", "Paused", "Joined"}
  BY DEF RunTypeOK, ControlTypeOK
<1>1. CASE Cleaning
  <2>1. lifecycle \notin {"Created", "Stopped"}
    BY <1>1 DEF Cleaning, Inv, Phase, EndPCs
  <2> QED
    BY <1>0, <1>1, <2>1 DEF Cleaning, cleaning, Abstract!Terminate
<1>2. CASE VmStop \/ Unwind
  BY <1>0, <1>2 DEF VmStop, CleanupFrame, Unwind, stop_memory, Joined, Abstract!Join
<1>3. CASE Finish
  BY <1>0, <1>3 DEF Finish, finish, Inv, MachinePhase, EndPCs, Abstract!Finish
<1>4. CASE Flush \/ MemStop \/ Unmap \/ Destroy \/ CleanupResult
  BY <1>4 DEF Flush, MemStop, Unmap, Destroy, CleanupResult, CleanupFrame, cleanup_result, stop_memory
<1>5. CASE FinishMemory \/ Panic \/ DropDevices \/ Dropped \/ DropCleanup
  BY <1>5 DEF FinishMemory, Panic, disconnect, DropDevices, Dropped, DropCleanup, cleanup_result,
              stop_memory
<1> QED
  BY <1>1, <1>2, <1>3, <1>4, <1>5

\* A stop ends a VM that was never run and terminates one that was; the rest is private.
LEMMA LifeCaller ==
  ASSUME RunTypeOK, Inv, NEW c \in Callers,
         Call(c) \/ Return(c) \/ Wake(c) \/ GuestShutdown \/ VcpuFault
  PROVE  AbstractStep
<1> USE DEF AbstractStep, Abstract!Next, Abstract!lvars
<1>1. UNCHANGED vcpus
  BY DEF Call, Return, Wake, GuestShutdown, VcpuFault, machine
<1>2. lifecycle' = lifecycle \/ lifecycle' = StopTarget
  BY DEF Call, Return, Wake, GuestShutdown, VcpuFault, Stop, Submit, Receive, StopWake, SpuriousWake,
         control
<1>3. /\ lifecycle \in {"Created", "Starting", "Running", "Paused", "Stopping", "Stopped"}
      /\ lifecycle = "Created" => vcpus = "None"
  BY DEF RunTypeOK, ControlTypeOK, Inv, Phase, MachinePhase
<1> QED
  BY <1>1, <1>2, <1>3 DEF StopTarget, Abstract!Finish, Abstract!Terminate

\* lib.rs, control.rs and runtime.rs together implement the life VmStatus promises: a VM
\* is announced only once its guest runs, pause and resume follow the barrier, no vCPU
\* outlives the VM, and Stopped is final.
THEOREM LifecycleImplemented == Spec => AbstractSafety
<1>1. Init => Abstract!Init
  BY DEF Init, ControlInit, Abstract!Init
<1>2. ASSUME RunTypeOK, Inv, RequestPhase, RequestsAccounted, PausePhase, [Next]_vars
      PROVE  [Abstract!Next]_(Abstract!lvars)
  <2>1. CASE UNCHANGED vars
    BY <2>1 DEF Abstract!lvars, vars, control, machine
  <2>2. CASE Next
    BY <1>2, <2>2, LifeStart, LifeLoop, LifeEnd, LifeCaller DEF AbstractStep, Next, RunnerStep
  <2> QED
    BY <1>2, <2>1, <2>2
<1> QED
  BY <1>1, <1>2, Invariant, RequestsInvariant, PausedMeansQuiet, PTL DEF Spec, AbstractSafety

=============================================================================
