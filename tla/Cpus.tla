-------------------------------- MODULE Cpus ---------------------------------
(***************************************************************************)
(* vCPU threads, PSCI power state, MMIO replies and cancellable quiescence *)
(* (src/src/platform/macos_arm64/cpus.rs) with the VM in front of them:    *)
(* poll, drain and stop (macos_arm64/mod.rs), called by the run thread in  *)
(* the orders that runtime.rs can produce.                                 *)
(*                                                                         *)
(* Each step is what happens under one hold of Shared.state's mutex, one   *)
(* channel operation or one stay in the guest.  HVF is external: a vCPU in *)
(* the guest may exit for any reason at any time; a kick reaches only a    *)
(* vCPU that is inside hv_vcpu_run and makes it exit.                      *)
(***************************************************************************)
EXTENDS Integers, Sequences

CONSTANT Count     \* config.vcpu_count
ASSUME CountAssumption == Count \in Nat \ {0}

VCPUs == 0..(Count - 1)
Nobody == -1

VARIABLES
  stop, paused, started, power, running, ids,  \* Shared.state
  asleep,    \* vCPU threads in an untimed wait on Shared.changed
  wpc,       \* where each vCPU thread is
  exit,      \* the exit a vCPU thread is about to handle
  kicked,    \* vCPUs that hv_vcpus_exit forces out of the guest
  error,     \* the error a vCPU thread ended with: None, Guest or Disconnected
  reply,     \* reply channel of a vCPU's access: None, Pending, Value, Dropped
  events,    \* the channel from the vCPU threads to the VM
  vpc,       \* where the run thread is in its use of the VM
  hand,      \* the vCPU whose access the run thread handles, or Nobody
  handlerFailed, \* handle_io returned an error and dropped a completion
  polled,    \* poll returned a vCPU fault
  fault      \* stop returned a vCPU fault

state   == <<stop, paused, started, power, running, ids>>
threads == <<wpc, exit, error>>
runtime == <<hand, handlerFailed, polled, fault>>
vars == <<state, asleep, threads, kicked, reply, events, vpc, runtime>>

Exits == {"Cancel", "Emulate", "CpuOff", "CpuOn", "Shutdown", "Mmio", "Bad"}
\* A thread at one of these points executes guest code or touches its registers.
Executing == {"Enter", "Guest", "Exited", "Emulate", "CpuOff", "CpuOn", "Shutdown", "Mmio",
              "ShutdownSent", "MmioSent", "Writeback"}
WPCs == Executing \cup {"Unborn", "Top", "Sleep", "WaitReply", "CompleteIo", "SleepIo",
                        "Failed", "Returned", "Drain", "Destroy", "Dead"}
VPCs == {"Create", "Prepared", "Loop", "Empty", "Handle", "Pausing", "Paused", "Stop",
         "Join", "Drain", "Stopped"}

Event(kind, i) == <<kind, i>>
EventKinds == {"Access", "Failed", "Shutdown"}

CpusTypeOK ==
  /\ stop \in BOOLEAN /\ paused \in BOOLEAN /\ started \in BOOLEAN
  /\ power \in [VCPUs -> {"Off", "Pending", "On"}]
  /\ running \in [VCPUs -> BOOLEAN]
  /\ ids \in [VCPUs -> BOOLEAN]
  /\ asleep \in SUBSET VCPUs
  /\ wpc \in [VCPUs -> WPCs]
  /\ exit \in [VCPUs -> Exits \cup {"None"}]
  /\ kicked \in SUBSET VCPUs
  /\ error \in [VCPUs -> {"None", "Guest", "Disconnected"}]
  /\ reply \in [VCPUs -> {"None", "Pending", "Value", "Dropped"}]
  /\ events \in Seq(EventKinds \X VCPUs)
  /\ vpc \in VPCs
  /\ hand \in VCPUs \cup {Nobody}
  /\ handlerFailed \in BOOLEAN
  /\ polled \in BOOLEAN
  /\ fault \in BOOLEAN

Init ==
  /\ stop = FALSE /\ paused = FALSE /\ started = FALSE
  /\ power = [i \in VCPUs |-> "Off"]
  /\ running = [i \in VCPUs |-> FALSE]
  /\ ids = [i \in VCPUs |-> FALSE]
  /\ asleep = {} /\ kicked = {}
  /\ wpc = [i \in VCPUs |-> "Unborn"]
  /\ exit = [i \in VCPUs |-> "None"]
  /\ error = [i \in VCPUs |-> "None"]
  /\ reply = [i \in VCPUs |-> "None"]
  /\ events = <<>>
  /\ vpc = "Create" /\ hand = Nobody
  /\ handlerFailed = FALSE /\ polled = FALSE /\ fault = FALSE

(***************************************************************************)
(* Helpers.                                                                *)
(***************************************************************************)
Goto(i, to) == wpc' = [wpc EXCEPT ![i] = to]
Move(i, from, to) == wpc[i] = from /\ Goto(i, to)
SomeRunning == \E i \in VCPUs : running[i]
InGuest == {i \in VCPUs : wpc[i] = "Guest" /\ ids[i]}

\* MUTANT: nobody is kicked.
Kick_None == UNCHANGED kicked
\* kick: reaches the vCPUs that are in the guest at this moment.
Kick == kicked' = kicked \cup InGuest
NotifyAll == asleep' = {}
Send(kind, i) == events' = Append(events, Event(kind, i))

\* The thread ends with an error; its epilogue sends it.
Raise(i, from, e) ==
  /\ wpc[i] = from
  /\ Goto(i, "Failed")
  /\ error' = [error EXCEPT ![i] = e]

(***************************************************************************)
(* The vCPU thread: worker().                                              *)
(***************************************************************************)
\* MUTANT: a paused machine does not keep a vCPU from entering the guest.
MustSleep_Unpaused(i) == ~stop /\ (~started \/ power[i] = "Off")
MustSleep(i) == ~stop /\ (~started \/ paused \/ power[i] = "Off")

\* Top of the loop: quiescent, notify, then wait, return, or boot and enter.  A
\* thread woken from the wait re-evaluates the condition under the lock.
Top(i) ==
  LET others == IF wpc[i] = "Top" THEN {} ELSE asleep
      quiet  == running' = [running EXCEPT ![i] = FALSE]
  IN
  /\ wpc[i] = "Top" \/ (wpc[i] = "Sleep" /\ i \notin asleep)
  /\ \/ /\ MustSleep(i)
        /\ Goto(i, "Sleep") /\ quiet /\ asleep' = others \cup {i}
        /\ UNCHANGED <<power, error>>
     \/ /\ stop
        /\ Goto(i, "Returned") /\ quiet /\ asleep' = others
        /\ UNCHANGED <<power, error>>
     \/ /\ ~MustSleep(i) /\ ~stop
        /\ Goto(i, "Enter") /\ running' = [running EXCEPT ![i] = TRUE] /\ asleep' = others
        /\ power' = [power EXCEPT ![i] = "On"]
        /\ UNCHANGED error
     \/ /\ ~MustSleep(i) /\ ~stop /\ power[i] = "Pending"   \* cpu.boot fails
        /\ Raise(i, wpc[i], "Guest") /\ quiet /\ asleep' = others
        /\ UNCHANGED power
  /\ UNCHANGED <<stop, paused, started, ids, exit, kicked, reply, events, vpc, runtime>>

\* The lock is released before hv_vcpu_run: a kick in between does not arrive.
Enter(i) ==
  /\ Move(i, "Enter", "Guest")
  /\ UNCHANGED <<state, asleep, exit, error, kicked, reply, events, vpc, runtime>>

\* cpu.run() returns an exit, or fails.
GuestExit(i, e) ==
  /\ \/ Move(i, "Guest", "Exited") /\ exit' = [exit EXCEPT ![i] = e] /\ UNCHANGED error
     \/ e = "Bad" /\ Raise(i, "Guest", "Guest") /\ UNCHANGED exit
  /\ kicked' = kicked \ {i}
  /\ UNCHANGED <<state, asleep, reply, events, vpc, runtime>>

\* MUTANT: an exit reason nobody handles.
Handled_All(i) == exit[i] # "Cancel"
Handled(i) == exit[i] \notin {"Cancel", "Bad"}

\* shared.stopping() after the exit: a stop discards it.
Decide(i) ==
  /\ wpc[i] = "Exited"
  /\ \/ stop /\ Goto(i, "Returned") /\ UNCHANGED error
     \/ ~stop /\ exit[i] = "Cancel" /\ Goto(i, "Top") /\ UNCHANGED error
     \/ ~stop /\ exit[i] = "Bad" /\ Raise(i, "Exited", "Guest")
     \/ ~stop /\ Handled(i) /\ Goto(i, exit[i]) /\ UNCHANGED error
  /\ exit' = [exit EXCEPT ![i] = "None"]
  /\ UNCHANGED <<state, asleep, kicked, reply, events, vpc, runtime>>

\* PSCI queries, system registers, WFx: register work only, which may fail.
Emulate(i) ==
  /\ \/ Move(i, "Emulate", "Top") /\ UNCHANGED error
     \/ Raise(i, "Emulate", "Guest")
  /\ UNCHANGED <<state, asleep, exit, kicked, reply, events, vpc, runtime>>

CpuOff(i) ==
  /\ Move(i, "CpuOff", "Top")
  /\ power' = [power EXCEPT ![i] = "Off"]
  /\ UNCHANGED <<stop, paused, started, running, ids, asleep, exit, error, kicked, reply,
                 events, vpc, runtime>>

\* MUTANT: CPU_ON accepts a vCPU that is already on.
MayBoot_On(t) == power[t] # "Pending"
MayBoot(t) == power[t] = "Off"

\* on: power up a vCPU that is off; the code returned goes to a register.
CpuOn(i, t) ==
  /\ Move(i, "CpuOn", "Emulate")
  /\ IF MayBoot(t)
     THEN power' = [power EXCEPT ![t] = "Pending"] /\ NotifyAll
     ELSE UNCHANGED <<power, asleep>>
  /\ UNCHANGED <<stop, paused, started, running, ids, exit, error, kicked, reply, events,
                 vpc, runtime>>

\* SYSTEM_OFF and SYSTEM_RESET: the event first, then shared.stop().
Shutdown(i) ==
  /\ Move(i, "Shutdown", "ShutdownSent")
  /\ Send("Shutdown", i)
  /\ UNCHANGED <<state, asleep, exit, error, kicked, reply, vpc, runtime>>

ShutdownStop(i) ==
  /\ Move(i, "ShutdownSent", "Returned")
  /\ stop' = TRUE /\ Kick /\ NotifyAll
  /\ UNCHANGED <<paused, started, power, running, ids, exit, error, reply, events, vpc, runtime>>

(***************************************************************************)
(* MMIO: send the access, become quiescent, wait for the reply, then write *)
(* back behind the pause barrier.                                          *)
(***************************************************************************)
Mmio(i) ==
  /\ \/ /\ Move(i, "Mmio", "MmioSent")
        /\ Send("Access", i)
        /\ reply' = [reply EXCEPT ![i] = "Pending"]
        /\ UNCHANGED error
     \/ Raise(i, "Mmio", "Guest") /\ UNCHANGED <<events, reply>>
  /\ UNCHANGED <<state, asleep, exit, kicked, vpc, runtime>>

\* MUTANT: a thread that waits for its reply counts as running.
QuietInIo_Never(i) == UNCHANGED running
QuietInIo(i) == running' = [running EXCEPT ![i] = FALSE]

\* wait_io
WaitIo(i) ==
  /\ Move(i, "MmioSent", "WaitReply")
  /\ QuietInIo(i) /\ NotifyAll
  /\ UNCHANGED <<stop, paused, started, power, ids, exit, error, kicked, reply, events, vpc,
                 runtime>>

\* wait_reply: a value wins over a stop, a stop over a dropped sender.
WaitReply(i) ==
  /\ wpc[i] = "WaitReply"
  /\ \/ /\ reply[i] = "Value"
        /\ Goto(i, "CompleteIo") /\ reply' = [reply EXCEPT ![i] = "None"] /\ UNCHANGED error
     \/ /\ reply[i] # "Value" /\ stop
        /\ Goto(i, "Returned") /\ UNCHANGED <<reply, error>>
     \/ /\ reply[i] = "Dropped" /\ ~stop
        /\ Raise(i, "WaitReply", "Disconnected") /\ UNCHANGED reply
  /\ UNCHANGED <<state, asleep, exit, kicked, events, vpc, runtime>>

\* MUTANT: the reply is written back although the machine is paused.
BarrierUp_Never == FALSE
BarrierUp == paused /\ ~stop

\* complete_io: wait behind the barrier, then run again.
CompleteIo(i) ==
  /\ wpc[i] = "CompleteIo" \/ (wpc[i] = "SleepIo" /\ i \notin asleep)
  /\ \/ /\ BarrierUp
        /\ Goto(i, "SleepIo") /\ asleep' = asleep \cup {i} /\ UNCHANGED running
     \/ stop /\ Goto(i, "Returned") /\ UNCHANGED <<asleep, running>>
     \/ /\ ~BarrierUp /\ ~stop
        /\ Goto(i, "Writeback") /\ running' = [running EXCEPT ![i] = TRUE] /\ UNCHANGED asleep
  /\ UNCHANGED <<stop, paused, started, power, ids, exit, error, kicked, reply, events, vpc,
                 runtime>>

Writeback(i) ==
  /\ \/ Move(i, "Writeback", "Top") /\ UNCHANGED error
     \/ Raise(i, "Writeback", "Guest")
  /\ UNCHANGED <<state, asleep, exit, kicked, reply, events, vpc, runtime>>

(***************************************************************************)
(* The thread's epilogue in Cpus::create.                                  *)
(***************************************************************************)
\* MUTANTS: the fault is not sent, or sent twice.
SendFailed_Never(i) == UNCHANGED events
SendFailed_Twice(i) == events' = events \o <<Event("Failed", i), Event("Failed", i)>>
SendFailed(i) == Send("Failed", i)

Report(i) ==
  /\ Move(i, "Failed", "Returned")
  /\ SendFailed(i)
  /\ UNCHANGED <<state, asleep, exit, error, kicked, reply, vpc, runtime>>

\* MUTANT: the ending thread waits for itself.
QuietAtEnd_Never(i) == UNCHANGED running
QuietAtEnd(i) == running' = [running EXCEPT ![i] = FALSE]

\* Whatever ended the thread ends the machine.
Epilogue(i) ==
  /\ Move(i, "Returned", "Drain")
  /\ QuietAtEnd(i)
  /\ stop' = TRUE /\ NotifyAll
  /\ UNCHANGED <<paused, started, power, ids, exit, error, kicked, reply, events, vpc, runtime>>

\* MUTANT: the vCPU is destroyed without waiting for the others.
OthersQuiet_Always == TRUE
OthersQuiet == ~SomeRunning

\* A timed wait: kick whoever still runs and look again.
DrainOthers(i) ==
  /\ wpc[i] = "Drain"
  /\ \/ ~OthersQuiet /\ Kick /\ UNCHANGED <<wpc, ids>>
     \/ OthersQuiet /\ Goto(i, "Destroy") /\ ids' = [ids EXCEPT ![i] = FALSE] /\ UNCHANGED kicked
  /\ UNCHANGED <<stop, paused, started, power, running, asleep, exit, error, reply, events,
                 vpc, runtime>>

Destroy(i) ==
  /\ Move(i, "Destroy", "Dead")
  /\ UNCHANGED <<state, asleep, exit, error, kicked, reply, events, vpc, runtime>>

(***************************************************************************)
(* The run thread: prepare and start, then poll_event, handle_io, pause,   *)
(* resume, and finally stop.                                               *)
(***************************************************************************)
To(from, to) == vpc = from /\ vpc' = to
Finished(i) == wpc[i] \in {"Unborn", "Dead"}
SharedStop == stop' = TRUE /\ Kick /\ NotifyAll

\* Cpus::create: in order, each handshake before the next; a failure joins the
\* threads created so far.
Create ==
  /\ vpc = "Create"
  /\ \E i \in VCPUs :
       /\ wpc[i] = "Unborn" /\ \A j \in VCPUs : j < i => wpc[j] # "Unborn"
       /\ \/ /\ Goto(i, "Top") /\ ids' = [ids EXCEPT ![i] = TRUE]
             /\ vpc' = IF i = Count - 1 THEN "Prepared" ELSE "Create"
          \/ vpc' = "Stop" /\ UNCHANGED <<wpc, ids>>
  /\ UNCHANGED <<stop, paused, started, power, running, asleep, exit, error, kicked, reply,
                 events, runtime>>

Start ==
  /\ To("Prepared", "Loop")
  /\ power' = [power EXCEPT ![0] = "Pending"] /\ started' = TRUE /\ NotifyAll
  /\ UNCHANGED <<stop, paused, running, ids, threads, kicked, reply, events, runtime>>

\* poll takes the oldest event; an empty channel is judged after the timeout.
Poll ==
  /\ vpc = "Loop"
  /\ \/ events = <<>> /\ vpc' = "Empty" /\ UNCHANGED <<events, hand, polled>>
     \/ /\ events # <<>> /\ events' = Tail(events)
        /\ \/ Head(events)[1] = "Shutdown" /\ vpc' = "Stop" /\ UNCHANGED <<hand, polled>>
           \/ Head(events)[1] = "Failed" /\ vpc' = "Stop" /\ polled' = TRUE /\ UNCHANGED hand
           \/ /\ Head(events)[1] = "Access" /\ vpc' = "Handle"
              /\ hand' = Head(events)[2] /\ UNCHANGED polled
  /\ UNCHANGED <<state, asleep, threads, kicked, reply, handlerFailed, fault>>

Timeout ==
  /\ To("Empty", IF stop THEN "Stop" ELSE "Loop")
  /\ UNCHANGED <<state, asleep, threads, kicked, reply, events, runtime>>

\* MUTANT: the completion gets lost.
Completion_Lost == "Pending"
Completion == "Value"

\* handle_io completes the access, or fails and drops its completion.
Handle ==
  /\ \/ /\ To("Handle", "Loop")
        /\ reply' = [reply EXCEPT ![hand] = Completion] /\ UNCHANGED handlerFailed
     \/ /\ To("Handle", "Stop")
        /\ reply' = [reply EXCEPT ![hand] = "Dropped"] /\ handlerFailed' = TRUE
  /\ hand' = Nobody
  /\ UNCHANGED <<state, asleep, threads, kicked, events, polled, fault>>

Pause ==
  /\ To("Loop", "Pausing")
  /\ paused' = TRUE
  /\ UNCHANGED <<stop, started, power, running, ids, asleep, threads, kicked, reply, events,
                 runtime>>

\* pause: a timed wait with kicks until all are quiescent or the machine stops.
PauseWait ==
  /\ \/ SomeRunning /\ ~stop /\ To("Pausing", "Pausing") /\ Kick
     \/ stop /\ To("Pausing", "Stop") /\ UNCHANGED kicked
     \/ ~SomeRunning /\ ~stop /\ To("Pausing", "Paused") /\ UNCHANGED kicked
  /\ UNCHANGED <<state, asleep, threads, reply, events, runtime>>

\* MUTANT: resume does not notify the condition variable.
ResumeNotify_Never == UNCHANGED asleep
ResumeNotify == NotifyAll

Resume ==
  /\ To("Paused", "Loop")
  /\ paused' = FALSE /\ ResumeNotify
  /\ UNCHANGED <<stop, started, power, running, ids, threads, kicked, reply, events, runtime>>

\* The runtime gives up: a host stop, an error, or a stop during startup.
GiveUp ==
  /\ To("Prepared", "Stop") \/ To("Loop", "Stop") \/ To("Paused", "Stop")
  /\ UNCHANGED <<state, asleep, threads, kicked, reply, events, runtime>>

Accesses(i) == {k \in 1..Len(events) : events[k] = Event("Access", i)}

\* MUTANT: the channel is drained, and its replies dropped, before the vCPUs stop.
StopVcpus_DrainFirst ==
  /\ events' = <<>>
  /\ reply' = [i \in VCPUs |-> IF Accesses(i) # {} THEN "Dropped" ELSE reply[i]]
  /\ UNCHANGED <<stop, kicked, asleep>>
StopVcpus == SharedStop /\ UNCHANGED <<events, reply>>

\* join: stop every vCPU until all threads are finished ...
Join ==
  /\ \/ To("Stop", "Join") /\ StopVcpus
     \/ To("Join", "Join") /\ (\E i \in VCPUs : ~Finished(i)) /\ SharedStop /\ UNCHANGED <<events, reply>>
     \/ /\ To("Join", "Drain") /\ \A i \in VCPUs : Finished(i)
        /\ UNCHANGED <<stop, kicked, asleep, events, reply>>
  /\ UNCHANGED <<paused, started, power, running, ids, threads, runtime>>

\* ... then drain returns the first fault that poll has not returned.
Drain ==
  /\ To("Drain", "Stopped")
  /\ fault' = (\E k \in 1..Len(events) : events[k][1] = "Failed")
  /\ events' = <<>>
  /\ UNCHANGED <<state, asleep, threads, kicked, reply, hand, handlerFailed, polled>>

\* Repeated calls, Drop's among them, find no thread and no event.
StopAgain == vpc = "Stopped" /\ UNCHANGED vars

(***************************************************************************)
(* The system.                                                             *)
(***************************************************************************)
\* What a vCPU thread does by itself, the guest's own exits aside.
WorkerStep(i) ==
  \/ Top(i) \/ Enter(i) \/ Decide(i) \/ Emulate(i) \/ CpuOff(i)
  \/ \E t \in VCPUs : CpuOn(i, t)
  \/ Shutdown(i) \/ ShutdownStop(i) \/ Mmio(i) \/ WaitIo(i) \/ WaitReply(i)
  \/ CompleteIo(i) \/ Writeback(i) \/ Report(i) \/ Epilogue(i) \/ DrainOthers(i) \/ Destroy(i)

RunLoop == Poll \/ Timeout \/ Handle \/ PauseWait
Teardown == Join \/ Drain

Next ==
  \/ \E i \in VCPUs : WorkerStep(i) \/ \E e \in Exits : GuestExit(i, e)
  \/ Create \/ Start \/ RunLoop \/ Pause \/ Resume \/ GiveUp \/ Teardown \/ StopAgain

\* Threads are scheduled, a kicked vCPU leaves the guest, and the run loop goes on
\* polling; a guest need not exit and a host need not resume or stop.
Fairness ==
  /\ \A i \in VCPUs :
       /\ WF_vars(WorkerStep(i))
       /\ WF_vars(i \in kicked /\ GuestExit(i, "Cancel"))
  /\ WF_vars(RunLoop) /\ WF_vars(Teardown)

Spec == Init /\ [][Next]_vars /\ Fairness

(***************************************************************************)
(* Correctness.                                                            *)
(***************************************************************************)
\* "pause must quiesce every vCPU, including exception handling and I/O completion
\* writeback": from the return of Paused to resume no thread is in the guest, in an
\* exit handler or in a writeback, whatever replies arrive meanwhile.
PauseBarrier == vpc = "Paused" => \A i \in VCPUs : wpc[i] \notin Executing

\* "Never destroy a GIC CPU resource while another vCPU executes": when one vCPU is
\* being destroyed or gone, no other one is in the guest, nor will it enter.
DestroyAlone ==
  (\E i \in VCPUs : wpc[i] \in {"Destroy", "Dead"}) =>
     \A j \in VCPUs : wpc[j] \notin {"Enter", "Guest"}

\* A vCPU executes only while PSCI says it is on: CPU_ON of a vCPU that is on, off
\* or starting never boots it a second time under its own feet.
GuestIsOn == \A i \in VCPUs : wpc[i] \in Executing => power[i] = "On"

\* Who may be in the guest, and when: nobody behind the barrier, nobody next to
\* the destruction of a vCPU, and only a vCPU that is on.
MayExecute == PauseBarrier /\ DestroyAlone /\ GuestIsOn

\* "A queued access owns its reply channel; it remains pending across pause": the
\* access of a thread that waits for its reply is queued or in the run thread's hands,
\* exactly once, until it is answered or dropped.
ReplyOwed ==
  \A i \in VCPUs : wpc[i] \in {"MmioSent", "WaitReply"} =>
     \/ reply[i] = "Pending" /\ hand = i /\ Accesses(i) = {}
     \/ reply[i] = "Pending" /\ hand # i /\ \E k \in 1..Len(events) : Accesses(i) = {k}
     \/ reply[i] \in {"Value", "Dropped"} /\ hand # i /\ Accesses(i) = {}

\* The channel is unbounded, but a thread never has two events in it: an access is
\* answered before the thread goes on, and a fault or shutdown is its last word.
OneEventEach == \A j, k \in 1..Len(events) : events[j][2] = events[k][2] => j = k

\* A thread asleep in an untimed wait has a reason to sleep: start, CPU_ON, resume
\* and every way of stopping wake it.
VcpuWakeups ==
  \A i \in asleep : IF wpc[i] = "SleepIo" THEN BarrierUp ELSE wpc[i] = "Sleep" /\ MustSleep(i)

\* A vCPU waits only for what is on its way: its event is in the channel or with
\* the run thread, no vCPU has two, and none sleeps over a wake-up.
EventsAccounted == ReplyOwed /\ OneEventEach /\ VcpuWakeups

\* "return the first vCPU fault not already returned by poll_event": if a vCPU failed,
\* then after stop a fault was returned, by poll or by stop, however the two raced.  Of
\* several faults the first one found is enough.
FaultReported ==
  vpc = "Stopped" /\ (\E i \in VCPUs : error[i] # "None") => polled \/ fault

\* "None means the VM is stopping; a reply channel dropped while the VM keeps running
\* is a fault": a host stop never turns an access in flight into a fault; only a
\* failed handler does.
NoSpuriousFault == (\E i \in VCPUs : error[i] = "Disconnected") => handlerFailed

\* A fault is reported if and only if there is one, however the stop, the last
\* poll and the dropped replies interleave.
FaultsExact == FaultReported /\ NoSpuriousFault

\* Once stop is set, by a guest shutdown, a fault or the host, every vCPU thread ends
\* without the run thread's help: none waits for another one that waits for it.
ThreadsEnd == stop ~> \A i \in VCPUs : Finished(i)

\* pause returns: "an I/O waiter must not prevent quiescence".
PauseReturns == vpc = "Pausing" ~> vpc \in {"Paused", "Stop"}

\* A machine that ends, by itself or by stop, is noticed by the run loop and torn
\* down, unless the run thread sleeps over a pause.
EndsUnlessPaused == stop ~> vpc \in {"Paused", "Stopped"}

\* No thread waits for ever: neither the vCPUs for each other, nor pause for a
\* vCPU, nor the teardown for either.
CpusProgress == ThreadsEnd /\ PauseReturns /\ EndsUnlessPaused

\* The vCPUs implement the VirtualMachine contract (module Machine).
Mode ==
  CASE vpc \in {"Create", "Prepared"} -> "Idle"
    [] vpc \in {"Stop", "Join", "Drain"} -> "Ending"
    [] vpc \in {"Paused", "Stopped"} -> vpc
    [] OTHER -> "Active"
Unreported ==
  \/ \E i \in VCPUs : wpc[i] = "Failed"
  \/ \E k \in 1..Len(events) : events[k][1] = "Failed"
Contract == INSTANCE Machine WITH
  mode <- Mode, executing <- {i \in VCPUs : wpc[i] \in Executing}, unreported <- Unreported
ContractRefinement == Contract!Spec
==============================================================================
