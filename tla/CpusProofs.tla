----------------------------- MODULE CpusProofs ------------------------------
(***************************************************************************)
(* Proofs about the vCPU threads, their events and the pause barrier, for  *)
(* any number of vCPUs, and that they implement module Machine.            *)
(***************************************************************************)
EXTENDS Cpus, TLAPS

USE CountAssumption

(***************************************************************************)
(* The inductive invariant.                                                *)
(***************************************************************************)
\* Where a thread is between the send of its access and the write back.
InIo == {"WaitReply", "CompleteIo", "SleepIo"}
Ended == {"Drain", "Destroy", "Dead"}

\* Code that executes under Shared.running and an On vCPU of a started machine.
ExecutesOn ==
  /\ \A i \in VCPUs : wpc[i] \in Executing => running[i]
  /\ \A i \in VCPUs : wpc[i] \in Executing \cup InIo => started /\ power[i] = "On"
  /\ vpc \in {"Create", "Prepared"} => ~started

\* The barrier stays up while the run thread pauses, and the end of one thread
\* stops all the others before its vCPU goes.
Barriers ==
  /\ vpc \in {"Pausing", "Paused"} => paused
  /\ PauseBarrier
  /\ \A i \in VCPUs : wpc[i] \in Ended => stop
  /\ (\E i \in VCPUs : wpc[i] \in {"Destroy", "Dead"}) =>
        \A j \in VCPUs : wpc[j] \notin Executing

\* The channel holds such an event of a vCPU.
In(q, kind, i) == \E k \in 1..Len(q) : q[k] = Event(kind, i)
OneEach(q) == \A j, k \in 1..Len(q) : q[j][2] = q[k][2] => j = k

\* Whose event can be in the channel, or its access with the run thread.
EventsOwned ==
  /\ \A i \in VCPUs :
       /\ In(events, "Access", i) => wpc[i] \in {"MmioSent", "WaitReply", "Returned"} \cup Ended
       /\ In(events, "Failed", i) => wpc[i] \in {"Returned"} \cup Ended
       /\ In(events, "Shutdown", i) => wpc[i] \in {"ShutdownSent", "Returned"} \cup Ended
  /\ vpc = "Handle" => hand \in VCPUs
  /\ vpc # "Handle" => hand = Nobody
  /\ hand \in VCPUs => wpc[hand] \in {"MmioSent", "WaitReply", "Returned"} \cup Ended

\* ReplyOwed, without the position in the channel.
AccessOwed ==
  \A i \in VCPUs : wpc[i] \in {"MmioSent", "WaitReply"} =>
     \/ reply[i] = "Pending" /\ hand = i /\ ~In(events, "Access", i)
     \/ reply[i] = "Pending" /\ hand # i /\ In(events, "Access", i)
     \/ reply[i] \in {"Value", "Dropped"} /\ hand # i /\ ~In(events, "Access", i)

\* Where an error is on its way to the caller, and where "Disconnected" comes from.
FaultsOwned ==
  /\ \A i \in VCPUs : error[i] # "None" =>
       wpc[i] = "Failed" \/ polled \/ fault \/ In(events, "Failed", i)
  /\ \A i \in VCPUs : reply[i] = "Dropped" => handlerFailed
  /\ \A i \in VCPUs : error[i] = "Disconnected" => handlerFailed
  /\ vpc \in {"Drain", "Stopped"} => \A i \in VCPUs : Finished(i)
  /\ vpc = "Stopped" => events = <<>>
  /\ fault => vpc = "Stopped"

\* An exit is there until it is handled.
ExitKnown == \A i \in VCPUs : wpc[i] = "Exited" => exit[i] \in Exits

IInv ==
  /\ CpusTypeOK /\ ExitKnown /\ ExecutesOn /\ Barriers
  /\ EventsOwned /\ AccessOwed /\ OneEventEach
  /\ VcpuWakeups /\ FaultsOwned

(***************************************************************************)
(* Types.                                                                  *)
(***************************************************************************)
\* Nobody is no vCPU.
LEMMA NobodyIsOut == Nobody \notin VCPUs
BY DEF Nobody, VCPUs

\* The channel: an event of a vCPU goes in at the end, the oldest comes out.
LEMMA SendTyped ==
  ASSUME events \in Seq(EventKinds \X VCPUs), NEW kind \in EventKinds, NEW i \in VCPUs,
         Send(kind, i)
  PROVE  events' \in Seq(EventKinds \X VCPUs)
<1>1. Event(kind, i) \in EventKinds \X VCPUs
  BY DEF Event
<1>2. \A S : \A q \in Seq(S) : \A e \in S : Append(q, e) \in Seq(S)
  OBVIOUS
<1> QED
  BY <1>1, <1>2, Zenon DEF Send

\* Taking an event off the channel keeps the channel typed.
LEMMA TailTyped ==
  ASSUME events \in Seq(EventKinds \X VCPUs), events # <<>>
  PROVE  Tail(events) \in Seq(EventKinds \X VCPUs) /\ Head(events)[2] \in VCPUs
<1>1. \A S : \A q \in Seq(S) : q # <<>> => Tail(q) \in Seq(S) /\ Head(q) \in S
  OBVIOUS
<1>2. Head(events) \in EventKinds \X VCPUs /\ Tail(events) \in Seq(EventKinds \X VCPUs)
  BY <1>1, Zenon
<1> QED
  BY <1>2

\* What the shared state, the threads, the channel and the run thread hold, through
\* every step of either; an exit that is handled is one hv_vcpu_run returned.
LEMMA TypeStep == ASSUME CpusTypeOK, ExitKnown, Next PROVE CpusTypeOK' /\ ExitKnown'
<1> USE DEF CpusTypeOK, ExitKnown, state, threads, runtime, Goto, Move, Raise, Kick, InGuest, NotifyAll,
        Send, Event, EventKinds, To, SharedStop, WPCs, Executing
<1>1. ASSUME NEW i \in VCPUs, WorkerStep(i) PROVE CpusTypeOK' /\ ExitKnown'
  <2>1. CASE Top(i)
    <3>1. running' \in [VCPUs -> BOOLEAN]
      BY <2>1, Zenon DEF Top
    <3> QED
      BY <2>1, <3>1 DEF Top
  <2>2. CASE Enter(i) \/ Destroy(i)
    BY <2>2 DEF Enter, Destroy
  <2>14. CASE Emulate(i) \/ Writeback(i)
    BY <2>14 DEF Emulate, Writeback
  <2>3. CASE Decide(i)
    <3>1. exit' = [exit EXCEPT ![i] = "None"]
      BY <2>3 DEF Decide
    <3>2. PICK to \in WPCs \ {"Exited"} : Goto(i, to)
      <4>1. exit[i] \in Exits
        BY <2>3 DEF Decide
      <4>2. Handled(i) => exit[i] \in WPCs \ {"Exited"}
        BY <4>1 DEF Handled, Exits
      <4> HIDE DEF Goto
      <4> QED
        BY <2>3, <4>2 DEF Decide
    <3>3. error' \in [VCPUs -> {"None", "Guest", "Disconnected"}]
      BY <2>3 DEF Decide
    <3>4. ExitKnown'
      BY <3>1, <3>2
    <3> QED
      BY <2>3, <3>1, <3>2, <3>3, <3>4 DEF Decide
  <2>4. CASE CpuOff(i)
    BY <2>4 DEF CpuOff
  <2>5. CASE \E t \in VCPUs : CpuOn(i, t)
    BY <2>5 DEF CpuOn
  <2>6. CASE Shutdown(i) \/ Report(i)
    <3>1. events' \in Seq(EventKinds \X VCPUs)
      BY <2>6, SendTyped DEF Shutdown, Report, SendFailed
    <3> QED
      BY <2>6, <3>1 DEF Shutdown, Report
  <2>7. CASE ShutdownStop(i)
    <3>1. stop' \in BOOLEAN
      BY <2>7, Zenon DEF ShutdownStop
    <3> QED
      BY <2>7, <3>1 DEF ShutdownStop
  <2>8. CASE Mmio(i)
    <3>1. events' \in Seq(EventKinds \X VCPUs)
      BY <2>8, SendTyped DEF Mmio
    <3> QED
      BY <2>8, <3>1 DEF Mmio
  <2>9. CASE WaitIo(i)
    <3>1. running' \in [VCPUs -> BOOLEAN]
      BY <2>9, Zenon DEF WaitIo, QuietInIo
    <3> QED
      BY <2>9, <3>1 DEF WaitIo
  <2>10. CASE WaitReply(i)
    BY <2>10 DEF WaitReply
  <2>11. CASE CompleteIo(i)
    <3>1. running' \in [VCPUs -> BOOLEAN]
      BY <2>11, Zenon DEF CompleteIo
    <3> QED
      BY <2>11, <3>1 DEF CompleteIo
  <2>12. CASE Epilogue(i)
    <3>1. stop' \in BOOLEAN /\ running' \in [VCPUs -> BOOLEAN]
      BY <2>12, Zenon DEF Epilogue, QuietAtEnd
    <3> QED
      BY <2>12, <3>1 DEF Epilogue
  <2>13. CASE DrainOthers(i)
    <3>1. ids' \in [VCPUs -> BOOLEAN]
      BY <2>13, Zenon DEF DrainOthers
    <3> QED
      BY <2>13, <3>1 DEF DrainOthers
  <2> QED
    BY <1>1, <2>1, <2>2, <2>3, <2>4, <2>5, <2>6, <2>7, <2>8, <2>9, <2>10, <2>11, <2>12, <2>13,
       <2>14
       DEF WorkerStep
<1>2. ASSUME NEW i \in VCPUs, NEW e \in Exits, GuestExit(i, e) PROVE CpusTypeOK' /\ ExitKnown'
  <2>1. exit' \in [VCPUs -> Exits \cup {"None"}] /\ wpc' \in [VCPUs -> WPCs]
    BY <1>2 DEF GuestExit
  <2>2. ExitKnown'
    BY <1>2 DEF GuestExit
  <2> QED
    BY <1>2, <2>1, <2>2 DEF GuestExit
<1>3. CASE Create
  <2>1. ids' \in [VCPUs -> BOOLEAN]
    BY <1>3, Zenon DEF Create
  <2> QED
    BY <1>3, <2>1 DEF Create, VPCs
<1>4. CASE Start
  <2>1. started' \in BOOLEAN
    BY <1>4, Zenon DEF Start
  <2> QED
    BY <1>4, <2>1 DEF Start, VPCs
<1>5. CASE RunLoop
  <2>1. CASE Poll
    <3>1. polled' \in BOOLEAN
      BY <2>1, Zenon DEF Poll
    <3>2. events' \in Seq(EventKinds \X VCPUs) /\ hand' \in VCPUs \cup {Nobody}
      BY <2>1, TailTyped DEF Poll
    <3> QED
      BY <2>1, <3>1, <3>2 DEF Poll, VPCs
  <2>2. CASE Handle
    <3>1. handlerFailed' \in BOOLEAN
      BY <2>2, Zenon DEF Handle
    <3> QED
      BY <2>2, <3>1 DEF Handle, VPCs, Completion
  <2>3. CASE Timeout \/ PauseWait
    BY <2>3 DEF Timeout, PauseWait, VPCs
  <2> QED
    BY <1>5, <2>1, <2>2, <2>3 DEF RunLoop
<1>6. CASE Pause \/ Resume
  <2>1. paused' \in BOOLEAN
    BY <1>6, Zenon DEF Pause, Resume
  <2> QED
    BY <1>6, <2>1 DEF Pause, Resume, ResumeNotify, VPCs
<1>7. CASE GiveUp \/ StopAgain
  BY <1>7 DEF GiveUp, StopAgain, vars, VPCs
<1>8. CASE Join
  <2>1. stop' \in BOOLEAN
    BY <1>8, Zenon DEF Join, StopVcpus
  <2> QED
    BY <1>8, <2>1 DEF Join, StopVcpus, VPCs
<1>9. CASE Drain
  <2>1. fault' \in BOOLEAN
    BY <1>9, Zenon DEF Drain
  <2> QED
    BY <1>9, <2>1 DEF Drain, VPCs
<1> QED
  BY <1>1, <1>2, <1>3, <1>4, <1>5, <1>6, <1>7, <1>8, <1>9 DEF Next, Teardown

(***************************************************************************)
(* Who may execute.                                                        *)
(***************************************************************************)
\* A thread enters Executing only at the top of the loop, where it sets running and
\* boots, or behind complete_io; power goes down by its own CPU_OFF, and CPU_ON
\* touches only a vCPU that is off.
LEMMA ExecutesStep == ASSUME CpusTypeOK, ExitKnown, ExecutesOn, Next PROVE ExecutesOn'
<1>1. /\ wpc \in [VCPUs -> WPCs] /\ running \in [VCPUs -> BOOLEAN]
      /\ power \in [VCPUs -> {"Off", "Pending", "On"}]
  BY DEF CpusTypeOK
<1> USE <1>1 DEF ExecutesOn, state, threads, Goto, Move, Raise, Executing, InIo, To
<1>2. ASSUME NEW i \in VCPUs, WorkerStep(i) PROVE ExecutesOn'
  <2>1. CASE Top(i)
    BY <2>1 DEF Top, MustSleep
  <2>2. CASE Enter(i) \/ Emulate(i) \/ Destroy(i)
    BY <2>2 DEF Enter, Emulate, Destroy
  <2>3. CASE Decide(i)
    <3>1. PICK to : Goto(i, to) /\ wpc[i] = "Exited"
      BY <2>3 DEF Decide
    <3> QED
      BY <2>3, <3>1 DEF Decide
  <2>4. CASE CpuOff(i)
    BY <2>4 DEF CpuOff
  <2>5. CASE \E t \in VCPUs : CpuOn(i, t)
    BY <2>5 DEF CpuOn, MayBoot
  <2>6. CASE Shutdown(i) \/ Report(i) \/ ShutdownStop(i)
    BY <2>6 DEF Shutdown, Report, ShutdownStop
  <2>7. CASE Mmio(i) \/ WaitReply(i)
    BY <2>7 DEF Mmio, WaitReply
  <2>8. CASE WaitIo(i)
    BY <2>8 DEF WaitIo, QuietInIo
  <2>9. CASE CompleteIo(i)
    BY <2>9 DEF CompleteIo
  <2>10. CASE Writeback(i) \/ DrainOthers(i)
    BY <2>10 DEF Writeback, DrainOthers
  <2>11. CASE Epilogue(i)
    BY <2>11 DEF Epilogue, QuietAtEnd
  <2> QED
    BY <1>2, <2>1, <2>2, <2>3, <2>4, <2>5, <2>6, <2>7, <2>8, <2>9, <2>10, <2>11 DEF WorkerStep
<1>3. ASSUME NEW i \in VCPUs, NEW e \in Exits, GuestExit(i, e) PROVE ExecutesOn'
  BY <1>3 DEF GuestExit
<1>4. CASE Create
  BY <1>4 DEF Create
<1>5. CASE Start
  BY <1>5 DEF Start
<1>6. CASE RunLoop
  BY <1>6 DEF RunLoop, Poll, Timeout, Handle, PauseWait
<1>7. CASE Pause \/ Resume \/ GiveUp
  BY <1>7 DEF Pause, Resume, GiveUp
<1>8. CASE Teardown \/ StopAgain
  <2>1. CASE Drain
    <3>1. UNCHANGED <<state, threads>> /\ vpc' = "Stopped"
      BY <2>1, Zenon DEF Drain
    <3> QED
      BY <3>1
  <2> QED
    BY <1>8, <2>1 DEF Teardown, Join, StopAgain, vars
<1> QED
  BY <1>2, <1>3, <1>4, <1>5, <1>6, <1>7, <1>8 DEF Next

\* Behind the barrier nobody enters; a thread that drains has set stop and goes on
\* to destroy its vCPU only when nobody runs, and after stop nobody runs again.
LEMMA BarrierStep == ASSUME CpusTypeOK, ExitKnown, ExecutesOn, Barriers, Next PROVE Barriers'
<1>1. /\ wpc \in [VCPUs -> WPCs] /\ running \in [VCPUs -> BOOLEAN]
      /\ paused \in BOOLEAN /\ stop \in BOOLEAN
      /\ \A i \in VCPUs : wpc[i] \in Executing => running[i]
  BY DEF CpusTypeOK, ExecutesOn
<1> USE <1>1 DEF Barriers, PauseBarrier, state, threads, Goto, Move, Raise, Executing, Ended, To
<1>2. ASSUME NEW i \in VCPUs, WorkerStep(i) PROVE Barriers'
  <2>1. CASE Top(i)
    BY <2>1 DEF Top, MustSleep
  <2>2. CASE Enter(i) \/ Emulate(i)
    BY <2>2 DEF Enter, Emulate
  <2>3. CASE Decide(i)
    <3>1. PICK to \in WPCs \ Ended : Goto(i, to) /\ wpc[i] = "Exited"
      <4>1. exit[i] \in Exits
        BY <2>3 DEF Decide, ExitKnown
      <4> HIDE DEF Goto
      <4> QED
        BY <2>3, <4>1 DEF Decide, Handled, Exits, WPCs
    <3> QED
      BY <2>3, <3>1 DEF Decide
  <2>4. CASE CpuOff(i)
    BY <2>4 DEF CpuOff
  <2>5. CASE \E t \in VCPUs : CpuOn(i, t)
    BY <2>5 DEF CpuOn
  <2>6. CASE Shutdown(i) \/ Report(i)
    BY <2>6 DEF Shutdown, Report
  <2>7. CASE ShutdownStop(i)
    BY <2>7 DEF ShutdownStop
  <2>8. CASE Mmio(i) \/ WaitReply(i)
    BY <2>8 DEF Mmio, WaitReply
  <2>9. CASE WaitIo(i)
    BY <2>9 DEF WaitIo
  <2>10. CASE CompleteIo(i)
    BY <2>10 DEF CompleteIo, BarrierUp
  <2>11. CASE Writeback(i) \/ Destroy(i)
    BY <2>11 DEF Writeback, Destroy
  <2>12. CASE Epilogue(i)
    BY <2>12 DEF Epilogue
  <2>13. CASE DrainOthers(i)
    BY <2>13 DEF DrainOthers, OthersQuiet, SomeRunning
  <2> QED
    BY <1>2, <2>1, <2>2, <2>3, <2>4, <2>5, <2>6, <2>7, <2>8, <2>9, <2>10, <2>11, <2>12, <2>13
       DEF WorkerStep
<1>3. ASSUME NEW i \in VCPUs, NEW e \in Exits, GuestExit(i, e) PROVE Barriers'
  BY <1>3 DEF GuestExit
<1>4. CASE Create
  BY <1>4 DEF Create
<1>5. CASE Start
  BY <1>5 DEF Start
<1>6. CASE Poll \/ Timeout \/ Handle
  BY <1>6 DEF Poll, Timeout, Handle
<1>7. CASE PauseWait
  BY <1>7 DEF PauseWait, SomeRunning
<1>8. CASE Pause \/ Resume \/ GiveUp
  BY <1>8 DEF Pause, Resume, GiveUp
<1>9. CASE Teardown \/ StopAgain
  BY <1>9 DEF Teardown, Join, StopVcpus, SharedStop, Drain, StopAgain, vars
<1> QED
  BY <1>2, <1>3, <1>4, <1>5, <1>6, <1>7, <1>8, <1>9 DEF Next, RunLoop

(***************************************************************************)
(* Wake-ups.                                                               *)
(***************************************************************************)
\* Every step that ends a reason to sleep empties the set of sleepers, and a thread
\* joins it only when it has one.
LEMMA WakeStep == ASSUME CpusTypeOK, VcpuWakeups, Next PROVE VcpuWakeups'
<1>1. /\ wpc \in [VCPUs -> WPCs] /\ power \in [VCPUs -> {"Off", "Pending", "On"}]
      /\ asleep \in SUBSET VCPUs
  BY DEF CpusTypeOK
<1> USE <1>1 DEF VcpuWakeups, state, threads, Goto, Move, Raise, To, NotifyAll, MustSleep,
        BarrierUp
<1>2. ASSUME NEW i \in VCPUs, WorkerStep(i) PROVE VcpuWakeups'
  <2>1. CASE Top(i)
    BY <2>1 DEF Top
  <2>2. CASE Enter(i) \/ Emulate(i) \/ Decide(i)
    BY <2>2 DEF Enter, Emulate, Decide
  <2>3. CASE CpuOff(i)
    BY <2>3 DEF CpuOff
  <2>4. CASE \E t \in VCPUs : CpuOn(i, t)
    BY <2>4 DEF CpuOn
  <2>5. CASE Shutdown(i) \/ ShutdownStop(i) \/ Report(i) \/ Epilogue(i)
    BY <2>5 DEF Shutdown, ShutdownStop, Report, Epilogue
  <2>6. CASE Mmio(i) \/ WaitIo(i) \/ WaitReply(i)
    BY <2>6 DEF Mmio, WaitIo, WaitReply
  <2>7. CASE CompleteIo(i)
    BY <2>7 DEF CompleteIo
  <2>8. CASE Writeback(i) \/ DrainOthers(i) \/ Destroy(i)
    BY <2>8 DEF Writeback, DrainOthers, Destroy
  <2> QED
    BY <1>2, <2>1, <2>2, <2>3, <2>4, <2>5, <2>6, <2>7, <2>8 DEF WorkerStep
<1>3. ASSUME NEW i \in VCPUs, NEW e \in Exits, GuestExit(i, e) PROVE VcpuWakeups'
  BY <1>3 DEF GuestExit
<1>4. CASE Create
  BY <1>4 DEF Create
<1>5. CASE Start \/ Pause \/ Resume \/ GiveUp
  BY <1>5 DEF Start, Pause, Resume, ResumeNotify, GiveUp
<1>6. CASE RunLoop
  BY <1>6 DEF RunLoop, Poll, Timeout, Handle, PauseWait
<1>7. CASE Join \/ StopAgain
  BY <1>7 DEF Join, StopVcpus, SharedStop, StopAgain, vars
<1>8. CASE Drain
  <2>1. UNCHANGED <<state, threads, asleep>>
    BY <1>8, Zenon DEF Drain
  <2> QED
    BY <2>1
<1> QED
  BY <1>2, <1>3, <1>4, <1>5, <1>6, <1>7, <1>8 DEF Next, Teardown

(***************************************************************************)
(* The channel.                                                            *)
(***************************************************************************)
\* Sending adds one event and takes none away.
LEMMA InAppend ==
  ASSUME NEW q \in Seq(EventKinds \X VCPUs), NEW kind \in EventKinds, NEW i \in VCPUs
  PROVE  \A k \in EventKinds, j \in VCPUs :
           In(Append(q, Event(kind, i)), k, j) <=> In(q, k, j) \/ (k = kind /\ j = i)
<1> DEFINE r == Append(q, Event(kind, i))
<1>1. Len(r) = Len(q) + 1 /\ r[Len(q) + 1] = Event(kind, i) /\ Len(q) \in Nat
  OBVIOUS
<1>2. \A n \in 1..Len(q) : r[n] = q[n]
  OBVIOUS
<1> HIDE DEF r
<1>3. \A k, j : Event(k, j) = Event(kind, i) <=> k = kind /\ j = i
  BY DEF Event
<1>4. \A k, j : In(r, k, j) <=> In(q, k, j) \/ Event(k, j) = Event(kind, i)
  <2> TAKE k, j
  <2>1. ASSUME In(r, k, j) PROVE In(q, k, j) \/ Event(k, j) = Event(kind, i)
    <3>1. PICK n \in 1..Len(r) : r[n] = Event(k, j)
      BY <2>1 DEF In
    <3>2. CASE n \in 1..Len(q)
      BY <1>2, <3>1, <3>2 DEF In
    <3>3. CASE n = Len(q) + 1
      BY <1>1, <3>1, <3>3
    <3> QED
      BY <1>1, <3>2, <3>3
  <2>2. ASSUME In(q, k, j) PROVE In(r, k, j)
    <3>1. PICK n \in 1..Len(q) : q[n] = Event(k, j)
      BY <2>2 DEF In
    <3>2. n \in 1..Len(r)
      BY <1>1
    <3> QED
      BY <1>2, <3>1, <3>2 DEF In
  <2>3. ASSUME Event(k, j) = Event(kind, i) PROVE In(r, k, j)
    <3>1. Len(q) + 1 \in 1..Len(r)
      BY <1>1
    <3> QED
      BY <1>1, <2>3, <3>1 DEF In
  <2> QED
    BY <2>1, <2>2, <2>3
<1> QED
  BY <1>3, <1>4 DEF r

\* The event that poll takes is the oldest one of the channel.
LEMMA InHead ==
  ASSUME NEW q \in Seq(EventKinds \X VCPUs), q # <<>>
  PROVE  \E k \in EventKinds, j \in VCPUs : Head(q) = Event(k, j) /\ In(q, k, j)
BY DEF In, Event

\* When no vCPU has two events, taking the oldest takes exactly that one.
LEMMA InTail ==
  ASSUME NEW q \in Seq(EventKinds \X VCPUs), q # <<>>, OneEach(q),
         NEW k \in EventKinds, NEW j \in VCPUs
  PROVE  In(Tail(q), k, j) <=> In(q, k, j) /\ Head(q) # Event(k, j)
<1>1. \A n \in 1..Len(Tail(q)) : n + 1 \in 1..Len(q) /\ Tail(q)[n] = q[n + 1]
  OBVIOUS
<1>2. \A n \in 2..Len(q) : n - 1 \in 1..Len(Tail(q)) /\ Tail(q)[n - 1] = q[n]
  OBVIOUS
<1>3. Head(q) = q[1] /\ 1 \in 1..Len(q)
  OBVIOUS
<1>4. ASSUME In(Tail(q), k, j) PROVE In(q, k, j) /\ Head(q) # Event(k, j)
  <2>1. PICK n \in 1..Len(Tail(q)) : q[n + 1] = Event(k, j) /\ n + 1 \in 1..Len(q)
    BY <1>1, <1>4 DEF In
  <2>2. n + 1 # 1
    OBVIOUS
  <2>3. q[1] # Event(k, j)
    BY <1>3, <2>1, <2>2 DEF OneEach
  <2> QED
    BY <1>3, <2>1, <2>3 DEF In
<1>5. ASSUME In(q, k, j), Head(q) # Event(k, j) PROVE In(Tail(q), k, j)
  <2>1. PICK n \in 1..Len(q) : q[n] = Event(k, j)
    BY <1>5 DEF In
  <2>2. n \in 2..Len(q)
    BY <1>3, <1>5, <2>1
  <2> QED
    BY <1>2, <2>1, <2>2 DEF In
<1> QED
  BY <1>4, <1>5

\* Taking an event keeps at most one event per vCPU.
LEMMA OneEachTail ==
  ASSUME NEW q \in Seq(EventKinds \X VCPUs), q # <<>>, OneEach(q)
  PROVE  OneEach(Tail(q))
BY DEF OneEach

\* So does sending one for a vCPU that has none in the channel.
LEMMA OneEachAppend ==
  ASSUME NEW q \in Seq(EventKinds \X VCPUs), OneEach(q), NEW kind \in EventKinds, NEW i \in VCPUs,
         \A k \in EventKinds : ~In(q, k, i)
  PROVE  OneEach(Append(q, Event(kind, i)))
<1> DEFINE r == Append(q, Event(kind, i))
<1>1. Len(r) = Len(q) + 1 /\ r[Len(q) + 1] = Event(kind, i) /\ Len(q) \in Nat
  OBVIOUS
<1>2. \A n \in 1..Len(q) : r[n] = q[n]
  OBVIOUS
<1>3. \A n \in 1..Len(q) : q[n][2] # i
  <2> SUFFICES ASSUME NEW n \in 1..Len(q), q[n][2] = i PROVE FALSE
    OBVIOUS
  <2>1. q[n] \in EventKinds \X VCPUs
    OBVIOUS
  <2>2. q[n] = <<q[n][1], i>> /\ q[n][1] \in EventKinds
    BY <2>1
  <2> QED
    BY <2>2 DEF In, Event
<1> HIDE DEF r
<1>4. ASSUME NEW m \in 1..Len(r), NEW n \in 1..Len(r), r[m][2] = r[n][2] PROVE m = n
  <2>1. CASE m \in 1..Len(q) /\ n \in 1..Len(q)
    BY <1>2, <1>4, <2>1 DEF OneEach
  <2>2. CASE m = Len(q) + 1 /\ n \in 1..Len(q)
    BY <1>1, <1>2, <1>3, <1>4, <2>2 DEF Event
  <2>3. CASE n = Len(q) + 1 /\ m \in 1..Len(q)
    BY <1>1, <1>2, <1>3, <1>4, <2>3 DEF Event
  <2> QED
    BY <1>1, <2>1, <2>2, <2>3
<1> QED
  BY <1>4 DEF OneEach, r

\* Every event in the channel is the last word of its thread, or the access it waits
\* for; an access is in the channel, with the run thread or answered.
LEMMA EventStep ==
  ASSUME CpusTypeOK, ExitKnown, EventsOwned, AccessOwed, OneEventEach, FaultsOwned, Next
  PROVE  EventsOwned' /\ AccessOwed' /\ OneEventEach'
<1>1. /\ wpc \in [VCPUs -> WPCs] /\ reply \in [VCPUs -> {"None", "Pending", "Value", "Dropped"}]
      /\ hand \in VCPUs \cup {Nobody}
  BY DEF CpusTypeOK
<1>2. events \in Seq(EventKinds \X VCPUs) /\ OneEach(events)
  BY DEF CpusTypeOK, OneEventEach, OneEach
<1>3. OneEventEach' <=> OneEach(events')
  BY DEF OneEventEach, OneEach
<1> USE <1>1, NobodyIsOut DEF EventsOwned, AccessOwed, state, threads, runtime, Goto, Move, Raise, To, Ended
<1>4. ASSUME NEW i \in VCPUs, WorkerStep(i) PROVE EventsOwned' /\ AccessOwed' /\ OneEventEach'
  <2>1. CASE Top(i)
    BY <1>2, <1>3, <2>1 DEF Top
  <2>2. CASE Enter(i) \/ Emulate(i) \/ CpuOff(i) \/ \E t \in VCPUs : CpuOn(i, t)
    BY <1>2, <1>3, <2>2 DEF Enter, Emulate, CpuOff, CpuOn
  <2>3. CASE Decide(i)
    <3>1. PICK to \in {"Returned", "Top", "Failed"} \cup (Exits \ {"Cancel", "Bad"}) :
            Goto(i, to) /\ wpc[i] = "Exited"
      <4>1. exit[i] \in Exits
        BY <2>3 DEF Decide, ExitKnown
      <4> HIDE DEF Goto
      <4> QED
        BY <2>3, <4>1 DEF Decide, Handled
    <3> QED
      BY <1>2, <1>3, <2>3, <3>1 DEF Decide, Exits
  <2>4. ASSUME NEW kind \in EventKinds, Send(kind, i), wpc[i] \in {"Shutdown", "Failed", "Mmio"}
        PROVE  /\ OneEventEach'
               /\ \A k \in EventKinds, j \in VCPUs :
                    In(events', k, j) <=> In(events, k, j) \/ (k = kind /\ j = i)
    <3>1. \A k \in EventKinds : ~In(events, k, i)
      BY <2>4 DEF EventKinds
    <3> QED
      BY <1>2, <1>3, <2>4, <3>1, InAppend, OneEachAppend DEF Send
  <2>5. CASE Shutdown(i)
    BY <2>4, <2>5 DEF Shutdown, EventKinds
  <2>6. CASE Report(i)
    BY <2>4, <2>6 DEF Report, SendFailed, EventKinds
  <2>7. CASE Mmio(i)
    <3>1. CASE /\ Move(i, "Mmio", "MmioSent") /\ Send("Access", i)
               /\ reply' = [reply EXCEPT ![i] = "Pending"]
      BY <2>4, <2>7, <3>1 DEF Mmio, EventKinds
    <3>2. CASE Raise(i, "Mmio", "Guest") /\ UNCHANGED <<events, reply>>
      BY <1>2, <1>3, <2>7, <3>2 DEF Mmio
    <3> QED
      BY <2>7, <3>1, <3>2 DEF Mmio
  <2>8. CASE ShutdownStop(i) \/ WaitIo(i)
    BY <1>2, <1>3, <2>8 DEF ShutdownStop, WaitIo
  <2>9. CASE WaitReply(i)
    BY <1>2, <1>3, <2>9 DEF WaitReply
  <2>10. CASE CompleteIo(i) \/ Writeback(i)
    BY <1>2, <1>3, <2>10 DEF CompleteIo, Writeback
  <2>11. CASE Epilogue(i) \/ DrainOthers(i) \/ Destroy(i)
    BY <1>2, <1>3, <2>11 DEF Epilogue, DrainOthers, Destroy
  <2> QED
    BY <1>4, <2>1, <2>2, <2>3, <2>5, <2>6, <2>7, <2>8, <2>9, <2>10, <2>11 DEF WorkerStep
<1>5. ASSUME NEW i \in VCPUs, NEW e \in Exits, GuestExit(i, e)
      PROVE  EventsOwned' /\ AccessOwed' /\ OneEventEach'
  BY <1>2, <1>3, <1>5 DEF GuestExit
<1>6. CASE Create
  BY <1>2, <1>3, <1>6 DEF Create
<1>7. CASE Start \/ Pause \/ Resume \/ GiveUp
  BY <1>2, <1>3, <1>7 DEF Start, Pause, Resume, GiveUp
<1>8. CASE Poll
  <2>1. CASE UNCHANGED <<events, hand>> /\ vpc' = "Empty"
    BY <1>2, <1>3, <1>8, <2>1 DEF Poll
  <2>2. CASE events # <<>> /\ events' = Tail(events)
    <3>1. PICK kind \in EventKinds, i \in VCPUs : Head(events) = Event(kind, i) /\ In(events, kind, i)
      BY <1>2, <2>2, InHead
    <3>2. /\ OneEventEach'
          /\ \A k \in EventKinds, j \in VCPUs :
               In(events', k, j) <=> In(events, k, j) /\ ~(k = kind /\ j = i)
      BY <1>2, <1>3, <2>2, <3>1, InTail, OneEachTail DEF Event
    <3>3. Head(events)[1] = kind /\ Head(events)[2] = i
      BY <3>1 DEF Event
    <3>4. /\ vpc = "Loop" /\ UNCHANGED <<wpc, reply>>
          /\ IF kind = "Access" THEN vpc' = "Handle" /\ hand' = i
                                ELSE vpc' = "Stop" /\ UNCHANGED hand
      BY <1>8, <2>2, <3>3 DEF Poll, EventKinds
    <3>5. hand = Nobody
      BY <3>4
    <3>6. EventsOwned'
      BY <3>1, <3>2, <3>4, <3>5 DEF EventKinds
    <3>7. AccessOwed'
      BY <3>1, <3>2, <3>4, <3>5 DEF EventKinds
    <3> QED
      BY <3>2, <3>6, <3>7
  <2> QED
    BY <1>8, <2>1, <2>2 DEF Poll
<1>9. CASE Handle
  BY <1>2, <1>3, <1>9 DEF Handle, Completion
<1>10. CASE Timeout \/ PauseWait
  BY <1>2, <1>3, <1>10 DEF Timeout, PauseWait
<1>11. CASE Join \/ StopAgain
  BY <1>2, <1>3, <1>11 DEF Join, StopVcpus, StopAgain, vars
<1>12. CASE Drain
  <2>1. /\ UNCHANGED <<threads, reply, hand>> /\ vpc = "Drain" /\ vpc' = "Stopped"
        /\ events' = <<>>
    BY <1>12, Zenon DEF Drain
  <2>2. \A k, j : ~In(events', k, j)
    BY <2>1 DEF In
  <2>3. OneEach(events')
    BY <2>1 DEF OneEach
  <2>4. \A i \in VCPUs : Finished(i)
    BY <2>1 DEF FaultsOwned
  <2> QED
    BY <1>3, <2>1, <2>2, <2>3, <2>4 DEF Finished
<1> QED
  BY <1>4, <1>5, <1>6, <1>7, <1>8, <1>9, <1>10, <1>11, <1>12 DEF Next, RunLoop, Teardown

(***************************************************************************)
(* Faults.                                                                 *)
(***************************************************************************)
\* An error goes from the thread to the channel and from there to poll or to stop;
\* only a failed handler drops a reply.
LEMMA FaultStep ==
  ASSUME CpusTypeOK, ExitKnown, Barriers, EventsOwned, OneEventEach, FaultsOwned, Next
  PROVE  FaultsOwned'
<1>1. /\ wpc \in [VCPUs -> WPCs] /\ reply \in [VCPUs -> {"None", "Pending", "Value", "Dropped"}]
      /\ error \in [VCPUs -> {"None", "Guest", "Disconnected"}]
      /\ vpc = "Stopped" => events = <<>>
  BY DEF CpusTypeOK, FaultsOwned
<1>2. events \in Seq(EventKinds \X VCPUs) /\ OneEach(events)
  BY DEF CpusTypeOK, OneEventEach, OneEach
<1> USE <1>1 DEF FaultsOwned, Finished, state, threads, runtime, Goto, Move, Raise, To
<1>3. ASSUME NEW i \in VCPUs, WorkerStep(i) PROVE FaultsOwned'
  <2>1. CASE Top(i)
    BY <2>1 DEF Top
  <2>2. CASE Enter(i) \/ Emulate(i) \/ CpuOff(i) \/ \E t \in VCPUs : CpuOn(i, t)
    BY <2>2 DEF Enter, Emulate, CpuOff, CpuOn
  <2>3. CASE Decide(i)
    <3>1. wpc[i] = "Exited" /\ vpc \notin {"Drain", "Stopped"}
      BY <2>3 DEF Decide
    <3> QED
      BY <2>3, <3>1 DEF Decide
  <2>4. ASSUME NEW kind \in EventKinds, Send(kind, i)
        PROVE  \A k \in EventKinds, j \in VCPUs :
                 In(events', k, j) <=> In(events, k, j) \/ (k = kind /\ j = i)
    BY <1>2, <2>4, InAppend DEF Send
  <2>5. CASE Shutdown(i)
    <3>1. vpc \notin {"Drain", "Stopped"}
      BY <2>5 DEF Shutdown
    <3> QED
      BY <2>4, <2>5, <3>1 DEF Shutdown, EventKinds
  <2>6. CASE Report(i)
    <3>1. vpc \notin {"Drain", "Stopped"}
      BY <2>6 DEF Report
    <3> QED
      BY <2>4, <2>6, <3>1 DEF Report, SendFailed, EventKinds
  <2>7. CASE Mmio(i)
    <3>1. vpc \notin {"Drain", "Stopped"}
      BY <2>7 DEF Mmio
    <3>2. CASE /\ Move(i, "Mmio", "MmioSent") /\ Send("Access", i)
               /\ reply' = [reply EXCEPT ![i] = "Pending"] /\ UNCHANGED error
      BY <2>4, <2>7, <3>1, <3>2 DEF Mmio, EventKinds
    <3>3. CASE Raise(i, "Mmio", "Guest") /\ UNCHANGED <<events, reply>>
      BY <2>7, <3>1, <3>3 DEF Mmio
    <3> QED
      BY <2>7, <3>2, <3>3 DEF Mmio
  <2>8. CASE ShutdownStop(i) \/ WaitIo(i)
    BY <2>8 DEF ShutdownStop, WaitIo
  <2>9. CASE WaitReply(i)
    BY <2>9 DEF WaitReply
  <2>10. CASE CompleteIo(i) \/ Writeback(i)
    BY <2>10 DEF CompleteIo, Writeback
  <2>11. CASE Epilogue(i) \/ DrainOthers(i) \/ Destroy(i)
    BY <2>11 DEF Epilogue, DrainOthers, Destroy
  <2> QED
    BY <1>3, <2>1, <2>2, <2>3, <2>5, <2>6, <2>7, <2>8, <2>9, <2>10, <2>11 DEF WorkerStep
<1>4. ASSUME NEW i \in VCPUs, NEW e \in Exits, GuestExit(i, e) PROVE FaultsOwned'
  BY <1>4 DEF GuestExit
<1>5. CASE Create
  BY <1>5 DEF Create
<1>6. CASE Start \/ Pause \/ Resume \/ GiveUp
  BY <1>6 DEF Start, Pause, Resume, GiveUp
<1>7. CASE Poll
  <2>1. CASE events = <<>> /\ vpc' = "Empty" /\ UNCHANGED <<events, hand, polled>>
    BY <1>7, <2>1 DEF Poll
  <2>2. CASE events # <<>> /\ events' = Tail(events)
    <3>1. PICK kind \in EventKinds, i \in VCPUs : Head(events) = Event(kind, i) /\ In(events, kind, i)
      BY <1>2, <2>2, InHead
    <3>2. \A j \in VCPUs : In(events', "Failed", j) <=> In(events, "Failed", j) /\ ~(kind = "Failed" /\ j = i)
      BY <1>2, <2>2, <3>1, InTail DEF Event, EventKinds
    <3>3. kind = "Failed" => polled'
      BY <1>7, <2>2, <3>1 DEF Poll, Event
    <3>4. polled => polled'
      BY <1>7 DEF Poll
    <3> QED
      BY <1>7, <2>2, <3>2, <3>3, <3>4 DEF Poll
  <2> QED
    BY <1>7, <2>1, <2>2 DEF Poll
<1>8. CASE Handle
  <2>1. handlerFailed => handlerFailed'
    BY <1>8, Zenon DEF Handle
  <2>2. /\ vpc = "Handle" /\ vpc' \in {"Loop", "Stop"}
        /\ UNCHANGED <<wpc, error, events, polled, fault>>
    BY <1>8 DEF Handle
  <2>3. \A i \in VCPUs : reply'[i] = "Dropped" => handlerFailed'
    BY <1>8, <2>1 DEF Handle, Completion
  <2> QED
    BY <2>1, <2>2, <2>3
<1>9. CASE Timeout \/ PauseWait
  BY <1>9 DEF Timeout, PauseWait
<1>10. CASE Join \/ StopAgain
  BY <1>10 DEF Join, StopVcpus, StopAgain, vars
<1>11. CASE Drain
  <2>1. /\ UNCHANGED <<threads, reply, hand, handlerFailed, polled>> /\ vpc = "Drain" /\ vpc' = "Stopped"
        /\ events' = <<>>
    BY <1>11, Zenon DEF Drain
  <2>2. fault' <=> \E k \in 1..Len(events) : events[k][1] = "Failed"
    BY <1>11, Zenon DEF Drain
  <2>3. ASSUME NEW i \in VCPUs, In(events, "Failed", i) PROVE fault'
    <3>1. \E k \in 1..Len(events) : events[k][1] = "Failed"
      BY <2>3 DEF In, Event
    <3> QED
      BY <2>2, <3>1
  <2> QED
    BY <2>1, <2>3
<1> QED
  BY <1>3, <1>4, <1>5, <1>6, <1>7, <1>8, <1>9, <1>10, <1>11 DEF Next, RunLoop, Teardown

(***************************************************************************)
(* The theorems.                                                           *)
(***************************************************************************)
LEMMA IInvInit == Init => IInv
<1> SUFFICES ASSUME Init PROVE IInv
  OBVIOUS
<1>1. /\ stop \in BOOLEAN /\ paused \in BOOLEAN /\ started \in BOOLEAN
      /\ handlerFailed \in BOOLEAN /\ polled \in BOOLEAN /\ fault \in BOOLEAN
      /\ running \in [VCPUs -> BOOLEAN] /\ ids \in [VCPUs -> BOOLEAN]
  BY Zenon DEF Init
<1>2. CpusTypeOK
  BY <1>1 DEF Init, CpusTypeOK, WPCs, VPCs
<1>3. ExitKnown /\ ExecutesOn /\ Barriers
  BY DEF Init, ExitKnown, ExecutesOn, Barriers, PauseBarrier, Executing, InIo, Ended
<1>4. \A k, j : ~In(events, k, j)
  BY DEF Init, In
<1>5. EventsOwned /\ AccessOwed
  BY <1>4, NobodyIsOut DEF Init, EventsOwned, AccessOwed
<1>6. OneEventEach /\ VcpuWakeups
  BY DEF Init, OneEventEach, VcpuWakeups
<1>7. FaultsOwned
  BY DEF Init, FaultsOwned
<1> QED
  BY <1>2, <1>3, <1>5, <1>6, <1>7 DEF IInv

\* Every step keeps the invariant.
LEMMA IInvStep == IInv /\ [Next]_vars => IInv'
<1> SUFFICES ASSUME IInv, [Next]_vars PROVE IInv'
  OBVIOUS
<1>1. CASE Next
  BY <1>1, TypeStep, ExecutesStep, BarrierStep, EventStep, WakeStep, FaultStep DEF IInv
<1>2. CASE UNCHANGED vars
  <2> USE <1>2 DEF IInv, vars, state, threads, runtime
  <2>1. CpusTypeOK' /\ ExitKnown' /\ ExecutesOn' /\ Barriers'
    BY DEF CpusTypeOK, ExitKnown, ExecutesOn, Barriers, PauseBarrier
  <2>2. EventsOwned' /\ AccessOwed' /\ OneEventEach'
    BY DEF EventsOwned, AccessOwed, OneEventEach
  <2>3. VcpuWakeups' /\ FaultsOwned'
    BY DEF VcpuWakeups, MustSleep, BarrierUp, FaultsOwned, Finished
  <2> QED
    BY <2>1, <2>2, <2>3
<1> QED
  BY <1>1, <1>2

\* The inductive invariant of the vCPU threads and the run thread's use of them.
THEOREM CpusInvariant == Spec => []IInv
BY IInvInit, IInvStep, PTL DEF Spec

\* What Shared.state, the threads and the channels hold, for any number of vCPUs.
THEOREM CpusTyped == Spec => []CpusTypeOK
<1>1. IInv => CpusTypeOK
  BY DEF IInv
<1> QED
  BY <1>1, CpusInvariant, PTL

\* Nobody executes behind the pause barrier or next to a vCPU that is destroyed, and
\* only a vCPU that PSCI has powered on does (worker, pause and the epilogue of
\* Cpus::create in cpus.rs).
THEOREM ExecutesOnlyWhenItMay == Spec => []MayExecute
<1>1. IInv => MayExecute
  BY DEF IInv, MayExecute, Barriers, ExecutesOn, DestroyAlone, GuestIsOn, Executing
<1> QED
  BY <1>1, CpusInvariant, PTL

\* No reply is lost or owed twice, no vCPU has two events in the channel, and none
\* sleeps over a wake-up (wait_io, wait_reply, complete_io and poll).
THEOREM NothingLost == Spec => []EventsAccounted
<1>1. IInv => EventsAccounted
  <2> SUFFICES ASSUME IInv PROVE ReplyOwed
    BY DEF IInv, EventsAccounted
  <2> SUFFICES ASSUME NEW i \in VCPUs, wpc[i] \in {"MmioSent", "WaitReply"}
               PROVE  \/ reply[i] = "Pending" /\ hand = i /\ Accesses(i) = {}
                      \/ reply[i] = "Pending" /\ hand # i /\ \E k \in 1..Len(events) : Accesses(i) = {k}
                      \/ reply[i] \in {"Value", "Dropped"} /\ hand # i /\ Accesses(i) = {}
    BY DEF ReplyOwed
  <2>1. ~In(events, "Access", i) => Accesses(i) = {}
    BY DEF In, Accesses
  <2>2. ASSUME In(events, "Access", i) PROVE \E k \in 1..Len(events) : Accesses(i) = {k}
    <3>1. PICK k \in 1..Len(events) : events[k] = Event("Access", i)
      BY <2>2 DEF In
    <3>2. \A n \in 1..Len(events) : events[n] = Event("Access", i) => n = k
      BY <3>1 DEF IInv, OneEventEach
    <3> QED
      BY <3>1, <3>2 DEF Accesses
  <2> QED
    BY <2>1, <2>2 DEF IInv, AccessOwed
<1> QED
  BY <1>1, CpusInvariant, PTL

\* If a vCPU failed, poll or stop returns a fault, and a reply channel dropped by a
\* stop is never reported as one (drain in mod.rs, wait_reply in cpus.rs).
THEOREM FaultsAreExact == Spec => []FaultsExact
<1>1. IInv => FaultsExact
  <2> SUFFICES ASSUME IInv PROVE FaultsExact
    OBVIOUS
  <2>1. NoSpuriousFault
    BY DEF IInv, FaultsOwned, NoSpuriousFault
  <2>2. ASSUME vpc = "Stopped", NEW i \in VCPUs, error[i] # "None" PROVE polled \/ fault
    <3>1. wpc[i] # "Failed" /\ events = <<>>
      BY <2>2 DEF IInv, FaultsOwned, Finished
    <3>2. ~In(events, "Failed", i)
      BY <3>1 DEF In
    <3> QED
      BY <2>2, <3>1, <3>2 DEF IInv, FaultsOwned
  <2> QED
    BY <2>1, <2>2 DEF FaultsExact, FaultReported
<1> QED
  BY <1>1, CpusInvariant, PTL

(***************************************************************************)
(* The refinement of module Machine.                                       *)
(***************************************************************************)
\* An unreported fault is with its thread or in the channel.
LEMMA UnreportedIn ==
  ASSUME NEW q \in Seq(EventKinds \X VCPUs)
  PROVE  (\E k \in 1..Len(q) : q[k][1] = "Failed") <=> \E i \in VCPUs : In(q, "Failed", i)
<1>1. ASSUME NEW k \in 1..Len(q), q[k][1] = "Failed" PROVE \E i \in VCPUs : In(q, "Failed", i)
  <2>1. q[k] \in EventKinds \X VCPUs
    OBVIOUS
  <2>2. q[k] = Event("Failed", q[k][2]) /\ q[k][2] \in VCPUs
    BY <1>1, <2>1 DEF Event
  <2> QED
    BY <2>2 DEF In
<1>2. ASSUME NEW i \in VCPUs, In(q, "Failed", i) PROVE \E k \in 1..Len(q) : q[k][1] = "Failed"
  BY <1>2 DEF In, Event
<1> QED
  BY <1>1, <1>2

\* A step of one thread, seen by the contract: it leaves, stays, enters or faults.
LEMMA ThreadLeaves ==
  ASSUME wpc \in [VCPUs -> WPCs], NEW i \in VCPUs, NEW to, to \notin Executing, Goto(i, to),
         UNCHANGED <<vpc, fault>>, Unreported' <=> Unreported
  PROVE  Contract!Leave
<1>1. Mode' = Mode
  BY DEF Mode
<1>2. Unreported' = Unreported
  BY DEF Unreported
<1>3. {j \in VCPUs : wpc'[j] \in Executing} = {j \in VCPUs : wpc[j] \in Executing} \ {i}
  BY DEF Goto
<1> QED
  BY <1>1, <1>2, <1>3 DEF Contract!Leave

\* A thread that goes on executing is a stutter of the machine.
LEMMA ThreadStays ==
  ASSUME wpc \in [VCPUs -> WPCs], NEW i \in VCPUs, NEW to, to \in Executing, wpc[i] \in Executing,
         Goto(i, to), UNCHANGED <<vpc, fault>>, Unreported' <=> Unreported
  PROVE  UNCHANGED Contract!mvars
<1>1. Mode' = Mode
  BY DEF Mode
<1>2. Unreported' = Unreported
  BY DEF Unreported
<1>3. {j \in VCPUs : wpc'[j] \in Executing} = {j \in VCPUs : wpc[j] \in Executing}
  BY DEF Goto
<1> QED
  BY <1>1, <1>2, <1>3 DEF Contract!mvars

\* A thread that begins to execute is an Enter of the machine.
LEMMA ThreadEnters ==
  ASSUME wpc \in [VCPUs -> WPCs], NEW i \in VCPUs, NEW to, to \in Executing, Goto(i, to),
         Mode \in {"Active", "Ending"}, UNCHANGED <<vpc, fault>>, Unreported' <=> Unreported
  PROVE  Contract!Enter
<1>1. Mode' = Mode
  BY DEF Mode
<1>2. Unreported' = Unreported
  BY DEF Unreported
<1>3. {j \in VCPUs : wpc'[j] \in Executing} = {j \in VCPUs : wpc[j] \in Executing} \cup {i}
  BY DEF Goto
<1> QED
  BY <1>1, <1>2, <1>3 DEF Contract!Enter

\* A thread that fails is a Fault of the machine.
LEMMA ThreadFaults ==
  ASSUME wpc \in [VCPUs -> WPCs], NEW i \in VCPUs, Goto(i, "Failed"), Mode # "Stopped",
         UNCHANGED <<vpc, fault>>
  PROVE  Contract!Fault
<1>1. Mode' = Mode
  BY DEF Mode
<1>2. wpc'[i] = "Failed"
  BY DEF Goto
<1>3. Unreported' = TRUE
  BY <1>2 DEF Unreported
<1>4. {j \in VCPUs : wpc'[j] \in Executing} \in SUBSET {j \in VCPUs : wpc[j] \in Executing}
  BY DEF Goto, Executing
<1> QED
  BY <1>1, <1>3, <1>4 DEF Contract!Fault

\* A thread that neither fails nor reports leaves the faults alone.
LEMMA FaultsAlone ==
  ASSUME CpusTypeOK, CpusTypeOK', NEW i \in VCPUs, NEW to, Goto(i, to), wpc[i] # "Failed", to # "Failed",
         \A j \in VCPUs : In(events', "Failed", j) <=> In(events, "Failed", j)
  PROVE  Unreported' <=> Unreported
<1>1. (\E j \in VCPUs : wpc'[j] = "Failed") <=> (\E j \in VCPUs : wpc[j] = "Failed")
  BY DEF CpusTypeOK, Goto
<1>2. /\ (\E k \in 1..Len(events) : events[k][1] = "Failed") <=> \E j \in VCPUs : In(events, "Failed", j)
      /\ (\E k \in 1..Len(events') : events'[k][1] = "Failed") <=> \E j \in VCPUs : In(events', "Failed", j)
  BY UnreportedIn DEF CpusTypeOK
<1> QED
  BY <1>1, <1>2 DEF Unreported

\* Every step of a vCPU thread is one of the contract, or none.
LEMMA ThreadRefines ==
  ASSUME IInv, IInv', NEW i \in VCPUs, WorkerStep(i) \/ \E e \in Exits : GuestExit(i, e)
  PROVE  Contract!Next \/ UNCHANGED Contract!mvars
<1>1. /\ CpusTypeOK /\ CpusTypeOK' /\ wpc \in [VCPUs -> WPCs]
      /\ events \in Seq(EventKinds \X VCPUs) /\ OneEach(events)
  BY DEF IInv, CpusTypeOK, OneEventEach, OneEach
<1>2. wpc[i] \notin {"Unborn", "Dead"} => Mode # "Stopped"
  BY DEF IInv, FaultsOwned, Finished, Mode
<1>3. ~stop /\ ~paused /\ started /\ wpc[i] \notin {"Unborn", "Dead"} => Mode \in {"Active", "Ending"}
  BY <1>2 DEF IInv, ExecutesOn, Barriers, Mode
<1>4. \A to : Goto(i, to) /\ events' = events /\ wpc[i] # "Failed" /\ to # "Failed" =>
                (Unreported' <=> Unreported)
  BY <1>1, FaultsAlone
<1> DEFINE Quiet(to) == Goto(i, to) /\ UNCHANGED <<vpc, fault>> /\ (Unreported' <=> Unreported)
<1>5. \A to : Quiet(to) /\ to \notin Executing => Contract!Leave
  BY <1>1, ThreadLeaves
<1>6. \A to : Quiet(to) /\ to \in Executing /\ wpc[i] \in Executing => UNCHANGED Contract!mvars
  BY <1>1, ThreadStays
<1>7. \A to : Quiet(to) /\ to \in Executing /\ Mode \in {"Active", "Ending"} => Contract!Enter
  BY <1>1, ThreadEnters
<1>8. Goto(i, "Failed") /\ Mode # "Stopped" /\ UNCHANGED <<vpc, fault>> => Contract!Fault
  BY <1>1, ThreadFaults
<1> USE DEF Contract!Next, runtime, Move, Raise
<1>9. CASE Top(i)
  <2>1. UNCHANGED <<events, vpc, fault>> /\ wpc[i] \in {"Top", "Sleep"}
    BY <1>9 DEF Top
  <2>2. CASE Goto(i, "Sleep") \/ Goto(i, "Returned")
    BY <1>4, <1>5, <2>1, <2>2 DEF Executing
  <2>3. CASE ~MustSleep(i) /\ ~stop /\ Goto(i, "Enter")
    BY <1>3, <1>4, <1>7, <2>1, <2>3 DEF Executing, MustSleep
  <2>4. CASE Goto(i, "Failed")
    BY <1>2, <1>8, <2>1, <2>4
  <2> QED
    BY <1>9, <2>2, <2>3, <2>4 DEF Top
<1>10. CASE Enter(i)
  BY <1>4, <1>6, <1>10 DEF Enter, Executing
<1>11. CASE \E e \in Exits : GuestExit(i, e)
  BY <1>2, <1>4, <1>6, <1>8, <1>11 DEF GuestExit, Executing
<1>12. CASE Decide(i)
  <2>1. UNCHANGED <<events, vpc, fault>> /\ wpc[i] = "Exited"
    BY <1>12 DEF Decide
  <2>2. PICK to \in {"Returned", "Top", "Failed"} \cup (Exits \ {"Cancel", "Bad"}) : Goto(i, to)
    <3>1. exit[i] \in Exits
      BY <2>1 DEF IInv, ExitKnown
    <3> QED
      BY <1>12, <3>1 DEF Decide, Handled
  <2> QED
    BY <1>2, <1>4, <1>5, <1>6, <1>8, <2>1, <2>2 DEF Exits, Executing
<1>13. CASE Emulate(i) \/ Writeback(i)
  BY <1>2, <1>4, <1>5, <1>8, <1>13 DEF Emulate, Writeback, Executing
<1>14. CASE CpuOff(i) \/ ShutdownStop(i) \/ WaitIo(i)
  BY <1>4, <1>5, <1>14 DEF CpuOff, ShutdownStop, WaitIo, Executing
<1>15. CASE \E t \in VCPUs : CpuOn(i, t)
  BY <1>4, <1>6, <1>15 DEF CpuOn, Executing
<1>16. CASE Shutdown(i) \/ (Mmio(i) /\ Goto(i, "MmioSent") /\ Send("Access", i))
  <2>1. \A j \in VCPUs : In(events', "Failed", j) <=> In(events, "Failed", j)
    <3>1. PICK kind \in EventKinds \ {"Failed"} : events' = Append(events, Event(kind, i))
      BY <1>16 DEF Shutdown, Send, EventKinds
    <3>2. "Failed" \in EventKinds
      BY DEF EventKinds
    <3> QED
      BY <1>1, <3>1, <3>2, InAppend
  <2>2. PICK to \in {"ShutdownSent", "MmioSent"} : Goto(i, to)
    BY <1>16 DEF Shutdown
  <2>3. wpc[i] \in {"Shutdown", "Mmio"} /\ UNCHANGED <<vpc, fault>>
    BY <1>16 DEF Shutdown, Mmio
  <2>4. Unreported' <=> Unreported
    BY <1>1, <2>1, <2>2, <2>3, FaultsAlone
  <2> QED
    BY <1>6, <2>2, <2>3, <2>4 DEF Executing
<1>17. CASE Mmio(i) /\ Raise(i, "Mmio", "Guest")
  BY <1>2, <1>8, <1>17 DEF Mmio
<1>18. CASE WaitReply(i)
  BY <1>2, <1>4, <1>5, <1>8, <1>18 DEF WaitReply, Executing
<1>19. CASE CompleteIo(i)
  <2>1. UNCHANGED <<events, vpc, fault>> /\ wpc[i] \in InIo
    BY <1>19 DEF CompleteIo, InIo
  <2>2. CASE Goto(i, "SleepIo") \/ Goto(i, "Returned")
    BY <1>4, <1>5, <2>1, <2>2 DEF Executing, InIo
  <2>3. CASE ~BarrierUp /\ ~stop /\ Goto(i, "Writeback")
    <3>1. started
      BY <2>1 DEF IInv, ExecutesOn
    <3> QED
      BY <1>3, <1>4, <1>7, <2>1, <2>3, <3>1 DEF Executing, BarrierUp, InIo
  <2> QED
    BY <1>19, <2>2, <2>3 DEF CompleteIo
<1>20. CASE Report(i)
  <2>1. wpc[i] = "Failed" /\ Goto(i, "Returned") /\ UNCHANGED <<vpc, fault>>
    BY <1>20 DEF Report
  <2>2. In(events', "Failed", i)
    BY <1>1, <1>20, InAppend DEF Report, SendFailed, Send, EventKinds
  <2>3. Unreported /\ Unreported'
    BY <1>1, <2>1, <2>2, UnreportedIn DEF Unreported, CpusTypeOK
  <2> QED
    BY <1>5, <2>1, <2>3 DEF Executing
<1>21. CASE Epilogue(i) \/ Destroy(i)
  BY <1>4, <1>5, <1>21 DEF Epilogue, Destroy, Executing
<1>22. CASE DrainOthers(i)
  <2>1. CASE UNCHANGED wpc
    <3>1. UNCHANGED <<wpc, vpc, events, fault>>
      BY <1>22, <2>1 DEF DrainOthers
    <3>2. Mode' = Mode /\ Unreported' = Unreported
      BY <3>1 DEF Mode, Unreported
    <3> QED
      BY <3>1, <3>2 DEF Contract!mvars
  <2>2. CASE Goto(i, "Destroy")
    BY <1>4, <1>5, <1>22, <2>2 DEF DrainOthers, Executing
  <2> QED
    BY <1>22, <2>1, <2>2 DEF DrainOthers
<1> QED
  BY <1>9, <1>10, <1>11, <1>12, <1>13, <1>14, <1>15, <1>16, <1>17, <1>18, <1>19, <1>20, <1>21, <1>22
     DEF WorkerStep, Mmio

\* Every step of the run thread is one of the contract, or none.
LEMMA RunThreadRefines ==
  ASSUME IInv, IInv',
         \/ Create \/ Start \/ RunLoop \/ Pause \/ Resume \/ GiveUp \/ Teardown \/ StopAgain
  PROVE  Contract!Next \/ UNCHANGED Contract!mvars
<1> DEFINE E == {j \in VCPUs : wpc[j] \in Executing}
           Failing == \E j \in VCPUs : wpc[j] = "Failed"
           Waiting == \E k \in 1..Len(events) : events[k][1] = "Failed"
<1>1. /\ wpc \in [VCPUs -> WPCs] /\ vpc \in VPCs
      /\ events \in Seq(EventKinds \X VCPUs) /\ OneEach(events) /\ events' \in Seq(EventKinds \X VCPUs)
  BY DEF IInv, CpusTypeOK, OneEventEach, OneEach
<1>2. UNCHANGED <<wpc, events>> => E' = E /\ Unreported' = Unreported
  BY DEF Unreported
<1>3. ASSUME vpc' = vpc, fault' = fault, E' = E, Unreported' = Unreported
      PROVE  UNCHANGED Contract!mvars
  <2>1. Mode' = Mode
    BY <1>3 DEF Mode
  <2> QED
    BY <1>3, <2>1 DEF Contract!mvars
<1>4. ASSUME vpc \in {"Create", "Prepared", "Loop", "Empty", "Handle", "Pausing", "Paused"},
             vpc' = "Stop", fault' = fault, E' = E, Unreported' = Unreported
      PROVE  Contract!GiveUp
  <2>1. Mode \in {"Idle", "Active", "Paused"} /\ Mode' = "Ending"
    BY <1>4 DEF Mode
  <2> QED
    BY <1>4, <2>1 DEF Contract!GiveUp
<1>5. ASSUME Mode' = Mode, fault' = fault, E' = E, Unreported' = Unreported
      PROVE  UNCHANGED Contract!mvars
  BY <1>5 DEF Contract!mvars
<1> HIDE DEF E
<1> USE DEF Contract!Next, state, threads, runtime, To
<1>6. CASE Create
  <2>1. PICK i \in VCPUs :
          /\ wpc[i] = "Unborn"
          /\ \/ Goto(i, "Top") /\ vpc' \in {"Prepared", "Create"}
             \/ vpc' = "Stop" /\ UNCHANGED wpc
    BY <1>6 DEF Create
  <2>2. UNCHANGED <<events, fault>> /\ vpc = "Create"
    BY <1>6 DEF Create
  <2>3. E' = E
    BY <1>1, <2>1 DEF E, Goto, Executing
  <2>4. Failing' <=> Failing
    BY <1>1, <2>1 DEF Goto
  <2>5. Unreported' = Unreported
    BY <2>2, <2>4 DEF Unreported
  <2>6. CASE vpc' \in {"Prepared", "Create"}
    <3>1. Mode' = Mode
      BY <2>2, <2>6 DEF Mode
    <3> QED
      BY <1>5, <2>2, <2>3, <2>5, <3>1
  <2> QED
    BY <1>4, <2>1, <2>2, <2>3, <2>5, <2>6
<1>7. CASE Start
  <2>1. Mode = "Idle" /\ Mode' = "Active" /\ UNCHANGED <<wpc, events, fault>>
    BY <1>7 DEF Start, Mode
  <2> QED
    BY <1>2, <2>1 DEF Contract!Begin, E
<1>8. CASE Poll
  <2>1. CASE events = <<>> /\ vpc' = "Empty" /\ UNCHANGED <<events, hand, polled>>
    <3>1. UNCHANGED <<wpc, fault>> /\ vpc = "Loop"
      BY <1>8 DEF Poll
    <3>2. Mode' = Mode
      BY <2>1, <3>1 DEF Mode
    <3> QED
      BY <1>2, <1>5, <2>1, <3>1, <3>2
  <2>2. CASE events # <<>> /\ events' = Tail(events)
    <3>1. PICK kind \in EventKinds, i \in VCPUs : Head(events) = Event(kind, i) /\ In(events, kind, i)
      BY <1>1, <2>2, InHead
    <3>2. Head(events)[1] = kind
      BY <3>1 DEF Event
    <3>3. /\ UNCHANGED <<wpc, fault>> /\ vpc = "Loop"
          /\ vpc' = IF kind = "Access" THEN "Handle" ELSE "Stop"
      BY <1>8, <2>2, <3>2 DEF Poll, EventKinds
    <3>4. E' = E
      BY <3>3 DEF E
    <3>5. CASE kind = "Failed"
      <4>1. Unreported
        BY <1>1, <3>1, <3>5, UnreportedIn DEF Unreported
      <4>2. Unreported' \in BOOLEAN
        BY DEF Unreported
      <4>3. Mode = "Active" /\ Mode' = "Ending"
        BY <3>3, <3>5 DEF Mode
      <4> QED
        BY <3>3, <3>4, <4>1, <4>2, <4>3 DEF Contract!Report, E
    <3>6. CASE kind # "Failed"
      <4>1. \A j \in VCPUs : In(events', "Failed", j) <=> In(events, "Failed", j)
        BY <1>1, <2>2, <3>1, <3>6, InTail DEF Event, EventKinds
      <4>2. Waiting' <=> Waiting
        BY <1>1, <4>1, UnreportedIn
      <4>3. Unreported' = Unreported
        BY <3>3, <4>2 DEF Unreported
      <4>4. CASE kind = "Access"
        <5>1. Mode' = Mode
          BY <3>3, <4>4 DEF Mode
        <5> QED
          BY <1>5, <3>3, <3>4, <4>3, <5>1
      <4> QED
        BY <1>4, <3>3, <3>4, <4>3, <4>4
    <3> QED
      BY <3>5, <3>6
  <2> QED
    BY <1>8, <2>1, <2>2 DEF Poll
<1>9. CASE Timeout \/ Handle
  <2>1. vpc \in {"Empty", "Handle"} /\ vpc' \in {"Stop", "Loop"} /\ UNCHANGED <<wpc, events, fault>>
    BY <1>9 DEF Timeout, Handle
  <2>2. CASE vpc' = "Loop"
    <3>1. Mode' = Mode
      BY <2>1, <2>2 DEF Mode
    <3> QED
      BY <1>2, <1>5, <2>1, <3>1
  <2> QED
    BY <1>2, <1>4, <2>1, <2>2
<1>10. CASE PauseWait
  <2>1. vpc = "Pausing" /\ UNCHANGED <<wpc, events, fault>>
    BY <1>10 DEF PauseWait
  <2>2. CASE vpc' = "Pausing"
    BY <1>2, <1>3, <2>1, <2>2
  <2>3. CASE vpc' = "Stop"
    BY <1>2, <1>4, <2>1, <2>3
  <2>4. CASE vpc' = "Paused"
    <3>1. Mode = "Active" /\ Mode' = "Paused"
      BY <2>1, <2>4 DEF Mode
    <3>2. E = {}
      BY <2>1, <2>4 DEF IInv, Barriers, PauseBarrier, E
    <3> QED
      BY <1>2, <2>1, <3>1, <3>2 DEF Contract!Pause, E
  <2> QED
    BY <1>10, <2>2, <2>3, <2>4 DEF PauseWait
<1>11. CASE Pause
  <2>1. Mode' = Mode /\ UNCHANGED <<wpc, events, fault>>
    BY <1>11 DEF Pause, Mode
  <2> QED
    BY <1>2, <1>5, <2>1
<1>12. CASE Resume
  <2>1. Mode = "Paused" /\ Mode' = "Active" /\ UNCHANGED <<wpc, events, fault>>
    BY <1>12 DEF Resume, Mode
  <2> QED
    BY <1>2, <2>1 DEF Contract!Resume, E
<1>13. CASE GiveUp
  BY <1>2, <1>4, <1>13 DEF GiveUp
<1>14. CASE Join
  <2>1. Mode' = Mode /\ UNCHANGED <<wpc, events, fault>>
    BY <1>14 DEF Join, StopVcpus, Mode
  <2> QED
    BY <1>2, <1>5, <2>1
<1>15. CASE Drain
  <2>1. UNCHANGED wpc /\ vpc = "Drain" /\ vpc' = "Stopped" /\ events' = <<>> /\ fault' = Waiting
    BY <1>15, Zenon DEF Drain
  <2>2. Mode = "Ending" /\ Mode' = "Stopped"
    BY <2>1 DEF Mode
  <2>3. \A j \in VCPUs : wpc[j] \in {"Unborn", "Dead"}
    BY <2>1 DEF IInv, FaultsOwned, Finished
  <2>4. E = {} /\ E' = E
    BY <2>1, <2>3 DEF E, Executing
  <2>5. ~Failing
    BY <2>3
  <2>6. fault' = Unreported
    BY <2>1, <2>5, Zenon DEF Unreported
  <2>7. Unreported' = FALSE
    BY <2>1, <2>5 DEF Unreported
  <2> QED
    BY <2>2, <2>4, <2>6, <2>7 DEF Contract!Stop, E
<1>16. CASE StopAgain
  <2>1. UNCHANGED <<wpc, vpc, events, fault>>
    BY <1>16 DEF StopAgain, vars
  <2> QED
    BY <1>2, <1>3, <2>1
<1> QED
  BY <1>6, <1>7, <1>8, <1>9, <1>10, <1>11, <1>12, <1>13, <1>14, <1>15, <1>16 DEF RunLoop, Teardown

\* The vCPU threads and the VM in front of them implement the VirtualMachine
\* contract of platform/mod.rs: pause returns only to a quiescent machine, no vCPU
\* starts behind it, and stop returns exactly the fault that poll has not.
THEOREM CpusImplementMachine == Spec => ContractRefinement
<1>1. Init => Contract!Init
  <2> SUFFICES ASSUME Init PROVE Contract!Init
    OBVIOUS
  <2>1. Mode = "Idle"
    BY DEF Init, Mode
  <2>2. {i \in VCPUs : wpc[i] \in Executing} = {}
    BY DEF Init, Executing
  <2>3. Unreported = FALSE
    BY DEF Init, Unreported
  <2>4. fault = FALSE
    BY Zenon DEF Init
  <2> QED
    BY <2>1, <2>2, <2>3, <2>4 DEF Contract!Init
<1>2. IInv /\ IInv' /\ [Next]_vars => [Contract!Next]_(Contract!mvars)
  <2> SUFFICES ASSUME IInv, IInv', [Next]_vars PROVE Contract!Next \/ UNCHANGED Contract!mvars
    OBVIOUS
  <2>1. CASE \E i \in VCPUs : WorkerStep(i) \/ \E e \in Exits : GuestExit(i, e)
    BY <2>1, ThreadRefines
  <2>2. CASE Create \/ Start \/ RunLoop \/ Pause \/ Resume \/ GiveUp \/ Teardown \/ StopAgain
    BY <2>2, RunThreadRefines
  <2>3. CASE UNCHANGED vars
    <3>1. UNCHANGED <<wpc, vpc, events, fault>>
      BY <2>3 DEF vars, threads, runtime
    <3>2. Mode' = Mode /\ Unreported' = Unreported
      BY <3>1 DEF Mode, Unreported
    <3> QED
      BY <3>1, <3>2 DEF Contract!mvars
  <2> QED
    BY <2>1, <2>2, <2>3 DEF Next
<1> QED
  BY <1>1, <1>2, CpusInvariant, PTL DEF Spec, ContractRefinement, Contract!Spec

=============================================================================
