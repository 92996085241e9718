----------------------------- MODULE Interrupts -----------------------------
(***************************************************************************)
(* How a device's interrupt reaches its driver: the interrupt bits of      *)
(* src/src/devices/mmio.rs, the level-triggered line the run loop of       *)
(* src/src/runtime.rs drives, and a driver that reads the status, clears   *)
(* what it read and then looks for work.  Every driver has a vCPU of its   *)
(* own, which waits in the register access until the run thread completes  *)
(* it; the run thread works on all devices meanwhile.                      *)
(***************************************************************************)
EXTENDS Naturals, FiniteSets

CONSTANTS
  Devices,
  NoDevice,
  RingSize  \* chains a driver may have made available

ASSUME DeviceAssumption == NoDevice \notin Devices /\ RingSize \in Nat \ {0}

VARIABLES
  interrupts,        \* Queues.interrupt of every device
  line,              \* the interrupt controller's input
  offered, used,     \* chains in the available ring, and used ones not looked at
  stale,             \* the configuration has changed since the driver looked
  access,            \* the register access a driver's vCPU waits in
  driver, seen,      \* where the driver is, and the status it has read
  pc, current, value \* the run thread: step, device of the access, value read

bits    == <<interrupts, line>>
chains  == <<offered, used, stale>>
guest   == <<access, driver, seen>>
thread  == <<pc, current, value>>
irqVars == <<bits, chains, guest, thread>>

Notices == {"Used", "Config"}

IrqTypeOK ==
  /\ interrupts \in [Devices -> SUBSET Notices] /\ line \in [Devices -> BOOLEAN]
  /\ offered \in [Devices -> 0..RingSize] /\ used \in [Devices -> 0..RingSize]
  /\ stale \in [Devices -> BOOLEAN]
  /\ access \in [Devices -> {"None", "Notify", "Status", "Ack"}]
  /\ driver \in [Devices -> {"Idle", "Reading", "Clearing", "Looking"}]
  /\ seen \in [Devices -> SUBSET Notices]
  /\ pc \in {"Poll", "Raise", "Event", "Level", "Complete"}
  /\ current \in Devices \cup {NoDevice} /\ value \subseteq Notices

IrqInit ==
  /\ interrupts = [d \in Devices |-> {}] /\ line = [d \in Devices |-> FALSE]
  /\ offered = [d \in Devices |-> 0] /\ used = [d \in Devices |-> 0]
  /\ stale = [d \in Devices |-> FALSE]
  /\ access = [d \in Devices |-> "None"]
  /\ driver = [d \in Devices |-> "Idle"] /\ seen = [d \in Devices |-> {}]
  /\ pc = "Poll" /\ current = NoDevice /\ value = {}

(***************************************************************************)
(* The driver, outside the repository.                                     *)
(***************************************************************************)
Free(d) == access[d] = "None"

OfferChain(d) ==
  /\ Free(d) /\ driver[d] = "Idle" /\ offered[d] + used[d] < RingSize
  /\ offered' = [offered EXCEPT ![d] = @ + 1]
  /\ access' = [access EXCEPT ![d] = "Notify"]
  /\ UNCHANGED <<bits, used, stale, driver, seen, thread>>

Interrupted(d) ==
  /\ Free(d) /\ driver[d] = "Idle" /\ line[d]
  /\ access' = [access EXCEPT ![d] = "Status"]
  /\ driver' = [driver EXCEPT ![d] = "Reading"]
  /\ UNCHANGED <<bits, chains, seen, thread>>

Clear(d) ==
  /\ Free(d) /\ driver[d] = "Clearing"
  /\ access' = [access EXCEPT ![d] = "Ack"]
  /\ driver' = [driver EXCEPT ![d] = "Looking"]
  /\ UNCHANGED <<bits, chains, seen, thread>>

Look(d) ==
  /\ Free(d) /\ driver[d] = "Looking"
  /\ used' = [used EXCEPT ![d] = IF "Used" \in seen[d] THEN 0 ELSE @]
  /\ stale' = [stale EXCEPT ![d] = @ /\ "Config" \notin seen[d]]
  /\ driver' = [driver EXCEPT ![d] = "Idle"]
  /\ seen' = [seen EXCEPT ![d] = {}]
  /\ UNCHANGED <<bits, offered, access, thread>>

(***************************************************************************)
(* Device work: from poll in the loop or from a notification.              *)
(***************************************************************************)
HasOffered_Unchecked(d) == TRUE
HasOffered(d) == offered[d] > 0

Complete(d) ==
  /\ HasOffered(d)
  /\ offered' = [offered EXCEPT ![d] = @ - 1]
  /\ used' = [used EXCEPT ![d] = @ + 1]
  /\ interrupts' = [interrupts EXCEPT ![d] = @ \cup {"Used"}]

PollDevice(d) ==
  /\ pc = "Poll" /\ Complete(d)
  /\ UNCHANGED <<line, stale, guest, thread>>

\* sync_target has a new target, or contain isolates a device in poll or in the scan.
ConfigChanged(d) ==
  /\ pc = "Poll"
  /\ interrupts' = [interrupts EXCEPT ![d] = @ \cup {"Config"}]
  /\ stale' = [stale EXCEPT ![d] = TRUE]
  /\ UNCHANGED <<line, offered, used, guest, thread>>

(***************************************************************************)
(* The rest of an iteration: set_irq for every device, poll_event, and     *)
(* handle_io when an access is waiting.                                    *)
(***************************************************************************)
EndPoll ==
  /\ pc = "Poll" /\ pc' = "Raise"
  /\ UNCHANGED <<bits, chains, guest, current, value>>

Levels_Sticky == [d \in Devices |-> line[d]]
Levels == [d \in Devices |-> interrupts[d] # {}]

Raise ==
  /\ pc = "Raise"
  /\ line' = Levels
  /\ pc' = "Event"
  /\ UNCHANGED <<interrupts, chains, guest, current, value>>

NoEvent ==
  /\ pc = "Event" /\ pc' = "Poll"
  /\ UNCHANGED <<bits, chains, guest, current, value>>

Acked_All(d) == [interrupts EXCEPT ![d] = {}]
Acked(d) == [interrupts EXCEPT ![d] = @ \ seen[d]]

\* A notified device uses the first chains, leaves the others for a later poll,
\* and is isolated if it meets one that is not as it should be.
Notified(d) ==
  \E n \in 0..offered[d], isolated \in BOOLEAN :
    /\ offered' = [offered EXCEPT ![d] = @ - n]
    /\ used' = [used EXCEPT ![d] = @ + n]
    /\ stale' = [stale EXCEPT ![d] = @ \/ isolated]
    /\ interrupts' = [interrupts EXCEPT ![d] = @ \cup (IF n > 0 THEN {"Used"} ELSE {})
                                                  \cup (IF isolated THEN {"Config"} ELSE {})]

Handle(d) ==
  /\ pc = "Event"
  /\ \/ /\ access[d] = "Notify"
        /\ Notified(d)
        /\ value' = {}
     \/ /\ access[d] = "Status"
        /\ value' = interrupts[d]
        /\ UNCHANGED <<interrupts, chains>>
     \/ /\ access[d] = "Ack"
        /\ interrupts' = Acked(d)
        /\ value' = {}
        /\ UNCHANGED chains
  /\ current' = d
  /\ pc' = "Level"
  /\ UNCHANGED <<line, guest>>

AccessLevel_After(d) == line
AccessLevel(d) == [line EXCEPT ![d] = interrupts[d] # {}]

SetLevel ==
  /\ pc = "Level"
  /\ line' = AccessLevel(current)
  /\ pc' = "Complete"
  /\ UNCHANGED <<interrupts, chains, guest, current, value>>

\* complete_io: the vCPU goes on with the value.
CompleteIo ==
  /\ pc = "Complete"
  /\ access' = [access EXCEPT ![current] = "None"]
  /\ IF driver[current] = "Reading"
     THEN /\ seen' = [seen EXCEPT ![current] = value]
          /\ driver' = [driver EXCEPT ![current] = IF value = {} THEN "Idle" ELSE "Clearing"]
     ELSE UNCHANGED <<driver, seen>>
  /\ pc' = "Poll" /\ current' = NoDevice /\ value' = {}
  /\ UNCHANGED <<bits, chains>>

DriverStep(d) == Interrupted(d) \/ Clear(d) \/ Look(d)
RunStep == EndPoll \/ Raise \/ NoEvent \/ SetLevel \/ CompleteIo

IrqNext ==
  \/ \E d \in Devices :
       OfferChain(d) \/ DriverStep(d) \/ PollDevice(d) \/ ConfigChanged(d) \/ Handle(d)
  \/ RunStep

IrqSpec == IrqInit /\ [][IrqNext]_irqVars

(***************************************************************************)
(* Fairness: the run thread goes on, poll_event takes a waiting access of  *)
(* every vCPU in the end (they arrive in one channel), and a vCPU takes    *)
(* its interrupt and handles it.                                           *)
(***************************************************************************)
LiveSpec ==
  /\ IrqSpec /\ WF_irqVars(RunStep)
  /\ \A d \in Devices : SF_irqVars(Handle(d)) /\ SF_irqVars(DriverStep(d))

(***************************************************************************)
(* Properties.                                                             *)
(***************************************************************************)

\* A vCPU that is not waiting in an access to the device never sees its line up
\* for a device with nothing to say: the level follows an acknowledgement
\* before the vCPU runs again (runtime.rs 316-318).
NoSpuriousInterrupt == \A d \in Devices : line[d] /\ Free(d) => interrupts[d] # {}

\* No notice is lost between the status read and the acknowledgement: work the
\* driver has not looked at has its bit, or the driver is on its way to look.
NoticeKept ==
  \A d \in Devices :
    LET coming == IF driver[d] \in {"Clearing", "Looking"} THEN seen[d] ELSE {}
    IN /\ used[d] > 0 => "Used" \in interrupts[d] \cup coming
       /\ stale[d]    => "Config" \in interrupts[d] \cup coming

\* An interrupt is seen if and only if there is something to see.
InterruptsExact == IrqTypeOK /\ NoSpuriousInterrupt /\ NoticeKept

\* Every used chain and every new configuration is looked at.
NoticesSeen ==
  \A d \in Devices : (used[d] > 0 ~> used[d] = 0) /\ (stale[d] ~> ~stale[d])

=============================================================================
