--------------------------- MODULE TransportProofs --------------------------
(***************************************************************************)
(* Proofs about the virtio-mmio transport: its registers, status and       *)
(* queues (module Mmio), for any number of queues, any features and any    *)
(* sequence of register writes; and the path from its interrupt bits to    *)
(* the driver (module Interrupts), for any number of devices and any depth *)
(* of their rings.                                                         *)
(***************************************************************************)
EXTENDS Mmio, Interrupts, TLAPS

USE QueueAssumption, FeatureAssumption

\* What every register and every queue holds, through all writes and errors of
\* Mmio::write, notify and poll.
THEOREM TransportTyped == Spec => []TransportTypeOK
<1>1. Init => TransportTypeOK
  <2> SUFFICES ASSUME Init PROVE TransportTypeOK
    OBVIOUS
  <2>1. strict \in BOOLEAN /\ ended \in BOOLEAN
    BY Zenon DEF Init
  <2> QED
    BY <2>1 DEF Init, TransportTypeOK, Rings
<1>2. TransportTypeOK /\ [Next]_vars => TransportTypeOK'
  <2> SUFFICES ASSUME TransportTypeOK, [Next]_vars PROVE TransportTypeOK'
    OBVIOUS
  <2> USE DEF TransportTypeOK, Bits, queues, selectors
  <2>1. CASE UNCHANGED vars
    BY <2>1 DEF vars
  <2>2. CASE Configure /\ UNCHANGED strict
    <3>1. CASE \E s \in {"Low", "High", "None"} : SelectDriver(s)
      BY <2>2, <3>1 DEF SelectDriver
    <3>2. CASE \E q \in Queues \cup {Absent} : SelectQueue(q)
      BY <2>2, <3>2 DEF SelectQueue
    <3>3. CASE \E written \in SUBSET (Low \cup High) : WriteFeatures(written)
      BY <2>2, <3>3 DEF WriteFeatures
    <3>4. CASE \E written \in (SUBSET Bits) \ {{}} : WriteStatus(written)
      BY <2>2, <3>4 DEF WriteStatus, Accepted, Reject
    <3>5. CASE Reset
      <4>1. ended' \in BOOLEAN
        BY <3>5, Zenon DEF Reset
      <4>2. CASE UNCHANGED <<status, negotiated, interrupt, selectors, queues>>
        BY <2>2, <4>1, <4>2
      <4>3. CASE /\ status' = {} /\ negotiated' = {} /\ interrupt' = {}
                 /\ driverSel' = "Low" /\ queueSel' = 0
                 /\ ready' = {} /\ rings' = [q \in Queues |-> "Nowhere"]
                 /\ avail' = [q \in Queues |-> 0]
        BY <2>2, <4>1, <4>3 DEF Rings
      <4> QED
        BY <3>5, <4>2, <4>3 DEF Reset
    <3>6. CASE \E written \in SUBSET {"Used", "Config"} : AckInterrupt(written)
      BY <2>2, <3>6 DEF AckInterrupt
    <3>7. CASE \E written \in Rings \cup {"OutOfRange"} : ConfigureQueue(written)
      BY <2>2, <3>7 DEF ConfigureQueue, Reject
    <3>8. CASE EnableQueue \/ DisableQueue
      BY <2>2, <3>8 DEF EnableQueue, DisableQueue, Reject
    <3> QED
      BY <2>2, <3>1, <3>2, <3>3, <3>4, <3>5, <3>6, <3>7, <3>8 DEF Configure
  <2>3. CASE Dataplane /\ UNCHANGED strict
    <3>1. CASE \E q \in Queues : Offer(q)
      BY <2>3, <3>1 DEF Offer
    <3>2. CASE \E q \in Queues : LoseRings(q)
      BY <2>3, <3>2 DEF LoseRings, Rings
    <3>3. CASE (\E q \in Queues : Notify(q)) \/ Poll
      <4>1. PICK q \in Queues : Process(q) /\ UNCHANGED <<negotiated, selectors, ready, rings, strict>>
        BY <2>3, <3>3 DEF Notify, Poll
      <4>2. CASE HasChain(q) /\ avail' = [avail EXCEPT ![q] = @ - 1] /\ UNCHANGED <<status, ended>>
                   /\ interrupt' = interrupt \cup {"Used"}
        BY <4>1, <4>2 DEF HasChain
      <4>3. CASE Contain /\ UNCHANGED avail
        BY <4>1, <4>3 DEF Contain
      <4>4. CASE ended' = TRUE /\ UNCHANGED <<status, interrupt, avail>>
        <5>1. ended' \in BOOLEAN
          BY <4>4, Zenon
        <5> QED
          BY <4>1, <4>4, <5>1
      <4> QED
        BY <4>1, <4>2, <4>3, <4>4 DEF Process
    <3>4. CASE ScanPins
      BY <2>3, <3>4 DEF ScanPins, Contain
    <3> QED
      BY <2>3, <3>1, <3>2, <3>3, <3>4 DEF Dataplane
  <2> QED
    BY <2>1, <2>2, <2>3 DEF Next
<1> QED
  BY <1>1, <1>2, PTL DEF Spec

\* One register write or one piece of device work preserves it.
LEMMA SoundStep ==
  ASSUME TransportTypeOK, Sound, Next
  PROVE  Sound'
<1> USE DEF Sound, FeaturesInForce, ServiceIsSound, Supported, TransportTypeOK, queues, selectors
<1>1. CASE Configure
  <2>1. CASE \E s \in {"Low", "High", "None"} : SelectDriver(s)
    BY <2>1 DEF SelectDriver
  <2>2. CASE \E q \in Queues \cup {Absent} : SelectQueue(q)
    BY <2>2 DEF SelectQueue
  <2>3. CASE \E written \in SUBSET (Low \cup High) : WriteFeatures(written)
    BY <2>3 DEF WriteFeatures, Editable
  <2>4. CASE \E written \in (SUBSET Bits) \ {{}} : WriteStatus(written)
    BY <2>4 DEF WriteStatus, Keeps, Accepted, CanDrive, Valid, Reject
  <2>5. CASE Reset
    BY <2>5 DEF Reset
  <2>6. CASE \E written \in SUBSET {"Used", "Config"} : AckInterrupt(written)
    BY <2>6 DEF AckInterrupt
  <2>7. CASE \E written \in Rings \cup {"OutOfRange"} : ConfigureQueue(written)
    BY <2>7 DEF ConfigureQueue, Frozen, Reject
  <2>8. CASE EnableQueue \/ DisableQueue
    BY <2>8 DEF EnableQueue, DisableQueue, Frozen, Reject
  <2> QED
    BY <1>1, <2>1, <2>2, <2>3, <2>4, <2>5, <2>6, <2>7, <2>8 DEF Configure
<1>2. CASE Dataplane
  <2>1. CASE \E q \in Queues : Offer(q)
    BY <2>1 DEF Offer
  <2>2. CASE \E q \in Queues : LoseRings(q)
    BY <2>2 DEF LoseRings
  <2>3. CASE (\E q \in Queues : Notify(q)) \/ Poll
    BY <2>3 DEF Notify, Poll, Process, Contain
  <2>4. CASE ScanPins
    BY <2>4 DEF ScanPins, Contain
  <2> QED
    BY <1>2, <2>1, <2>2, <2>3, <2>4 DEF Dataplane
<1> QED
  BY <1>1, <1>2 DEF Next

\* mmio.rs configure and contain: what FEATURES_OK, DRIVER_OK and queue readiness
\* stand for survives every write, error, isolation and reset.  The conjunction is
\* inductive; its parts alone are not, for a status write keeps the bits that are
\* set and relies on what they stood for.
THEOREM TransportSound == Spec => []Sound
<1>1. Init => Sound
  BY DEF Init, Sound, FeaturesInForce, ServiceIsSound
<1>2. TransportTypeOK /\ Sound /\ [Next]_vars => Sound'
  <2> SUFFICES ASSUME TransportTypeOK, Sound, [Next]_vars PROVE Sound'
    OBVIOUS
  <2>1. CASE UNCHANGED vars
    BY <2>1 DEF Sound, FeaturesInForce, ServiceIsSound, Supported, vars, queues
  <2>2. CASE Next
    BY <2>2, SoundStep
  <2> QED
    BY <2>1, <2>2
<1> QED
  BY <1>1, <1>2, TransportTyped, PTL DEF Spec

\* mmio.rs write and poll: only a device in service takes chains.
THEOREM ConsumesInService == Spec => OnlyActiveConsumes
<1>1. TransportTypeOK /\ Sound /\ [Next]_vars =>
        [\A q \in Queues : avail'[q] < avail[q] =>
           \/ /\ "DriverOk" \in status /\ status \cap {"NeedsReset", "Failed"} = {}
              /\ Supported /\ Valid(q)
           \/ status' = {} /\ ready' = {}]_vars
  <2> SUFFICES ASSUME TransportTypeOK, Sound, Next, NEW q \in Queues, avail'[q] < avail[q]
               PROVE  \/ /\ "DriverOk" \in status /\ status \cap {"NeedsReset", "Failed"} = {}
                         /\ Supported /\ Valid(q)
                      \/ status' = {} /\ ready' = {}
    BY DEF vars, queues
  <2>1. avail[q] \in Nat /\ ~UNCHANGED avail
    BY DEF TransportTypeOK
  <2>2. CASE Configure
    <3>1. Reset
      BY <2>1, <2>2 DEF Configure, SelectDriver, SelectQueue, WriteFeatures, WriteStatus, AckInterrupt,
                   ConfigureQueue, EnableQueue, DisableQueue, Reject, queues
    <3> QED
      BY <2>1, <3>1 DEF Reset, queues
  <2>3. CASE Dataplane
    <3>1. ~\E r \in Queues : Offer(r)
      BY DEF Offer, TransportTypeOK
    <3>2. PICK r \in Queues : Active /\ Process(r)
      BY <2>1, <2>3, <3>1 DEF Dataplane, LoseRings, Notify, Poll, ScanPins, queues, TransportTypeOK
    <3>3. HasChain(r) /\ avail' = [avail EXCEPT ![r] = @ - 1]
      BY <2>1, <3>2 DEF Process
    <3>4. r = q
      BY <3>3 DEF TransportTypeOK
    <3> QED
      BY <3>2, <3>3, <3>4 DEF Active, HasChain, Sound, FeaturesInForce
  <2> QED
    BY <2>2, <2>3 DEF Next
<1> QED
  BY <1>1, TransportTyped, TransportSound, PTL DEF Spec, OnlyActiveConsumes

\* mmio.rs configure: after DRIVER_OK a queue may only be turned off and rings may
\* only be lost, and only by a device out of service, until the driver resets it.
LEMMA NoRestartStep ==
  ASSUME TransportTypeOK, Next, "DriverOk" \in status, status' # {}
  PROVE  /\ ready' \subseteq ready
         /\ \A q \in Queues : rings'[q] \in {rings[q], "Nowhere"}
         /\ \A q \in ready' : rings'[q] = rings[q] \/ ~Active
<1>1. rings \in [Queues -> Rings] /\ ready \subseteq Queues
  BY DEF TransportTypeOK
<1> USE <1>1 DEF queues
<1>2. CASE Configure
  BY <1>2 DEF Configure, SelectDriver, SelectQueue, WriteFeatures, WriteStatus, Reset, AckInterrupt,
              ConfigureQueue, EnableQueue, DisableQueue, Frozen, Reject
<1>3. CASE Dataplane
  <2>1. CASE \E q \in Queues : LoseRings(q)
    BY <2>1 DEF LoseRings, Active
  <2>2. CASE UNCHANGED <<ready, rings>>
    BY <2>2
  <2> QED
    BY <1>3, <2>1, <2>2 DEF Dataplane, Offer, Notify, Poll, ScanPins
<1> QED
  BY <1>2, <1>3 DEF Next

\* mmio.rs write: a bit of the status is cleared by a reset alone, which clears
\* everything else with it.
LEMMA IsolationStep ==
  ASSUME Next, "NeedsReset" \in status, "NeedsReset" \notin status'
  PROVE  status' = {} /\ ready' = {} /\ negotiated' = {} /\ interrupt' = {}
<1>1. CASE Configure
  <2>1. CASE Reset
    BY <2>1 DEF Reset
  <2>2. CASE \E written \in (SUBSET Bits) \ {{}} : WriteStatus(written)
    BY <2>2 DEF WriteStatus, Keeps, Accepted, Reject
  <2> QED
    BY <1>1, <2>1, <2>2 DEF Configure, SelectDriver, SelectQueue, WriteFeatures, AckInterrupt,
                   ConfigureQueue, EnableQueue, DisableQueue, Reject
<1>2. CASE Dataplane
  BY <1>2 DEF Dataplane, Offer, LoseRings, Notify, Poll, Process, Contain, ScanPins
<1> QED
  BY <1>1, <1>2 DEF Next

\* Between two resets nothing that the driver or a contained error turned off
\* comes back.
THEOREM OneLifeOnly == Spec => OneLife
<1>1. TransportTypeOK /\ [Next]_vars =>
        [("DriverOk" \in status /\ status' # {}) =>
           /\ ready' \subseteq ready
           /\ \A q \in Queues : rings'[q] \in {rings[q], "Nowhere"}
           /\ \A q \in ready' : rings'[q] = rings[q] \/ ~Active]_vars
  BY NoRestartStep
<1>2. [Next]_vars =>
        [("NeedsReset" \in status /\ "NeedsReset" \notin status') =>
           status' = {} /\ ready' = {} /\ negotiated' = {} /\ interrupt' = {}]_vars
  BY IsolationStep
<1> QED
  BY <1>1, <1>2, TransportTyped, PTL DEF Spec, OneLife, NoRestart, IsolatedUntilReset

(***************************************************************************)
(* The interrupt path.                                                     *)
(***************************************************************************)
USE DeviceAssumption

(***************************************************************************)
(* The inductive invariant.                                                *)
(***************************************************************************)
\* A driver never makes more chains available than its ring holds, the used ones
\* it has not looked at included.
RingBounded == \A d \in Devices : offered[d] + used[d] <= RingSize

\* A driver waits in the access that its step calls for, and has a status in hand
\* only between the read that returned it and its look at the rings.
DriverWaits ==
  \A d \in Devices :
    /\ access[d] = "Status" => driver[d] = "Reading"
    /\ driver[d] = "Reading" => access[d] = "Status"
    /\ access[d] = "Ack" => driver[d] = "Looking"
    /\ access[d] = "Notify" => driver[d] = "Idle"
    /\ driver[d] \in {"Idle", "Reading"} => seen[d] = {}

\* Between handle_io and complete_io the vCPU of the access waits.
AccessHeld ==
  pc \in {"Level", "Complete"} => current \in Devices /\ access[current] # "None"

\* The line is up without a reason only from an acknowledgement to the set_irq
\* that follows it, while the vCPU that acknowledged still waits.
LineHonest ==
  \A d \in Devices : line[d] => interrupts[d] # {} \/ (pc = "Level" /\ current = d)

IrqInv == IrqTypeOK /\ RingBounded /\ DriverWaits /\ AccessHeld /\ LineHonest /\ NoticeKept

(***************************************************************************)
(* Every conjunct is kept by every step.                                   *)
(***************************************************************************)
\* A notification moves chains of one device to its used ring and may isolate it;
\* each comes with its bit, and bits and chains of the others stay.
LEMMA NotifiedKeeps ==
  ASSUME IrqTypeOK, RingBounded, NEW d \in Devices, Notified(d)
  PROVE  /\ interrupts' \in [Devices -> SUBSET Notices] /\ stale' \in [Devices -> BOOLEAN]
         /\ offered' \in [Devices -> 0..RingSize] /\ used' \in [Devices -> 0..RingSize]
         /\ \A e \in Devices :
              /\ offered'[e] + used'[e] = offered[e] + used[e]
              /\ interrupts[e] \subseteq interrupts'[e]
              /\ used'[e] > 0 => used[e] > 0 \/ "Used" \in interrupts'[e]
              /\ stale'[e] => stale[e] \/ "Config" \in interrupts'[e]
              /\ e # d => interrupts'[e] = interrupts[e]
<1> USE DEF IrqTypeOK, RingBounded, Notices
<1>1. PICK n \in 0..offered[d], isolated \in BOOLEAN :
        /\ offered' = [offered EXCEPT ![d] = @ - n]
        /\ used' = [used EXCEPT ![d] = @ + n]
        /\ stale' = [stale EXCEPT ![d] = @ \/ isolated]
        /\ interrupts' = [interrupts EXCEPT ![d] = @ \cup (IF n > 0 THEN {"Used"} ELSE {})
                                                      \cup (IF isolated THEN {"Config"} ELSE {})]
  BY DEF Notified
<1>2. stale' \in [Devices -> BOOLEAN]
  BY <1>1, Zenon
<1>3. \A e \in Devices : stale'[e] => stale[e] \/ (e = d /\ isolated)
  BY <1>1, Zenon
<1>4. /\ offered' \in [Devices -> 0..RingSize] /\ used' \in [Devices -> 0..RingSize]
      /\ \A e \in Devices : offered'[e] + used'[e] = offered[e] + used[e]
  BY <1>1
<1>5. /\ interrupts' \in [Devices -> SUBSET Notices]
      /\ \A e \in Devices :
           /\ interrupts[e] \subseteq interrupts'[e]
           /\ e # d => interrupts'[e] = interrupts[e]
           /\ used'[e] > 0 => used[e] > 0 \/ "Used" \in interrupts'[e]
  BY <1>1
<1>6. isolated => "Config" \in interrupts'[d]
  BY <1>1
<1> QED
  BY <1>2, <1>3, <1>4, <1>5, <1>6

\* What the states of the devices, drivers and run thread are, through every step:
\* that a ring holds no more than Ring used chains rests on RingBounded.
LEMMA TypeStep == ASSUME IrqTypeOK, RingBounded, AccessHeld, IrqNext PROVE IrqTypeOK'
<1> USE DEF IrqTypeOK, bits, chains, guest, thread
<1>1. CASE \E d \in Devices : OfferChain(d)
  BY <1>1 DEF OfferChain, RingBounded
<1>2. CASE \E d \in Devices : DriverStep(d)
  <2>1. PICK d \in Devices : Interrupted(d) \/ Clear(d) \/ Look(d)
    BY <1>2 DEF DriverStep
  <2>2. CASE Interrupted(d) \/ Clear(d)
    BY <2>2 DEF Interrupted, Clear
  <2>3. CASE Look(d)
    <3>1. stale' \in [Devices -> BOOLEAN]
      BY <2>3, Zenon DEF Look
    <3> QED
      BY <2>3, <3>1 DEF Look
  <2> QED
    BY <2>1, <2>2, <2>3
<1>3. CASE \E d \in Devices : PollDevice(d)
  BY <1>3 DEF PollDevice, Complete, HasOffered, RingBounded, Notices
<1>4. CASE \E d \in Devices : ConfigChanged(d)
  <2>1. PICK d \in Devices : ConfigChanged(d)
    BY <1>4
  <2>2. stale' \in [Devices -> BOOLEAN]
    BY <2>1, Zenon DEF ConfigChanged
  <2> QED
    BY <2>1, <2>2 DEF ConfigChanged, Notices
<1>5. CASE \E d \in Devices : Handle(d)
  <2>1. PICK d \in Devices : Handle(d)
    BY <1>5
  <2>2. CASE access[d] = "Notify" /\ Notified(d) /\ value' = {}
    BY <2>1, <2>2, NotifiedKeeps DEF Handle
  <2>3. CASE /\ UNCHANGED chains
             /\ interrupts' = interrupts \/ interrupts' = Acked(d)
             /\ value' = {} \/ value' = interrupts[d]
    BY <2>1, <2>3 DEF Handle, Acked
  <2> QED
    BY <2>1, <2>2, <2>3 DEF Handle
<1>6. CASE EndPoll \/ NoEvent
  BY <1>6 DEF EndPoll, NoEvent
<1>7. CASE Raise
  <2>1. line' \in [Devices -> BOOLEAN]
    BY <1>7, Zenon DEF Raise, Levels
  <2> QED
    BY <1>7, <2>1 DEF Raise
<1>8. CASE SetLevel
  <2>1. line' \in [Devices -> BOOLEAN]
    BY <1>8, Zenon DEF SetLevel, AccessLevel
  <2> QED
    BY <1>8, <2>1 DEF SetLevel
<1>9. CASE CompleteIo
  BY <1>9 DEF CompleteIo, AccessHeld
<1> QED
  BY <1>1, <1>2, <1>3, <1>4, <1>5, <1>6, <1>7, <1>8, <1>9 DEF IrqNext, RunStep

\* A chain moves from the available to the used ring, and only the driver adds or
\* takes one.
LEMMA RingStep == ASSUME IrqTypeOK, RingBounded, IrqNext PROVE RingBounded'
<1> USE DEF IrqTypeOK, RingBounded
<1>1. CASE UNCHANGED <<offered, used>>
  BY <1>1
<1>2. CASE \E d \in Devices : OfferChain(d)
  BY <1>2 DEF OfferChain
<1>3. CASE \E d \in Devices : Look(d)
  BY <1>3 DEF Look
<1>4. CASE \E d \in Devices : Complete(d)
  BY <1>4 DEF Complete, HasOffered
<1>5. CASE \E d \in Devices : Notified(d)
  BY <1>5, NotifiedKeeps
<1> QED
  BY <1>1, <1>2, <1>3, <1>4, <1>5 DEF IrqNext, RunStep, DriverStep, Interrupted, Clear, PollDevice,
     ConfigChanged, Handle, EndPoll, Raise, NoEvent, SetLevel, CompleteIo, chains

\* The driver's protocol: only its own steps and the completion of its access move it.
LEMMA DriverStepKeeps ==
  ASSUME IrqTypeOK, DriverWaits, AccessHeld, IrqNext PROVE DriverWaits' /\ AccessHeld'
<1> USE DEF IrqTypeOK, DriverWaits, AccessHeld, guest, thread
<1>1. CASE \E d \in Devices : OfferChain(d)
  BY <1>1 DEF OfferChain, Free
<1>2. CASE \E d \in Devices : DriverStep(d)
  BY <1>2 DEF DriverStep, Interrupted, Clear, Look, Free
<1>3. CASE \E d \in Devices : PollDevice(d) \/ ConfigChanged(d)
  BY <1>3 DEF PollDevice, ConfigChanged
<1>4. CASE \E d \in Devices : Handle(d)
  BY <1>4 DEF Handle
<1>5. CASE EndPoll \/ NoEvent \/ Raise \/ SetLevel
  BY <1>5 DEF EndPoll, NoEvent, Raise, SetLevel
<1>6. CASE CompleteIo
  BY <1>6 DEF CompleteIo
<1> QED
  BY <1>1, <1>2, <1>3, <1>4, <1>5, <1>6 DEF IrqNext, RunStep

\* A bit goes down only by an acknowledgement, and the line follows it at the
\* next set_irq, before the vCPU goes on.
LEMMA LineStep ==
  ASSUME IrqTypeOK, RingBounded, AccessHeld, LineHonest, IrqNext PROVE LineHonest'
<1> USE DEF IrqTypeOK, AccessHeld, LineHonest
<1>1. CASE \E d \in Devices : OfferChain(d) \/ DriverStep(d)
  BY <1>1 DEF OfferChain, DriverStep, Interrupted, Clear, Look, bits, thread
<1>2. CASE \E d \in Devices : PollDevice(d) \/ ConfigChanged(d)
  BY <1>2 DEF PollDevice, ConfigChanged, Complete, thread
<1>3. CASE \E d \in Devices : Handle(d)
  <2>1. PICK d \in Devices : Handle(d)
    BY <1>3
  <2>2. CASE access[d] = "Notify" /\ Notified(d)
    <3>1. \A e \in Devices : e # d => interrupts'[e] = interrupts[e]
      BY <2>2, NotifiedKeeps
    <3> QED
      BY <2>1, <2>2, <3>1 DEF Handle
  <2>3. CASE access[d] # "Notify"
    BY <2>1, <2>3 DEF Handle, Acked
  <2> QED
    BY <2>1, <2>2, <2>3 DEF Handle
<1>4. CASE EndPoll \/ NoEvent \/ CompleteIo
  BY <1>4 DEF EndPoll, NoEvent, CompleteIo, bits
<1>5. CASE Raise
  BY <1>5 DEF Raise, Levels
<1>6. CASE SetLevel
  BY <1>6 DEF SetLevel, AccessLevel
<1> QED
  BY <1>1, <1>2, <1>3, <1>4, <1>5, <1>6 DEF IrqNext, RunStep

\* Work appears together with its bit; a driver acknowledges what it has read and
\* then looks for it.
LEMMA NoticeStep ==
  ASSUME IrqTypeOK, RingBounded, DriverWaits, AccessHeld, NoticeKept, IrqNext PROVE NoticeKept'
<1> USE DEF IrqTypeOK, DriverWaits, NoticeKept
<1>1. CASE \E d \in Devices : OfferChain(d)
  BY <1>1 DEF OfferChain, bits
<1>2. CASE \E d \in Devices : Interrupted(d) \/ Clear(d)
  BY <1>2 DEF Interrupted, Clear, bits, chains
<1>3. CASE \E d \in Devices : Look(d)
  <2>1. PICK d \in Devices : Look(d)
    BY <1>3
  <2>2. \A e \in Devices : stale'[e] => stale[e] /\ (e = d => "Config" \notin seen[d])
    BY <2>1, Zenon DEF Look
  <2> QED
    BY <2>1, <2>2 DEF Look, bits
<1>4. CASE \E d \in Devices : PollDevice(d)
  BY <1>4 DEF PollDevice, Complete, guest
<1>5. CASE \E d \in Devices : ConfigChanged(d)
  BY <1>5 DEF ConfigChanged, guest
<1>6. CASE \E d \in Devices : Handle(d)
  <2>1. PICK d \in Devices : Handle(d)
    BY <1>6
  <2>2. CASE access[d] = "Notify" /\ Notified(d)
    <3>1. \A e \in Devices :
            /\ interrupts[e] \subseteq interrupts'[e]
            /\ used'[e] > 0 => used[e] > 0 \/ "Used" \in interrupts'[e]
            /\ stale'[e] => stale[e] \/ "Config" \in interrupts'[e]
      BY <2>2, NotifiedKeeps
    <3> QED
      BY <2>1, <3>1 DEF Handle, guest
  <2>3. CASE access[d] # "Notify"
    BY <2>1, <2>3 DEF Handle, Acked, guest, chains
  <2> QED
    BY <2>1, <2>2, <2>3 DEF Handle
<1>7. CASE EndPoll \/ NoEvent \/ Raise \/ SetLevel
  BY <1>7 DEF EndPoll, NoEvent, Raise, SetLevel, bits, chains, guest
<1>8. CASE CompleteIo
  BY <1>8 DEF CompleteIo, AccessHeld, bits, chains
<1> QED
  BY <1>1, <1>2, <1>3, <1>4, <1>5, <1>6, <1>7, <1>8 DEF IrqNext, RunStep, DriverStep

\* The inductive invariant of the interrupt path.
THEOREM InterruptInvariant == IrqSpec => []IrqInv
<1>1. IrqInit => IrqInv
  <2> SUFFICES ASSUME IrqInit PROVE IrqInv
    OBVIOUS
  <2>1. line \in [Devices -> BOOLEAN] /\ stale \in [Devices -> BOOLEAN]
    BY Zenon DEF IrqInit
  <2>2. \A d \in Devices : ~line[d] /\ ~stale[d]
    BY Zenon DEF IrqInit
  <2>3. IrqTypeOK
    BY <2>1 DEF IrqInit, IrqTypeOK
  <2>4. RingBounded /\ DriverWaits /\ AccessHeld
    BY DEF IrqInit, RingBounded, DriverWaits, AccessHeld
  <2>5. LineHonest /\ NoticeKept
    BY <2>2 DEF IrqInit, LineHonest, NoticeKept
  <2> QED
    BY <2>3, <2>4, <2>5 DEF IrqInv
<1>2. IrqInv /\ [IrqNext]_irqVars => IrqInv'
  <2> SUFFICES ASSUME IrqInv, [IrqNext]_irqVars PROVE IrqInv'
    OBVIOUS
  <2>1. CASE IrqNext
    BY <2>1, TypeStep, RingStep, DriverStepKeeps, LineStep, NoticeStep DEF IrqInv
  <2>2. CASE UNCHANGED irqVars
    BY <2>2 DEF IrqInv, IrqTypeOK, RingBounded, DriverWaits, AccessHeld, LineHonest, NoticeKept,
       irqVars, bits, chains, guest, thread
  <2> QED
    BY <2>1, <2>2
<1> QED
  BY <1>1, <1>2, PTL DEF IrqSpec

\* The line is up for a running driver only when a bit is set, and no used chain
\* and no new configuration is left without a bit or a driver about to look
\* (mmio.rs's interrupt word and the two set_irq calls of runtime.rs).
THEOREM InterruptsAreExact == IrqSpec => []InterruptsExact
<1>1. IrqInv => InterruptsExact
  BY DEF IrqInv, InterruptsExact, NoSpuriousInterrupt, LineHonest, AccessHeld, Free
<1> QED
  BY <1>1, InterruptInvariant, PTL

=============================================================================
