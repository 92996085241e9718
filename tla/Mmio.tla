-------------------------------- MODULE Mmio --------------------------------
(***************************************************************************)
(* src/src/devices/mmio.rs: the virtio-mmio transport of one device.  The  *)
(* guest writes any value to any register in any order; the run thread     *)
(* handles one access at a time and polls the device in between.           *)
(*                                                                         *)
(* A register of bits is the set of its set bits.  A queue's size and      *)
(* addresses are one value: Here or There when the rings they describe lie *)
(* in guest memory, as Queue::is_valid checks, and Nowhere otherwise.      *)
(* feature_sel, the counter of rejected writes and register reads bear on  *)
(* nothing else and are left out.                                          *)
(***************************************************************************)
EXTENDS Naturals, FiniteSets

CONSTANTS
  Queues,     \* queue indices
  Absent,     \* an index past the last queue
  Low, High,  \* the feature bits below and from bit 32, offered or not
  Version1,   \* VIRTIO_F_VERSION_1
  Offered,    \* device.features() and Version1
  Required,   \* device.required_features()
  Ring        \* chains the driver may make available at a time

ASSUME QueueAssumption == 0 \in Queues /\ Absent \notin Queues /\ Ring \in Nat
ASSUME FeatureAssumption ==
  /\ Version1 \in High /\ Low \cap High = {}
  /\ Version1 \in Offered /\ Offered \subseteq Low \cup High
  /\ Required \subseteq Offered

VARIABLES
  status, negotiated, interrupt,  \* registers of bits
  driverSel, queueSel,            \* selectors
  ready, rings,                   \* every queue
  avail,                          \* chains made available and not consumed
  strict,                         \* VmConfig::strict
  ended                           \* an error has ended the VM

selectors == <<driverSel, queueSel>>
queues    == <<ready, rings, avail>>
vars      == <<status, negotiated, interrupt, selectors, queues, strict, ended>>

Rings == {"Here", "There", "Nowhere"}
Bits  == {"Acknowledge", "Driver", "FeaturesOk", "DriverOk", "NeedsReset", "Failed"}

TransportTypeOK ==
  /\ status \subseteq Bits
  /\ negotiated \subseteq Low \cup High
  /\ interrupt \subseteq {"Used", "Config"}
  /\ driverSel \in {"Low", "High", "None"}
  /\ queueSel \in Queues \cup {Absent}
  /\ ready \subseteq Queues
  /\ rings \in [Queues -> Rings]
  /\ avail \in [Queues -> 0..Ring]
  /\ strict \in BOOLEAN /\ ended \in BOOLEAN

Init ==
  /\ status = {} /\ negotiated = {} /\ interrupt = {}
  /\ driverSel = "Low" /\ queueSel = 0
  /\ ready = {} /\ rings = [q \in Queues |-> "Nowhere"] /\ avail = [q \in Queues |-> 0]
  /\ strict \in BOOLEAN /\ ended = FALSE

Valid(q) == q \in ready /\ rings[q] # "Nowhere"

Active_Isolated ==
  /\ {"Acknowledge", "Driver", "FeaturesOk", "DriverOk"} \subseteq status
  /\ "Failed" \notin status
Active ==
  /\ {"Acknowledge", "Driver", "FeaturesOk", "DriverOk"} \subseteq status
  /\ status \cap {"NeedsReset", "Failed"} = {}

(***************************************************************************)
(* Errors.  Contain: a dataplane error of the guest isolates the device    *)
(* and tells a driver that is up.  Reject: a refused register write.       *)
(***************************************************************************)
Contain ==
  /\ IF strict
     THEN ended' = TRUE /\ UNCHANGED <<status, interrupt>>
     ELSE /\ status' = status \cup {"NeedsReset"}
          /\ interrupt' = interrupt \cup (IF "DriverOk" \in status THEN {"Config"} ELSE {})
          /\ UNCHANGED ended

Reject == strict /\ ended' = TRUE /\ UNCHANGED <<status, negotiated, interrupt, selectors, queues>>

(***************************************************************************)
(* configure, one register at a time.                                      *)
(***************************************************************************)
SelectDriver(s) ==
  /\ driverSel' = s
  /\ UNCHANGED <<status, negotiated, interrupt, queueSel, queues, ended>>

SelectQueue(q) ==
  /\ queueSel' = q
  /\ UNCHANGED <<status, negotiated, interrupt, driverSel, queues, ended>>

Editable_Always == TRUE
Editable == "FeaturesOk" \notin status

\* One half of the 64 bits; nothing to do once FEATURES_OK is set.
WriteFeatures(value) ==
  /\ Editable
  /\ \/ driverSel = "Low"  /\ value \subseteq Low  /\ negotiated' = (negotiated \ Low) \cup value
     \/ driverSel = "High" /\ value \subseteq High /\ negotiated' = (negotiated \ High) \cup value
  /\ UNCHANGED <<status, interrupt, selectors, queues, ended>>

Supported == negotiated \subseteq Offered /\ {Version1} \cup Required \subseteq negotiated

\* A subset the device does not support leaves FEATURES_OK clear.
Accepted(value) == IF Supported THEN value ELSE value \ {"FeaturesOk"}

CanDrive_AnyStatus(value) == \A q \in Queues : Valid(q)
CanDrive(value) ==
  /\ {"Acknowledge", "Driver", "FeaturesOk"} \subseteq value
  /\ \A q \in Queues : Valid(q)

Keeps_ButReset(value) == status \ {"NeedsReset"} \subseteq value
Keeps(value) == status \subseteq value

WriteStatus(value) ==
  IF /\ Keeps(value)
     /\ "DriverOk" \in Accepted(value) \ status => CanDrive(Accepted(value))
  THEN /\ status' = Accepted(value)
       /\ UNCHANGED <<negotiated, interrupt, selectors, queues, ended>>
  ELSE Reject

\* Status 0: the device first, whose own reset may fail and end the VM.
Reset ==
  \/ /\ status' = {} /\ negotiated' = {} /\ interrupt' = {}
     /\ driverSel' = "Low" /\ queueSel' = 0
     /\ ready' = {} /\ rings' = [q \in Queues |-> "Nowhere"] /\ avail' = [q \in Queues |-> 0]
     /\ UNCHANGED ended
  \/ /\ ended' = TRUE
     /\ UNCHANGED <<status, negotiated, interrupt, selectors, queues>>

AckInterrupt(value) ==
  /\ interrupt' = interrupt \ value
  /\ UNCHANGED <<status, negotiated, selectors, queues, ended>>

Frozen_WhileReady(q) == q \in ready
Frozen(q) == "DriverOk" \in status \/ q \in ready

\* Size and addresses; OutOfRange is a size or a ready value that is refused.
ConfigureQueue(value) ==
  /\ queueSel \in Queues
  /\ IF Frozen(queueSel) \/ value = "OutOfRange"
     THEN Reject
     ELSE /\ rings' = [rings EXCEPT ![queueSel] = value]
          /\ UNCHANGED <<status, negotiated, interrupt, selectors, ready, avail, ended>>

EnableQueue ==
  /\ queueSel \in Queues
  /\ IF Frozen(queueSel) \/ rings[queueSel] = "Nowhere"
     THEN Reject
     ELSE /\ ready' = ready \cup {queueSel}
          /\ UNCHANGED <<status, negotiated, interrupt, selectors, rings, avail, ended>>

DisableQueue ==
  /\ queueSel \in Queues
  /\ ready' = ready \ {queueSel}
  /\ UNCHANGED <<status, negotiated, interrupt, selectors, rings, avail, ended>>

Configure ==
  \/ \E s \in {"Low", "High", "None"} : SelectDriver(s)
  \/ \E q \in Queues \cup {Absent} : SelectQueue(q)
  \/ \E value \in SUBSET (Low \cup High) : WriteFeatures(value)
  \/ \E value \in (SUBSET Bits) \ {{}} : WriteStatus(value)
  \/ Reset
  \/ \E value \in SUBSET {"Used", "Config"} : AckInterrupt(value)
  \/ \E value \in Rings \cup {"OutOfRange"} : ConfigureQueue(value)
  \/ EnableQueue
  \/ DisableQueue

(***************************************************************************)
(* The dataplane.                                                          *)
(***************************************************************************)
Offer(q) ==
  /\ q \in ready /\ avail[q] < Ring
  /\ avail' = [avail EXCEPT ![q] = @ + 1]
  /\ UNCHANGED <<status, negotiated, interrupt, selectors, ready, rings, ended>>

\* The guest unplugs memory: only the rings of a ready queue are pinned, and not
\* those of a device that needs its reset (module VirtioMem, LiveQueuesMapped).
LoseRings(q) ==
  /\ q \in ready => "NeedsReset" \in status
  /\ rings' = [rings EXCEPT ![q] = "Nowhere"]
  /\ UNCHANGED <<status, negotiated, interrupt, selectors, ready, avail, ended>>

HasChain_Unchecked(q) == Valid(q)
HasChain(q) == avail[q] > 0 /\ Valid(q)

\* The device works on queue q: it consumes chains, meets a chain that is not
\* as it should be, or its backend fails.
Process(q) ==
  \/ /\ HasChain(q)
     /\ avail' = [avail EXCEPT ![q] = @ - 1]
     /\ interrupt' = interrupt \cup {"Used"}
     /\ UNCHANGED <<status, ended>>
  \/ Contain /\ UNCHANGED avail
  \/ /\ ended' = TRUE
     /\ UNCHANGED <<status, interrupt, avail>>

Notify(q) ==
  /\ Active /\ q \in ready
  /\ Process(q)
  /\ UNCHANGED <<negotiated, selectors, ready, rings>>

\* A device checks itself that the queue it polls is ready (Queues::available).
Poll ==
  /\ Active
  /\ \E q \in ready : Process(q)
  /\ UNCHANGED <<negotiated, selectors, ready, rings>>

\* The memory barrier scans the queues of a device whether or not it is active.
ScanPins ==
  /\ "NeedsReset" \notin status /\ ready # {}
  /\ Contain
  /\ UNCHANGED <<negotiated, selectors, queues>>

Dataplane == (\E q \in Queues : Offer(q) \/ LoseRings(q) \/ Notify(q)) \/ Poll \/ ScanPins

Next == ~ended /\ (Configure \/ Dataplane) /\ UNCHANGED strict

Spec == Init /\ [][Next]_vars

(***************************************************************************)
(* Properties.                                                             *)
(***************************************************************************)

\* Through any sequence of writes, FEATURES_OK means the features in force are
\* a subset the device offers, with VERSION_1 and everything it requires: what
\* was accepted cannot be edited afterwards.
FeaturesInForce == "FeaturesOk" \in status => Supported

\* A driver that is up went through the whole negotiation, and unless it needs
\* its reset the rings the device works on are in guest memory.
ServiceIsSound ==
  "DriverOk" \in status =>
    /\ {"Acknowledge", "Driver", "FeaturesOk"} \subseteq status /\ Supported
    /\ "NeedsReset" \in status \/ \A q \in ready : rings[q] # "Nowhere"

\* Status bits, negotiated features and queues agree, whatever was written in
\* whichever order.
Sound == FeaturesInForce /\ ServiceIsSound

\* Chains are taken only from a ready queue of a device in service: no path
\* reaches the dataplane of a device that is isolated, failed or half set up.
OnlyActiveConsumes ==
  [][\A q \in Queues : avail'[q] < avail[q] =>
       \/ /\ "DriverOk" \in status /\ status \cap {"NeedsReset", "Failed"} = {}
          /\ Supported /\ Valid(q)
       \/ status' = {} /\ ready' = {}]_vars

\* Once DRIVER_OK is set, short of a reset no queue starts or restarts and no
\* rings are moved; only a device out of service may lose them.
NoRestart ==
  [][("DriverOk" \in status /\ status' # {}) =>
       /\ ready' \subseteq ready
       /\ \A q \in Queues : rings'[q] \in {rings[q], "Nowhere"}
       /\ \A q \in ready' : rings'[q] = rings[q] \/ ~Active]_vars

\* An isolated device stays out of service until the driver resets it, and the
\* reset starts it over: no queue, no feature, no interrupt of its former life.
IsolatedUntilReset ==
  [][("NeedsReset" \in status /\ "NeedsReset" \notin status') =>
       status' = {} /\ ready' = {} /\ negotiated' = {} /\ interrupt' = {}]_vars

\* Between two resets there is one life of the device: what was turned off by
\* the driver or by a contained error does not come back.
OneLife == NoRestart /\ IsolatedUntilReset

=============================================================================
