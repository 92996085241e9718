-------------------------------- MODULE Block --------------------------------
(***************************************************************************)
(* src/src/devices/block.rs: the virtio block device in front of a Disk.   *)
(* A notification serves the requests that were available when it was      *)
(* handled, one after the other; the run thread waits for each transfer,   *)
(* while the driver offers more and the host writes back what it caches.   *)
(*                                                                         *)
(* A request is its kind, first sector and segments.  Its flaw is "Status" *)
(* if it has no status byte to answer in (or its chain is malformed) and   *)
(* "Shape" for every other fault of layout, direction or alignment.        *)
(***************************************************************************)
EXTENDS Disk

CONSTANTS
  Requests,    \* what the driver may ask for
  MaxRequests  \* bound on how often

Kinds  == {"In", "Out", "Flush", "GetId", "Unknown"}
Flaws  == {"None", "Shape", "Status"}
Shapes == [kind : Kinds, sector : 0..(Word - 1), segments : Seq(Buffers), flaw : Flaws]

ASSUME BlockAssumption == Requests \subseteq Shapes /\ MaxRequests \in Nat

VARIABLES
  state,                  \* transport
  negotiated,             \* VIRTIO_BLK_F_FLUSH is negotiated
  readonly,               \* the disk is read-only
  avail, kicked,          \* requests not taken; a notification not handled
  pc, left, request, status,  \* notify: requests to serve, and the one served
  offered, answered, version, \* requests offered and completed, writes begun
  acked, promised         \* per sector: writes answered OK, and made durable

transport == <<state, negotiated, readonly>>
service   == <<pc, left, request, status>>
counters  == <<offered, answered, version>>
promises  == <<acked, promised>>
vars      == <<storage, transport, avail, kicked, service, counters, promises>>

NoRequest == [kind |-> "Unknown", sector |-> 0, segments |-> <<>>, flaw |-> "Status"]

TypeOK ==
  /\ DiskTypeOK
  /\ state \in {"Down", "Up", "Isolated", "Ended", "Closed"}
  /\ negotiated \in BOOLEAN /\ readonly \in BOOLEAN
  /\ avail \in Seq(Requests) /\ kicked \in BOOLEAN
  /\ pc \in {"Idle", "Next", "Transfer", "Sync", "Answer"}
  /\ left \in 0..MaxRequests /\ request \in Requests \cup {NoRequest}
  /\ status \in {"Ok", "IoErr", "Unsupp"}
  /\ offered \in 0..MaxRequests /\ answered \in 0..MaxRequests /\ version \in 0..MaxRequests
  /\ acked \in [Sectors -> Versions] /\ promised \in [Sectors -> Versions]

Init ==
  /\ DiskInit
  /\ state = "Down" /\ negotiated = FALSE /\ readonly \in BOOLEAN
  /\ avail = <<>> /\ kicked = FALSE
  /\ pc = "Idle" /\ left = 0 /\ request = NoRequest /\ status = "Ok"
  /\ offered = 0 /\ answered = 0 /\ version = 0
  /\ acked = [s \in Sectors |-> 0] /\ promised = acked

(***************************************************************************)
(* The driver.                                                             *)
(***************************************************************************)
Offer(r) ==
  /\ state \in {"Up", "Isolated"} /\ offered < MaxRequests
  /\ offered' = offered + 1 /\ avail' = Append(avail, r)
  /\ UNCHANGED <<storage, transport, kicked, service, answered, version, promises>>

Kick ==
  /\ state \in {"Up", "Isolated"} /\ ~kicked
  /\ kicked' = TRUE
  /\ UNCHANGED <<storage, transport, avail, service, counters, promises>>

Host == \E s \in Sectors : WriteBack(s)
  /\ UNCHANGED <<transport, avail, kicked, service, counters, promises>>

(***************************************************************************)
(* The transport, between two notifications.                               *)
(***************************************************************************)
SetDriverOk ==
  /\ pc = "Idle" /\ state = "Down"
  /\ state' = "Up" /\ negotiated' \in BOOLEAN
  /\ UNCHANGED <<storage, readonly, avail, kicked, service, counters, promises>>

\* What the guest has been told is written is now safe.
Settle == Flush /\ promised' = acked /\ UNCHANGED acked

\* Block::reset: the flush fails and the VM ends, or the queue starts over.
Reset ==
  /\ pc = "Idle" /\ state \in {"Up", "Isolated"}
  /\ \/ /\ state' = "Down" /\ negotiated' = FALSE
        /\ avail' = <<>> /\ kicked' = FALSE /\ answered' = offered
        /\ Settle
     \/ /\ state' = "Ended"
        /\ UNCHANGED <<storage, negotiated, avail, kicked, answered, promises>>
  /\ UNCHANGED <<readonly, service, offered, version>>

Shutdown ==
  /\ pc = "Idle" /\ state \in {"Down", "Up", "Isolated"}
  /\ state' = "Ended"
  /\ UNCHANGED <<storage, negotiated, readonly, avail, kicked, service, counters, promises>>

\* cleanup flushes every device, however the VM has ended, and reports a failure.
Cleanup ==
  /\ state = "Ended" /\ state' = "Closed"
  /\ Settle \/ UNCHANGED <<storage, promises>>
  /\ UNCHANGED <<negotiated, readonly, avail, kicked, service, counters>>

(***************************************************************************)
(* notify and request.                                                     *)
(***************************************************************************)
Count_One == IF avail = <<>> THEN 0 ELSE 1
Count == Len(avail)

\* Mmio::write ignores the notification of a device out of service.
Notify ==
  /\ kicked /\ kicked' = FALSE /\ pc = "Idle"
  /\ state \in {"Up", "Isolated"}
  /\ IF state = "Up" THEN pc' = "Next" /\ left' = Count ELSE UNCHANGED <<pc, left>>
  /\ UNCHANGED <<storage, transport, avail, request, status, counters, promises>>

NotifyDone ==
  /\ pc = "Next" /\ left = 0 /\ pc' = "Idle"
  /\ UNCHANGED <<storage, transport, avail, kicked, left, request, status, counters, promises>>

Offset_Wrapping(r) == (r.sector * SectorSize) % Word
Offset(r) == r.sector * SectorSize

Length(r) == Len(r.segments) * SectorSize

\* execute, everything it checks before it touches the disk.
Valid(r) ==
  /\ r.flaw = "None"
  /\ CASE r.kind \in {"In", "Out"} ->
            /\ r.kind = "Out" => ~readonly
            /\ Offset(r) < Word /\ Bounds(Offset(r), Length(r))
       [] r.kind = "Flush" -> r.segments = <<>> /\ negotiated
       [] r.kind = "GetId" -> r.segments # <<>>
       [] OTHER -> TRUE

Reply(s) == pc' = "Answer" /\ status' = s

\* A request without a usable status byte is the one guest error: it isolates
\* the device, or in strict mode it ends the VM.
Contain ==
  /\ state' \in {"Isolated", "Ended"}
  /\ pc' = "Idle" /\ left' = 0

Refuse(r) ==
  /\ r.flaw = "Status" /\ Contain
  /\ UNCHANGED <<storage, status, version>>

Execute(r) ==
  /\ r.flaw # "Status" /\ left' = left - 1 /\ UNCHANGED state
  /\ \/ ~Valid(r) /\ Reply("IoErr") /\ UNCHANGED <<storage, version>>
     \/ /\ Valid(r) /\ r.kind \in {"In", "Out"}
        /\ pc' = "Transfer" /\ todo' = r.segments /\ offset' = Offset(r)
        /\ version' = IF r.kind = "Out" THEN version + 1 ELSE version
        /\ UNCHANGED <<disk, stable, memory, status>>
     \/ Valid(r) /\ r.kind = "Flush" /\ pc' = "Sync" /\ UNCHANGED <<storage, status, version>>
     \/ Valid(r) /\ r.kind = "GetId" /\ Reply("Ok") /\ UNCHANGED <<storage, version>>
     \/ Valid(r) /\ r.kind = "Unknown" /\ Reply("Unsupp") /\ UNCHANGED <<storage, version>>

Pop ==
  /\ pc = "Next" /\ left > 0
  /\ request' = Head(avail) /\ avail' = Tail(avail)
  /\ Refuse(request') \/ Execute(request')
  /\ UNCHANGED <<negotiated, readonly, kicked, offered, answered, promises>>

Transfer ==
  /\ pc = "Transfer"
  /\ \/ request.kind = "Out" /\ WriteBatch(version) /\ UNCHANGED <<pc, status>>
     \/ request.kind = "In"  /\ ReadBatch           /\ UNCHANGED <<pc, status>>
     \/ request.kind = "Out" /\ WriteFails(version) /\ Reply("IoErr")
     \/ request.kind = "In"  /\ ReadFails           /\ Reply("IoErr")
  /\ UNCHANGED <<transport, avail, kicked, left, request, counters, promises>>

WriteThrough_Never == FALSE
WriteThrough == ~negotiated

TransferDone ==
  /\ pc = "Transfer" /\ todo = <<>>
  /\ IF request.kind = "Out" /\ WriteThrough
     THEN pc' = "Sync" /\ UNCHANGED status
     ELSE Reply("Ok")
  /\ UNCHANGED <<storage, transport, avail, kicked, left, request, counters, promises>>

Sync ==
  /\ pc = "Sync"
  /\ \/ Flush /\ Reply("Ok")
     \/ Reply("IoErr") /\ UNCHANGED storage
  /\ UNCHANGED <<transport, avail, kicked, left, request, counters, promises>>

\* The sectors a request asks for.
Span(r) == {s \in Sectors : s >= r.sector /\ s < r.sector + Len(r.segments)}

Mark(f) == [s \in Sectors |-> IF s \in Span(request) THEN version ELSE f[s]]

\* The status byte and the used ring.  An OK tells the guest that its write is
\* done, and that it is durable if it has no flush to ask for that with.
Answer ==
  /\ pc = "Answer" /\ pc' = "Next" /\ answered' = answered + 1
  /\ acked' = IF status = "Ok" /\ request.kind = "Out" THEN Mark(acked) ELSE acked
  /\ promised' = CASE status = "Ok" /\ request.kind = "Flush"               -> acked
                   [] status = "Ok" /\ request.kind = "Out" /\ ~negotiated -> Mark(promised)
                   [] OTHER                                                -> promised
  /\ UNCHANGED <<storage, transport, avail, kicked, left, request, status, offered, version>>

RunStep ==
  \/ Notify \/ NotifyDone \/ Pop \/ Transfer \/ TransferDone \/ Sync \/ Answer
  \/ Cleanup

Next ==
  \/ \E r \in Requests : Offer(r)
  \/ Kick \/ Host
  \/ SetDriverOk \/ Reset \/ Shutdown
  \/ RunStep

Spec == Init /\ [][Next]_vars

LiveSpec == Spec /\ WF_vars(RunStep)

(***************************************************************************)
(* Properties.                                                             *)
(***************************************************************************)

\* A write answered OK is on the disk in its whole range, whatever batches it
\* was split into and whichever other writes failed part of the way.
AckedIsWritten == \A s \in Sectors : acked[s] <= disk[s]

\* What the guest has been promised survives a crash of the host at any moment:
\* every write answered OK before a flush answered OK, a reset or an orderly
\* end, and without FLUSH negotiated every write answered OK.
PromisesKept == \A s \in Sectors : promised[s] <= stable[s]

Last(r, b) == CHOOSE i \in DOMAIN r.segments :
                /\ r.segments[i] = b
                /\ \A j \in DOMAIN r.segments : r.segments[j] = b => j <= i

\* A read answered OK has filled each buffer from the disk as if segment by
\* segment, also when segments overlap: the last of them wins.
ReadsInOrder ==
  (pc = "Answer" /\ status = "Ok" /\ request.kind = "In") =>
    \A i \in DOMAIN request.segments :
      LET b == request.segments[i]
      IN  memory[b] = disk[request.sector + Last(request, b) - 1]

\* What is answered OK is so: a write is whole, and durable where the guest may
\* count on it, and a read has the data, through every failed transfer or flush.
DataIntact == TypeOK /\ AckedIsWritten /\ PromisesKept /\ ReadsInOrder

\* Sectors change only by a write that is wholly valid, and only the sectors it
\* names: never on a read-only disk, nor where wrapped arithmetic would lead.
WritesStayInside ==
  [][\A s \in Sectors : disk'[s] # disk[s] =>
       /\ ~readonly /\ request.kind = "Out" /\ request.flaw = "None"
       /\ s \in Span(request) /\ request.sector + Len(request.segments) <= Cardinality(Sectors)]_vars

\* Every request that was available when its notification was sent is answered,
\* unless the device goes out of service: a notification that comes while
\* another is served is not lost.
NotifiedAnswered ==
  \A i \in 1..MaxRequests :
    (kicked /\ state = "Up" /\ offered >= i) ~> (answered >= i \/ state # "Up")

=============================================================================
