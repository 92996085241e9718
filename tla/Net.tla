--------------------------------- MODULE Net ---------------------------------
(***************************************************************************)
(* src/src/devices/net.rs: the virtio network device between the driver's  *)
(* two queues and a nonblocking backend.  One pass of the run loop polls   *)
(* the device and then handles at most one access of the guest; the guest  *)
(* runs on meanwhile, so one iteration of a device loop is one step.       *)
(*                                                                         *)
(* A frame is its place in the order in which the driver made frames       *)
(* available, 0 one that transmit refuses.  A receive buffer is its        *)
(* capacity past the header, 0 one that receive refuses; a packet is its   *)
(* place in the order of arrival and its length, 0 a length the backend    *)
(* may not return.  Rings are the chains made available since the last     *)
(* reset, and next_avail an index into them.                               *)
(***************************************************************************)
EXTENDS Naturals, Sequences, VmnetIo

CONSTANTS
  Budget,                    \* BUDGET, iterations of one loop
  Capacity,                  \* max_frame_len
  Frames, Buffers, Packets   \* bounds on what driver and backend produce

ASSUME NetAssumption ==
  /\ Budget \in Nat \ {0} /\ Capacity \in Nat \ {0}
  /\ Frames \in Nat /\ Buffers \in Nat /\ Packets \in Nat

VARIABLES
  state, ready,                \* transport
  polled, loops, budget,       \* run thread: the loops it is in and has left
  tx, txNext, txUsed,          \* transmit ring, chains completed
  rx, rxNext, rxUsed,          \* receive ring, chains completed and with what
  pendingTx, snapshot, shared, \* deferred chain, its copy, its buffer now
  sent, inbound,               \* backend
  frames, buffers, packets,    \* produced so far
  base                         \* sent and taken before the last reset

transport == <<state, ready>>
thread    == <<polled, loops, budget>>
txRing    == <<tx, txNext, txUsed>>
rxRing    == <<rx, rxNext, rxUsed>>
deferred  == <<pendingTx, snapshot, shared>>
produced  == <<frames, buffers, packets>>
vars == <<transport, thread, txRing, rxRing, deferred, sent, inbound, produced, base>>

None == 0
Junk == Frames + 1   \* what the driver overwrites a frame with

Received == packets - Len(inbound)

TypeOK ==
  /\ state \in {"Down", "Up", "Isolated", "Ended"}
  /\ ready \subseteq {"Tx", "Rx"}
  /\ polled \in BOOLEAN /\ loops \in {<<>>, <<"Tx">>, <<"Rx">>, <<"Tx", "Rx">>}
  /\ budget \in 1..Budget
  /\ tx \in Seq(0..Frames) /\ txNext \in 0..Len(tx) /\ txUsed \in Seq(1..Frames)
  /\ rx \in Seq(0..Capacity) /\ rxNext \in 0..Len(rx)
  /\ rxUsed \in Seq([chain : 1..Buffers, packet : 1..Packets, length : 0..Capacity])
  /\ pendingTx \in 0..Frames /\ snapshot \in 0..Junk /\ shared \in 0..Junk
  /\ sent \in Seq(0..Junk)
  /\ inbound \in Seq([id : 1..Packets, length : 0..Capacity])
  /\ frames \in 0..Frames /\ buffers \in 0..Buffers /\ packets \in 0..Packets
  /\ base \in [sent : 0..Frames, taken : 0..Packets]

Init ==
  /\ state = "Down" /\ ready = {}
  /\ polled = FALSE /\ loops = <<>> /\ budget = Budget
  /\ tx = <<>> /\ txNext = 0 /\ txUsed = <<>>
  /\ rx = <<>> /\ rxNext = 0 /\ rxUsed = <<>>
  /\ pendingTx = None /\ snapshot = 0 /\ shared = 0
  /\ sent = <<>> /\ inbound = <<>>
  /\ frames = 0 /\ buffers = 0 /\ packets = 0
  /\ base = [sent |-> 0, taken |-> 0]

(***************************************************************************)
(* The driver, on the vCPUs, and the network behind the backend.           *)
(***************************************************************************)
OfferFrame(good) ==
  /\ state \in {"Up", "Isolated"} /\ frames < Frames
  /\ frames' = frames + 1
  /\ tx' = Append(tx, IF good THEN frames' ELSE 0)
  /\ UNCHANGED <<transport, thread, txNext, txUsed, rxRing, deferred, sent, inbound,
                 buffers, packets, base>>

OfferBuffer(size) ==
  /\ state \in {"Up", "Isolated"} /\ buffers < Buffers
  /\ buffers' = buffers + 1
  /\ rx' = Append(rx, size)
  /\ UNCHANGED <<transport, thread, txRing, rxNext, rxUsed, deferred, sent, inbound,
                 frames, packets, base>>

\* The driver writes over the frame of a chain that it has not got back.
Overwrite ==
  /\ pendingTx # None /\ shared # Junk
  /\ shared' = Junk
  /\ UNCHANGED <<transport, thread, txRing, rxRing, pendingTx, snapshot, sent, inbound,
                 produced, base>>

Arrive(length) ==
  /\ packets < Packets
  /\ packets' = packets + 1
  /\ inbound' = Append(inbound, [id |-> packets', length |-> length])
  /\ UNCHANGED <<transport, thread, txRing, rxRing, deferred, sent, frames, buffers, base>>

Outside ==
  \/ \E good \in BOOLEAN : OfferFrame(good)
  \/ \E size \in 0..Capacity : OfferBuffer(size)
  \/ Overwrite
  \/ \E length \in 0..Capacity : Arrive(length)

(***************************************************************************)
(* One access of the guest, or none, after each poll.                      *)
(***************************************************************************)
Event == polled /\ loops = <<>> /\ polled' = FALSE /\ UNCHANGED budget

Tick == Event /\ UNCHANGED <<transport, loops, txRing, rxRing, deferred, sent, inbound, produced, base>>

\* Mmio::write, QueueNotify.
Notify(q) ==
  /\ Event /\ state = "Up" /\ q \in ready
  /\ loops' = <<q>>
  /\ UNCHANGED <<transport, txRing, rxRing, deferred, sent, inbound, produced, base>>

SetDriverOk ==
  /\ Event /\ state = "Down"
  /\ state' = "Up" /\ ready' = {"Tx", "Rx"}
  /\ UNCHANGED <<loops, txRing, rxRing, deferred, sent, inbound, produced, base>>

DisableQueue(q) ==
  /\ Event /\ q \in ready
  /\ ready' = ready \ {q}
  /\ UNCHANGED <<state, loops, txRing, rxRing, deferred, sent, inbound, produced, base>>

\* Status 0: the device's reset and then the queues'.
Reset ==
  /\ Event /\ state \in {"Up", "Isolated"}
  /\ state' = "Down" /\ ready' = {}
  /\ tx' = <<>> /\ txNext' = 0 /\ txUsed' = <<>>
  /\ rx' = <<>> /\ rxNext' = 0 /\ rxUsed' = <<>>
  /\ pendingTx' = None /\ snapshot' = 0 /\ shared' = 0
  /\ base' = [sent |-> Len(sent), taken |-> Received]
  /\ UNCHANGED <<loops, sent, inbound, produced>>

\* Mmio::contain: a guest error isolates the device, or ends the VM in strict mode.
Contain ==
  /\ state' \in {"Isolated", "Ended"}
  /\ loops' = <<>> /\ budget' = Budget
  /\ UNCHANGED <<ready, polled>>

\* An error of the backend ends the VM.
Fatal ==
  /\ state' = "Ended"
  /\ loops' = <<>> /\ budget' = Budget
  /\ UNCHANGED <<ready, polled>>

\* The memory barrier finds a queue of this device corrupt.
Isolate ==
  /\ polled /\ loops = <<>> /\ state = "Up"
  /\ Contain
  /\ UNCHANGED <<txRing, rxRing, deferred, sent, inbound, produced, base>>

Access ==
  Tick \/ SetDriverOk \/ Reset \/ \E q \in {"Tx", "Rx"} : Notify(q) \/ DisableQueue(q)

(***************************************************************************)
(* The loops of transmit and receive.                                      *)
(***************************************************************************)
Loops_ReceiveOnly  == <<"Rx">>
Loops_TransmitOnly == <<"Tx">>
Loops == <<"Tx", "Rx">>

\* Mmio::poll, which leaves a device out of service alone, and Net::poll.
Poll ==
  /\ ~polled /\ loops = <<>> /\ state # "Ended"
  /\ polled' = TRUE
  /\ loops' = IF state = "Up" THEN Loops ELSE <<>>
  /\ UNCHANGED <<transport, budget, txRing, rxRing, deferred, sent, inbound, produced, base>>

Break == loops' = Tail(loops) /\ budget' = Budget /\ UNCHANGED <<transport, polled>>

Spent_Late == budget = 0
Spent == budget = 1

Continue ==
  /\ IF Spent
     THEN loops' = Tail(loops) /\ budget' = Budget
     ELSE budget' = budget - 1 /\ UNCHANGED loops
  /\ UNCHANGED <<transport, polled>>

In(q) == loops # <<>> /\ Head(loops) = q

Blocked_PendingToo == "Tx" \notin ready /\ pendingTx = None
Blocked == "Tx" \notin ready

RetryFrame_Shared == shared
RetryFrame == snapshot

\* What reaches the wire is up to vmnet; what the device believes is up to send.
Wire(frame, answer) == sent' = IF Took(answer) THEN Append(sent, frame) ELSE sent

\* The deferred frame goes before any other.
Retry(answer) ==
  /\ Wire(RetryFrame, answer)
  /\ \/ /\ send(answer) = "Accept" /\ Continue
        /\ txUsed' = Append(txUsed, pendingTx)
        /\ pendingTx' = None /\ snapshot' = 0 /\ shared' = 0
     \/ send(answer) = "Refuse" /\ Break /\ UNCHANGED <<txUsed, deferred>>
     \/ send(answer) = "Fail" /\ Fatal /\ UNCHANGED <<txUsed, deferred>>
  /\ UNCHANGED txNext

\* A chain is popped and sent from guest memory, or copied if it must wait.
SendNext(answer) ==
  /\ txNext < Len(tx)
  /\ txNext' = txNext + 1
  /\ LET frame == tx[txNext']
     IN  \/ frame = 0 /\ Contain /\ UNCHANGED <<sent, txUsed, deferred>>
         \/ /\ frame # 0 /\ send(answer) = "Accept" /\ Continue
            /\ Wire(frame, answer)
            /\ txUsed' = Append(txUsed, txNext')
            /\ UNCHANGED deferred
         \/ /\ frame # 0 /\ send(answer) = "Refuse" /\ Break
            /\ Wire(frame, answer)
            /\ pendingTx' = txNext' /\ snapshot' = frame /\ shared' = frame
            /\ UNCHANGED txUsed
         \/ /\ frame # 0 /\ send(answer) = "Fail" /\ Fatal
            /\ Wire(frame, answer)
            /\ UNCHANGED <<txUsed, deferred>>

TransmitDone ==
  /\ In("Tx")
  /\ Blocked \/ (pendingTx = None /\ txNext = Len(tx))
  /\ Break
  /\ UNCHANGED <<txRing, rxRing, deferred, sent, inbound, produced, base>>

Transmit(answer) ==
  /\ In("Tx") /\ ~Blocked
  /\ IF pendingTx # None THEN Retry(answer) ELSE SendNext(answer)
  /\ UNCHANGED <<tx, rxRing, inbound, produced, base>>

PutBack_Forgotten(next) == next
PutBack(next) == next - 1

CanReceive == "Rx" \in ready /\ rxNext < Len(rx)

ReceiveDone ==
  /\ In("Rx") /\ ~CanReceive
  /\ Break
  /\ UNCHANGED <<txRing, rxRing, deferred, sent, inbound, produced, base>>

\* A buffer with a flaw is found before the backend is asked.
ReceiveRefused ==
  /\ In("Rx") /\ CanReceive /\ rx[rxNext + 1] = 0
  /\ Contain /\ rxNext' = rxNext + 1
  /\ UNCHANGED <<txRing, rx, rxUsed, deferred, sent, inbound, produced, base>>

\* A packet that does not fit is dropped whole; its buffer is used all the same.
Dropped_Requeued(packet) == rxUsed
Dropped(packet) == Append(rxUsed, [chain |-> rxNext + 1, packet |-> packet.id, length |-> 0])

Filled(packet) ==
  IF packet.length > rx[rxNext + 1]
  THEN Dropped(packet)
  ELSE Append(rxUsed, [chain |-> rxNext + 1, packet |-> packet.id, length |-> packet.length])

\* recv.  Without a packet the chain goes back; an error ends the VM.
ReceiveNext(answer) ==
  /\ In("Rx") /\ CanReceive /\ rx[rxNext + 1] # 0
  /\ inbound' = IF Took(answer) THEN Tail(inbound) ELSE inbound
  /\ LET result == recv(answer, inbound # <<>> /\ Head(inbound).length # 0)
     IN  \/ result = "None" /\ Break /\ rxNext' = PutBack(rxNext + 1) /\ UNCHANGED rxUsed
         \/ /\ result = "Packet" /\ Continue
            /\ rxNext' = rxNext + 1 /\ rxUsed' = Filled(Head(inbound))
         \/ result = "Fail" /\ Fatal /\ rxNext' = rxNext + 1 /\ UNCHANGED rxUsed
  /\ UNCHANGED <<txRing, rx, deferred, sent, produced, base>>

Receive ==
  \/ ReceiveDone \/ ReceiveRefused
  \/ \E answer \in ReadAnswers(inbound # <<>>) : ReceiveNext(answer)

RunStep ==
  \/ Poll \/ Isolate \/ Access
  \/ TransmitDone \/ \E answer \in WriteAnswers : Transmit(answer)
  \/ Receive

Next == state # "Ended" /\ (Outside \/ RunStep)

Spec == Init /\ [][Next]_vars

\* The run loop keeps running, and vmnet does not refuse a frame for ever.
Taken == [status |-> "Success", count |-> 1]
LiveSpec == Spec /\ WF_vars(RunStep) /\ SF_vars(state # "Ended" /\ Transmit(Taken))

(***************************************************************************)
(* Properties.                                                             *)
(***************************************************************************)
Held == IF pendingTx = None THEN <<>> ELSE <<snapshot>>

\* Through refusals, retries and resets, what the backend has accepted since
\* the last reset, the frame that waits and the frames still in the ring are
\* what the driver offered, in its order: transmit neither loses nor repeats
\* nor reorders a frame, nor sends one of before the reset or one overwritten
\* while it waited.
FramesInOrder ==
  state = "Up" =>
    SubSeq(sent, base.sent + 1, Len(sent)) \o Held \o SubSeq(tx, txNext + 1, Len(tx)) = tx

\* Every chain transmit and receive have taken is completed once, in order, but
\* for the one deferred frame: the driver gets all its buffers back.
ChainsReturned ==
  state = "Up" =>
    /\ txUsed \o (IF pendingTx = None THEN <<>> ELSE <<pendingTx>>) = [i \in 1..txNext |-> i]
    /\ [i \in DOMAIN rxUsed |-> rxUsed[i].chain] = [i \in 1..rxNext |-> i]

\* receive takes a packet from the backend only with a buffer to account for it:
\* the packets taken since the reset are in the used ring, once and in order.
PacketsAccounted ==
  state = "Up" =>
    [i \in DOMAIN rxUsed |-> rxUsed[i].packet] = [i \in 1..(Received - base.taken) |-> base.taken + i]

\* Frames, packets and the buffers for both are neither lost, repeated nor
\* reordered, in whichever way a loop ends.
Accounted == TypeOK /\ FramesInOrder /\ ChainsReturned /\ PacketsAccounted

\* A frame leaves only while the device is in service and the transmit queue is
\* enabled, the one that was deferred before the queue was disabled included.
SendsInService == [][sent' # sent => state = "Up" /\ "Tx" \in ready]_vars

Served(i) == \E k \in DOMAIN txUsed : txUsed[k] = i

\* A frame in the ring goes out without another notification, however often it
\* is refused, unless the device goes out of service or the queue is disabled.
FramesLeave ==
  \A i \in 1..Frames :
    (state = "Up" /\ i <= Len(tx) /\ "Tx" \in ready) ~>
      (Served(i) \/ state # "Up" \/ "Tx" \notin ready)

\* A packet that has arrived is taken without a notification once there is a
\* buffer, however often the backend refuses the frame that poll tries first.
PacketsTaken ==
  \A p \in 1..Packets :
    (state = "Up" /\ packets >= p /\ Received < p /\ CanReceive) ~>
      (Received >= p \/ ~CanReceive \/ state # "Up")

\* Both directions make progress.
NetProgress == FramesLeave /\ PacketsTaken

=============================================================================
