-------------------------------- MODULE Vmnet --------------------------------
(***************************************************************************)
(* src/src/net/macos.rs: the life of a vmnet interface.  vmnet.framework   *)
(* answers a start and a stop by calling back on a queue of its own, at    *)
(* any time or never; the thread that owns the backend waits for each      *)
(* answer at most TIMEOUT.  Packet I/O is in module VmnetIo.               *)
(***************************************************************************)
EXTENDS Naturals

VARIABLES
  net,      \* the backend: whom Option<interface> belongs to and what its owner waits for
  pending,  \* callbacks that the framework still owes
  channel,  \* what the start callback has sent and shared() has not received
  stops     \* calls of vmnet_stop_interface

netVars == <<net, pending, channel, stops>>

NetTypeOK ==
  /\ net \in {"None", "Starting", "Open", "Stopping", "Closed"}
  /\ pending \subseteq {"start", "stop"}
  /\ channel \in {"Empty", "Parameters", "Error"}
  /\ stops \in 0..2

NetInit == net = "None" /\ pending = {} /\ channel = "Empty" /\ stops = 0

\* shared, up to the wait.  Without a description or an interface it fails at
\* once (NotStarted); any later failure finds the interface owned.
Start ==
  /\ net = "None"
  /\ net' = "Starting" /\ pending' = {"start"}
  /\ UNCHANGED <<channel, stops>>

NotStarted == net = "None" /\ UNCHANGED netVars

\* External: the completion.  The block sends the parsed parameters, or an error,
\* which nobody receives once shared() has given up.
StartCompletes(result) ==
  /\ "start" \in pending
  /\ pending' = pending \ {"start"}
  /\ channel' = IF net = "Starting" THEN result ELSE channel
  /\ UNCHANGED <<net, stops>>

Opened ==
  /\ net = "Starting" /\ channel = "Parameters"
  /\ net' = "Open" /\ channel' = "Empty"
  /\ UNCHANGED <<pending, stops>>

\* MUTANT: close forgets that an interface is there.
StopCalls_None == stops
StopCalls == stops + 1

\* close, up to the wait: the stop is refused, or its completion is awaited.
close ==
  /\ stops' = StopCalls /\ channel' = "Empty"
  /\ \/ net' = "Closed" /\ UNCHANGED pending
     \/ net' = "Stopping" /\ pending' = pending \cup {"stop"}

\* shared gives up, on an error or at the deadline, and drops the backend.
GiveUp == net = "Starting" /\ channel # "Parameters" /\ close

Drop == net = "Open" /\ close

StopCompletes ==
  /\ "stop" \in pending
  /\ pending' = pending \ {"stop"}
  /\ UNCHANGED <<net, channel, stops>>

\* MUTANT: the wait for the stop has no deadline.
Deadline_None == "stop" \notin pending
Deadline == TRUE

\* close returns with the completion's status or at the deadline.
Stopped ==
  /\ net = "Stopping" /\ Deadline
  /\ net' = "Closed"
  /\ UNCHANGED <<pending, channel, stops>>

Released == net \in {"None", "Closed"}
=============================================================================
