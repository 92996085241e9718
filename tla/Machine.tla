------------------------------- MODULE Machine -------------------------------
(***************************************************************************)
(* The contract of trait VirtualMachine (src/src/platform/mod.rs) that the *)
(* runtime builds on: the pause barrier, the end of a machine by itself,   *)
(* and where its faults are reported.  Module Cpus implements it.          *)
(***************************************************************************)
CONSTANT VCPUs

VARIABLES
  mode,       \* Idle, Active, Paused, Ending (the runtime gave up) or Stopped
  executing,  \* vCPUs in the guest, in exception handling or in I/O writeback
  unreported, \* a vCPU faulted and neither poll_event nor stop has returned it
  fault       \* what stop returned

mvars == <<mode, executing, unreported, fault>>

Init == mode = "Idle" /\ executing = {} /\ unreported = FALSE /\ fault = FALSE

Begin == mode = "Idle" /\ mode' = "Active" /\ UNCHANGED <<executing, unreported, fault>>

\* A vCPU starts or stops executing; it never starts in a paused machine.
Enter == \E i \in VCPUs : /\ mode \in {"Active", "Ending"}
                          /\ executing' = executing \cup {i}
                          /\ UNCHANGED <<mode, unreported, fault>>
Leave == \E i \in VCPUs : /\ executing' = executing \ {i}
                          /\ UNCHANGED <<mode, unreported, fault>>

\* pause returns Paused only when every vCPU is quiescent; resume releases it.
Pause  == /\ mode = "Active" /\ executing = {}
          /\ mode' = "Paused"
          /\ UNCHANGED <<executing, unreported, fault>>
Resume == mode = "Paused" /\ mode' = "Active" /\ UNCHANGED <<executing, unreported, fault>>

\* A fault ends its vCPU; poll_event may return it, and another may be left.
Fault  == /\ mode # "Stopped"
          /\ unreported' = TRUE /\ executing' \in SUBSET executing
          /\ UNCHANGED <<mode, fault>>
Report == /\ mode = "Active" /\ unreported
          /\ mode' = "Ending" /\ unreported' \in BOOLEAN
          /\ UNCHANGED <<executing, fault>>

GiveUp == /\ mode \in {"Idle", "Active", "Paused"}
          /\ mode' = "Ending"
          /\ UNCHANGED <<executing, unreported, fault>>

\* stop returns after every vCPU is gone, with the fault not yet reported.
Stop == /\ mode = "Ending" /\ executing = {}
        /\ mode' = "Stopped"
        /\ fault' = unreported /\ unreported' = FALSE
        /\ UNCHANGED executing

Next == Begin \/ Enter \/ Leave \/ Pause \/ Resume \/ Fault \/ Report \/ GiveUp \/ Stop

Spec == Init /\ [][Next]_mvars
==============================================================================
