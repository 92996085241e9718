----------------------------- MODULE VmLifecycle -----------------------------
(***************************************************************************)
(* What VmControl promises to a host, without threads, locks or queues:    *)
(* the life of one VM as VmStatus::lifecycle shows it, and the state of    *)
(* its vCPUs.  control.rs, run() in runtime.rs and Vmm in lib.rs together  *)
(* implement this specification (module RunThread).                        *)
(***************************************************************************)

VARIABLES
  life,      \* VmStatus::lifecycle
  vcpus      \* the guest: None, Running, Paused (quiescent) or Joined

lvars == <<life, vcpus>>

Init == life = "Created" /\ vcpus = "None"

Begin == life = "Created" /\ life' = "Starting" /\ UNCHANGED vcpus

\* The guest first executes while the VM is starting; a stop may have won.
Boot == /\ life \in {"Starting", "Stopping"} /\ vcpus = "None"
        /\ vcpus' = "Running"
        /\ UNCHANGED life

\* A VM is announced only once its guest runs.
Announce == life = "Starting" /\ vcpus = "Running" /\ life' = "Running" /\ UNCHANGED vcpus

\* The barrier also serves memory transactions, so it moves on its own.
Quiesce == vcpus = "Running" /\ vcpus' = "Paused" /\ UNCHANGED life
Release == vcpus = "Paused" /\ vcpus' = "Running" /\ UNCHANGED life

\* The promise of pause() and resume(): the status follows the barrier.
Pause  == life = "Running" /\ vcpus = "Paused" /\ life' = "Paused" /\ UNCHANGED vcpus
Resume == life = "Paused" /\ vcpus = "Running" /\ life' = "Running" /\ UNCHANGED vcpus

Terminate == /\ life \in {"Starting", "Running", "Paused"}
             /\ life' = "Stopping"
             /\ UNCHANGED vcpus

Join == vcpus \in {"Running", "Paused"} /\ vcpus' = "Joined" /\ UNCHANGED life

\* The promise of stop(): no vCPU outlives the VM, and Stopped is final.
Finish == /\ life # "Stopped" /\ vcpus \in {"None", "Joined"}
          /\ life' = "Stopped"
          /\ UNCHANGED vcpus

Next == Begin \/ Boot \/ Announce \/ Quiesce \/ Release \/ Pause \/ Resume
          \/ Terminate \/ Join \/ Finish

\* A VM that is stopping gets rid of its vCPUs and ends.
Spec == /\ Init /\ [][Next]_lvars
        /\ WF_lvars(life = "Stopping" /\ Join)
        /\ WF_lvars(life = "Stopping" /\ Finish)
==============================================================================
