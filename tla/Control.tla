------------------------------- MODULE Control -------------------------------
(***************************************************************************)
(* src/src/control.rs: the state behind a VmControl handle and the         *)
(* operations on it.  Callers pause, resume and stop a VM from threads of  *)
(* their own; the run thread (module RunThread) begins, serves, cleans up  *)
(* and finishes.  Everything done under Shared.state's mutex is one step.  *)
(* The condition variable has an explicit wait set, so that a missing      *)
(* notification shows.                                                     *)
(***************************************************************************)
EXTENDS Naturals, Sequences

CONSTANTS
  Clients,   \* threads that hold a clone of the handle
  Runner,    \* the thread that owns the Vmm
  None       \* no thread

ASSUME ThreadAssumption == Runner \notin Clients /\ None \notin Clients \cup {Runner}

VARIABLES
  lifecycle, owner, queue, finalError, cleanupError,  \* Shared.state
  waiting,                                            \* threads asleep on Shared.changed
  memory,                                             \* MemoryStatus::lifecycle
  call,       \* what a caller waits for: nothing, its reply, or a stopped VM
  operation,  \* the operation of an outstanding pause or resume
  reply       \* its reply channel

callers == <<call, operation, reply>>
errors  == <<finalError, cleanupError>>
control == <<lifecycle, owner, queue, errors, waiting, memory, callers>>

Callers == Clients \cup {Runner}
Errors  == {"Run", "Fault", "Cleanup", "Panic"}
Replies == {"Ok", "Stopping", "Failed", "Disconnected"}

ControlTypeOK ==
  /\ lifecycle \in {"Created", "Starting", "Running", "Paused", "Stopping", "Stopped"}
  /\ owner \in {None, Runner}
  /\ queue \in Seq(Callers)
  /\ finalError \in Errors \cup {"None"}
  /\ cleanupError \in {"None", "Cleanup", "Panic"}
  /\ waiting \in SUBSET Callers
  /\ memory \in {"Created", "Running", "Stopped"}
  /\ call \in [Callers -> {"Idle", "Reply", "Stopped"}]
  /\ operation \in [Callers -> {"None", "Pause", "Resume"}]
  /\ reply \in [Callers -> Replies \cup {"None"}]

ControlInit ==
  /\ lifecycle = "Created" /\ owner = None /\ queue = <<>>
  /\ finalError = "None" /\ cleanupError = "None"
  /\ waiting = {} /\ memory = "Created"
  /\ call = [c \in Callers |-> "Idle"]
  /\ operation = [c \in Callers |-> "None"]
  /\ reply = [c \in Callers |-> "None"]

Queued == {queue[i] : i \in 1..Len(queue)}
Stopping == lifecycle = "Stopping"

(***************************************************************************)
(* The callers.                                                            *)
(***************************************************************************)
\* MUTANT: no thread is recognised as the run thread.
IsOwner_Never(c) == FALSE
IsOwner(c) == owner = c

\* MUTANT: requests are still accepted while the VM is stopping.
Accepting_TooLong == lifecycle \notin {"Created", "Starting", "Stopped"}
Accepting == lifecycle \in {"Running", "Paused"}

\* MUTANT: a new request does not notify the condition variable.
Woken_None == waiting
Woken == {}

\* submit.  A refusal (OwnerThread, NotRunning) returns at once.
Submit(c, op) ==
  /\ call[c] = "Idle"
  /\ \/ (IsOwner(c) \/ ~Accepting) /\ UNCHANGED <<queue, waiting, call, operation>>
     \/ /\ ~IsOwner(c) /\ Accepting
        /\ queue' = Append(queue, c)
        /\ waiting' = Woken
        /\ call' = [call EXCEPT ![c] = "Reply"]
        /\ operation' = [operation EXCEPT ![c] = op]
  /\ UNCHANGED <<lifecycle, owner, errors, memory, reply>>

\* rx.recv() in submit returns the reply, or Disconnected when its sender is gone.
Receive(c) ==
  /\ call[c] = "Reply" /\ reply[c] # "None"
  /\ call' = [call EXCEPT ![c] = "Idle"]
  /\ operation' = [operation EXCEPT ![c] = "None"]
  /\ reply' = [reply EXCEPT ![c] = "None"]
  /\ UNCHANGED <<lifecycle, owner, queue, errors, waiting, memory>>

\* MUTANT: the requests leave the queue without an answer.
Cancelled_Silently == reply
Cancelled == [c \in Callers |-> IF c \in Queued THEN "Stopping" ELSE reply[c]]

\* cancel: every queued request is answered "VM is stopping".
Cancel == queue' = <<>> /\ reply' = Cancelled

\* MUTANT: a VM that is starting is declared stopped at once.
StopTarget_Early ==
  IF lifecycle \in {"Created", "Starting", "Stopped"} THEN "Stopped" ELSE "Stopping"
StopTarget == IF lifecycle \in {"Created", "Stopped"} THEN "Stopped" ELSE "Stopping"

\* MUTANT: memory is stopped with any stop, also while the VM is still starting.
MemoryAfterStop_Always == "Stopped"
MemoryAfterStop == IF lifecycle = "Created" THEN "Stopped" ELSE memory

\* stop.  It returns cleanupError, at once or when StopWake finds the VM Stopped.
Stop(c) ==
  /\ call[c] = "Idle"
  /\ \/ IsOwner(c) /\ UNCHANGED <<lifecycle, queue, reply, memory, call, waiting>>
     \/ /\ ~IsOwner(c)
        /\ lifecycle' = StopTarget
        /\ memory' = MemoryAfterStop
        /\ Cancel
        /\ call' = [call EXCEPT ![c] = IF StopTarget = "Stopped" THEN "Idle" ELSE "Stopped"]
        /\ waiting' = IF StopTarget = "Stopped" THEN {} ELSE {c}
  /\ UNCHANGED <<owner, errors, operation>>

\* A woken stop() re-examines the lifecycle under the lock.
StopWake(c) ==
  /\ call[c] = "Stopped" /\ c \notin waiting
  /\ \/ /\ lifecycle = "Stopped"
        /\ call' = [call EXCEPT ![c] = "Idle"]
        /\ UNCHANGED waiting
     \/ lifecycle # "Stopped" /\ waiting' = waiting \cup {c} /\ UNCHANGED call
  /\ UNCHANGED <<lifecycle, owner, queue, errors, memory, operation, reply>>

\* A condition variable may wake a thread without a notification.
SpuriousWake(t) ==
  /\ t \in waiting
  /\ waiting' = waiting \ {t}
  /\ UNCHANGED <<lifecycle, owner, queue, errors, memory, callers>>

(***************************************************************************)
(* The run thread's operations.                                            *)
(***************************************************************************)
begin ==
  /\ lifecycle = "Created"
  /\ owner' = Runner /\ lifecycle' = "Starting"
  /\ UNCHANGED <<queue, errors, waiting, memory, callers>>

\* MUTANT: running() overwrites a stop that won the race.
Announced_Always == "Running"
Announced == IF lifecycle = "Starting" THEN "Running" ELSE lifecycle

running ==
  /\ lifecycle' = Announced
  /\ UNCHANGED <<owner, queue, errors, waiting, memory, callers>>

\* next, when there is a request; the caller of next holds Head(queue).
next ==
  /\ queue # <<>>
  /\ queue' = Tail(queue)
  /\ UNCHANGED <<lifecycle, owner, errors, waiting, memory, callers>>

\* MUTANT: a late completion overwrites a stop.
Completed_Always(r, outcome) == IF operation[r] = "Pause" THEN "Paused" ELSE "Running"
Completed(r, outcome) ==
  IF outcome # "Ok" \/ Stopping THEN lifecycle
  ELSE IF operation[r] = "Pause" THEN "Paused" ELSE "Running"

complete(r, outcome) ==
  /\ lifecycle' = Completed(r, outcome)
  /\ reply' = [reply EXCEPT ![r] = outcome]
  /\ UNCHANGED <<owner, queue, errors, waiting, memory, call, operation>>

\* The request goes back to the front of the queue and all are cancelled.
reject_stopping(r) ==
  /\ lifecycle' = "Stopping"
  /\ queue' = <<>>
  /\ reply' = [Cancelled EXCEPT ![r] = "Stopping"]
  /\ waiting' = {}
  /\ UNCHANGED <<owner, errors, memory, call, operation>>

\* wait: asleep while paused with nothing queued.
MustWait == lifecycle = "Paused" /\ queue = <<>>
wait ==
  /\ MustWait
  /\ waiting' = waiting \cup {Runner}
  /\ UNCHANGED <<lifecycle, owner, queue, errors, memory, callers>>

cleaning ==
  /\ lifecycle' = "Stopping"
  /\ Cancel
  /\ UNCHANGED <<owner, errors, waiting, memory, call, operation>>

cleanup_result(e) ==
  /\ cleanupError' = e
  /\ UNCHANGED <<lifecycle, owner, queue, finalError, waiting, memory, callers>>

\* Also VirtioMem's own stop and Drop, as far as the status is concerned.
stop_memory ==
  /\ memory' = "Stopped"
  /\ UNCHANGED <<lifecycle, owner, queue, errors, waiting, callers>>

\* VirtioMem::start assigns without looking.
start_memory ==
  /\ memory' = "Running"
  /\ UNCHANGED <<lifecycle, owner, queue, errors, waiting, callers>>

\* finish after its stop_memory.
finish(e) ==
  /\ lifecycle' = "Stopped" /\ finalError' = e /\ owner' = None
  /\ Cancel
  /\ waiting' = {}
  /\ UNCHANGED <<cleanupError, memory, call, operation>>

\* A request dropped unanswered: its caller's receiver is disconnected.
disconnect(r) ==
  /\ reply' = IF r = None THEN reply ELSE [reply EXCEPT ![r] = "Disconnected"]
  /\ UNCHANGED <<lifecycle, owner, queue, errors, waiting, memory, call, operation>>
==============================================================================
