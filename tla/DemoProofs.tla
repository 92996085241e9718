----------------------------- MODULE DemoProofs ------------------------------
(***************************************************************************)
(* Theorems about module Demo, for any command line, any clients, disks    *)
(* and images, and any UART.                                               *)
(*                                                                         *)
(* Almost everything the command owns is told by the main thread's program *)
(* point, but one: Server::drop runs before the Vmm's if bind fails, with  *)
(* the listener closed (no thread) or still open, and after it otherwise.  *)
(***************************************************************************)
EXTENDS Demo, SequenceTheorems, WellFoundedInduction, TLAPS

(***************************************************************************)
(* The inductive invariant, part by part.                                  *)
(***************************************************************************)
\* Before there is a terminal, and the way out from there.
Early == {"Disks", "Net", "Guard", "Raw", "Abandon", "Killed"}

\* The terminal is there, the VM has not begun.
Binding == {"Bind", "Serve", "Meta", "Spawn", "CheckBound", "RemoveBound", "Unbind"}

\* Vmm::run has returned, or a Vmm that did not run has been dropped.
Gone ==
  \/ main \in {"Finish", "StopServer", "JoinServer", "DropGuard", "JoinTerm", "End"}
  \/ main \in {"CheckFile", "Remove"} /\ server # "None"

\* A raw terminal has a guard, and is still somebody's to drop.  Only a command without
\* a guard may be killed.
TerminalPhase ==
  /\ terminal = "Raw" => ~Gone /\ main \notin Early /\ signals = "Caught"
  /\ main \in {"Raw", "Begin", "Start", "Announce", "Loop", "Complete"} \cup Binding
       => signals = "Caught"
  /\ signals = "Default" => main \in Early \cup {"End"}

\* The server's thread by the main thread's point.
ServerPhase ==
  /\ main \in Early \cup Binding => server = "None"
  /\ main \in {"StopServer", "JoinServer"} => server # "None"
  /\ main \in {"CheckFile", "Remove", "DropGuard", "JoinTerm", "End"}
       => server \in {"None", "Done"}

\* The interface was stopped once if it was stopped, and is released before the VM ends.
NetPhase ==
  /\ stops = IF net \in {"Stopping", "Closed"} THEN 1 ELSE 0
  /\ main = "Release" \/ Gone => Released

\* A VM that has run is Stopped only by the end of Vmm::run.
LifePhase ==
  /\ ran => main \notin Early \cup Binding \cup {"Begin"} /\ life # "Created"
  /\ ran /\ life = "Stopped" => Gone
  /\ life = "Created" => vcpus = "None"
  /\ life = "Stopped" => vcpus \in {"None", "Joined"}

\* Whose file the path names, and what the server knows of it.
SocketPhase ==
  /\ main \in Early \cup {"Bind", "Serve", "Meta"} => identity = "None"
  /\ main \in {"Bind", "Serve"} \cup Early => host # "Raced"
  /\ main \in {"Spawn", "CheckFile", "Remove", "CheckBound", "RemoveBound"} \/ server # "None"
       => identity # "None"
  /\ main \in {"Meta", "Remove", "RemoveBound"} => host \in {"Quiet", "Raced"}
  /\ host = "Quiet" => file # "Other"
  /\ host \in {"Found", "Replaced"} => file = "Other"
  /\ host = "Raced" => file # "Own"
  /\ host # "Raced" => identity # "Other"
  /\ /\ host = "Quiet" /\ identity = "Own"
     /\ \/ main \in {"DropGuard", "JoinTerm", "End"}
        \/ server = "None" /\ main \notin {"Spawn", "CheckFile", "Remove", "CheckBound", "RemoveBound"}
     => file = "None"

\* Which disks have a lock, on the file they were opened by.
Held(d) == disk[d].stage \in {"Locked", "Open"}
LocksExclude ==
  \A d \in Disks : Held(d) =>
    /\ disk[d].lock \in Inodes
    /\ \A e \in Disks \ {d} : Held(e) /\ disk[e].lock = disk[d].lock => Readonly
    /\ other.lock = disk[d].lock => Readonly /\ other.mode = "Shared"

\* What an open disk is, and what one that is not has left.
DiskKnown(d) ==
  /\ disk[d].stage = "Opened" => disk[d].lock \in Inodes
  /\ disk[d].stage = "Open" =>
       /\ disk[d].io = disk[d].lock
       /\ validate_header(images[disk[d].lock])
       /\ disk[d].size = images[disk[d].lock].size
  /\ disk[d].stage # "Open" => disk[d].io = "None" /\ (disk[d].dirty => lost)

\* The disks by the main thread's point.
DiskPhase ==
  /\ main = "Release" \/ Gone => AllClosed
  /\ main \in Early \/ signals = "Default" => \A d \in Disks : ~disk[d].dirty
  /\ \A d \in Disks : DiskKnown(d)

\* Who waits in the listener's backlog has no thread, whose request is in the VM's
\* queue has one that waits for it, and nobody is in either twice.
Once(q) == \A i, j \in 1..Len(q) : q[i] = q[j] => i = j
QueuesKept ==
  /\ Once(backlog) /\ Once(queue)
  /\ \A c \in Clients : Contains(backlog, c) => client[c] = "Waiting" /\ conn[c] = "None"
  /\ \A c \in Clients : Contains(queue, c) => conn[c] = "Queued"

\* A client that waits is in the backlog or has a thread, which there is only while
\* the server's thread is.
ClientsKept ==
  /\ server \in {"None", "Done"} => Active = {}
  /\ server \in {"None", "Done"} /\ ~HasListener => backlog = <<>>
  /\ \A c \in Clients :
       /\ client[c] = "Idle" => conn[c] = "None"
       /\ client[c] = "Waiting" => Contains(backlog, c) \/ conn[c] \in Running

\* What an answer stands for.
AnswersKept ==
  \A c \in Clients :
    /\ conn[c] \in {"Queued", "Served"} => op[c] \in {"Pause", "Resume"}
    /\ op[c] = "Stop" /\ (conn[c] = "Ok" \/ client[c] = "Ok") => life = "Stopped"

DemoInv ==
  /\ CommandTypeOK /\ TerminalPhase /\ ServerPhase /\ NetPhase /\ LifePhase /\ SocketPhase
  /\ LocksExclude /\ DiskPhase /\ QueuesKept /\ ClientsKept /\ AnswersKept


(***************************************************************************)
(* Every step, by the thread that takes it.                                *)
(***************************************************************************)
\* The main thread's own steps, in three groups, and everybody else's.
Acquiring == OpenNet \/ NewTerminal \/ Bind \/ Serve
Executing ==
  \/ Begin \/ StartVm \/ TakeRequest \/ Complete \/ PollSerial \/ LeaveLoop \/ GuestEnds
  \/ BarrierFails
Releasing == Restore \/ Clean \/ JoinVcpus \/ Close \/ Finish \/ DropServer \/ EndGuard
Elsewhere ==
  \/ TermThread \/ ServerThread \/ AcceptFails \/ (\E c \in Clients : Connection(c))
  \/ Network \/ Console \/ Framework
DiskWork == OpenDisks \/ CloseDisks \/ GuestWrites \/ Others

\* A step is one of these.
LEMMA Steps ==
  ASSUME Next
  PROVE  /\ ~Over /\ setting' = setting
         /\ \/ (Acquiring \/ Executing \/ Releasing \/ Kill \/ Elsewhere) /\ UNCHANGED imageVars
            \/ DiskWork /\ UNCHANGED <<vm, terminalVars, serverVars, netVars>>
  BY DEF Next, Step, DiskStep, MainThread, Acquiring, Executing, Releasing, Elsewhere, DiskWork

\* Nobody but the main thread moves it, and nobody else has its resources.
LEMMA ElsewhereKeeps ==
  ASSUME Elsewhere
  PROVE  /\ main' = main /\ UNCHANGED tty /\ net' = net /\ stops' = stops /\ ran' = ran
         /\ identity' = identity
         /\ <<server, server'>> \in {<<"Loop", "Join">>, <<"Join", "Done">>} \/ server' = server
  <1>1. CASE TermThread
    BY <1>1 DEF TermThread, ReadNotice, CheckClosing, StopVm, StopReturns, Cancel, Conns, netVars,
       serverVars, socket, vm, tty
  <1>2. CASE ServerThread \/ AcceptFails
    BY <1>2 DEF ServerThread, AcceptFails, Accept, LeaveAccept, JoinConnections, netVars,
       terminalVars, socket, vm
  <1>3. CASE \E c \in Clients : Connection(c)
    BY <1>3 DEF Connection, Submit, CallStop, ReadFails, Query, CallReturns, Respond, Become, Conns,
       netVars, terminalVars, socket, vm
  <1>4. CASE Network \/ Console \/ Framework
    BY <1>4 DEF Network, Console, Framework, Connect, Replace, Type, SignalCaught, GuestReads,
       StopCompletes, StartCompletes, netVars, terminalVars, serverVars, socket, vm
  <1> QED BY <1>1, <1>2, <1>3, <1>4 DEF Elsewhere

\* A step on the disks keeps everything else, and moves the main thread only among
\* Disks, Net and Abandon or not at all.
LEMMA DiskStepKeeps ==
  ASSUME DiskWork
  PROVE  main' = main \/ (main = "Disks" /\ main' \in {"Net", "Abandon"})
  BY DEF DiskWork, OpenDisks, CloseDisks, GuestWrites, Others, At

\* A terminal stays guarded, and is dropped on every way out.
LEMMA TerminalStep ==
  ASSUME CommandTypeOK, TerminalPhase, ServerPhase, Next PROVE TerminalPhase'
  <1> USE DEF TerminalPhase, ServerPhase, Gone, Early, Binding
  <1>1. ~Over /\ terminal \in {"Own", "Raw"}
    BY Steps DEF CommandTypeOK, TerminalTypeOK
  <1>2. CASE Acquiring
    <2>1. CASE OpenNet
      BY <2>1 DEF OpenNet, At, terminalVars, serverVars, tty
    <2>2. CASE NewTerminal
      BY <1>1, <2>2 DEF NewTerminal, Guard, GuardFails, Raw, RawFails, At, serverVars, tty
    <2>3. CASE Bind
      BY <2>3 DEF Bind, bind, At, terminalVars, serverVars, tty
    <2>4. CASE Serve
      BY <2>4 DEF Serve, At, BindFile, ReadIdentity, BindFails, Spawn, terminalVars, serverVars, tty
    <2> QED BY <1>2, <2>1, <2>2, <2>3, <2>4 DEF Acquiring
  <1>3. CASE Executing
    BY <1>3 DEF Executing, Begin, StartVm, TakeRequest, Complete, PollSerial, PollInput, LeaveLoop,
       GuestEnds, Leave, BarrierFails, Become, Cancel, Conns, At, terminalVars, serverVars, tty
  <1>4. CASE Releasing
    <2>1. CASE Restore
      BY <1>1, <2>1 DEF Restore, DropTerminal, RestoredMode, At, serverVars
    <2>2. CASE Clean \/ JoinVcpus \/ Close \/ Finish
      BY <2>2 DEF Clean, JoinVcpus, Close, Finish, Cancel, Conns, At, terminalVars, serverVars, tty
    <2>3. CASE DropServer
      BY <2>3 DEF DropServer, AfterServer, StopServer, RemoveFile, At, terminalVars, serverVars, tty
    <2>4. CASE EndGuard
      BY <2>4 DEF EndGuard, DropGuard, At, terminalVars, serverVars, tty
    <2> QED BY <1>4, <2>1, <2>2, <2>3, <2>4 DEF Releasing
  <1>5. CASE Kill
    BY <1>1, <1>5 DEF Kill, Over, terminalVars, serverVars, tty
  <1>6. CASE Elsewhere
    BY <1>6, ElsewhereKeeps DEF tty
  <1>7. CASE DiskWork /\ UNCHANGED <<vm, terminalVars, serverVars, netVars>>
    BY <1>7, DiskStepKeeps DEF terminalVars, serverVars, tty
  <1> QED BY <1>2, <1>3, <1>4, <1>5, <1>6, <1>7, Steps

\* The server is there from its thread's start to its drop.
LEMMA ServerStep ==
  ASSUME TerminalPhase, ServerPhase, Next PROVE ServerPhase'
  <1> USE DEF ServerPhase, Early, Binding
  <1>1. CASE Acquiring
    BY <1>1 DEF Acquiring, OpenNet, NewTerminal, Bind, Serve, BindFile, ReadIdentity, BindFails,
       RemoveFile, Spawn, At, serverVars
  <1>2. CASE Executing
    BY <1>2 DEF Executing, Begin, StartVm, TakeRequest, Complete, PollSerial, LeaveLoop,
       GuestEnds, Leave, BarrierFails, Become, Cancel, Conns, At, serverVars
  <1>3. CASE Releasing
    BY <1>3 DEF Releasing, Restore, Clean, JoinVcpus, Close, Finish, Cancel, Conns, DropServer,
       StopServer, RemoveFile, AfterServer, EndGuard, At, serverVars
  <1>4. CASE Kill
    <2>1. ~Over
      BY Steps
    <2> QED BY <1>4, <2>1 DEF Kill, Over, TerminalPhase, serverVars
  <1>5. CASE Elsewhere
    BY <1>5, ElsewhereKeeps
  <1>6. CASE DiskWork /\ UNCHANGED <<vm, terminalVars, serverVars, netVars>>
    BY <1>6, DiskStepKeeps DEF serverVars
  <1> QED BY <1>1, <1>2, <1>3, <1>4, <1>5, <1>6, Steps

\* The interface is closed where it is dropped, once.
LEMMA NetStep ==
  ASSUME TerminalPhase, ServerPhase, NetPhase, Next PROVE NetPhase'
  <1> USE DEF NetPhase, ServerPhase, Gone, Released, Early, Binding
  <1>1. ~Over
    BY Steps
  <1>2. CASE Acquiring
    <2>1. CASE OpenNet
      BY <2>1 DEF OpenNet, Start, NotStarted, Opened, GiveUp, close, StopCalls, Stopped, netVars,
         At, serverVars
    <2>2. CASE NewTerminal \/ Bind
      BY <2>2 DEF NewTerminal, Bind, At, netVars, serverVars
    <2>3. CASE Serve
      BY <2>3 DEF Serve, BindFile, ReadIdentity, BindFails, Spawn, At, netVars, serverVars
    <2> QED BY <1>2, <2>1, <2>2, <2>3 DEF Acquiring
  <1>3. CASE Executing
    BY <1>3 DEF Executing, Begin, StartVm, TakeRequest, Complete, PollSerial, LeaveLoop,
       GuestEnds, Leave, BarrierFails, Become, Cancel, Conns, At, netVars, serverVars
  <1>4. CASE Releasing
    <2>1. CASE Close
      BY <2>1 DEF Close, Drop, close, StopCalls, Stopped, netVars, serverVars, At
    <2>2. CASE Restore \/ Clean \/ JoinVcpus \/ Finish \/ EndGuard
      BY <2>2 DEF Restore, Clean, JoinVcpus, Finish, EndGuard, Cancel, Conns, At, netVars,
         serverVars
    <2>3. CASE DropServer
      BY <2>3 DEF DropServer, StopServer, RemoveFile, AfterServer, At, netVars, serverVars
    <2> QED BY <1>4, <2>1, <2>2, <2>3 DEF Releasing
  <1>5. CASE Kill
    BY <1>1, <1>5 DEF Kill, Over, TerminalPhase, netVars, serverVars
  <1>6. CASE Elsewhere
    BY <1>6, ElsewhereKeeps
  <1>7. CASE DiskWork /\ UNCHANGED <<vm, terminalVars, serverVars, netVars>>
    BY <1>7, DiskStepKeeps DEF netVars, serverVars
  <1> QED BY <1>2, <1>3, <1>4, <1>5, <1>6, <1>7, Steps

\* What threads other than the main one do to the VM: a stop, of a VM that has not
\* begun or of one that goes on to its cleanup.
LEMMA ElsewhereStops ==
  ASSUME Elsewhere
  PROVE  /\ vcpus' = vcpus
         /\ \/ life' = life
            \/ life = "Created" /\ life' = "Stopped" /\ vcpus \in {"None", "Joined"}
            \/ life \in {"Starting", "Running", "Paused"} /\ life' = "Stopping"
  <1> USE DEF stop, SameVm, VM!Finish, VM!Terminate, vm
  <1>1. CASE TermThread
    BY <1>1 DEF TermThread
  <1>2. CASE ServerThread \/ AcceptFails
    BY <1>2 DEF ServerThread, AcceptFails
  <1>3. CASE \E c \in Clients : Connection(c)
    BY <1>3 DEF Connection, Submit, CallStop
  <1>4. CASE Network \/ Console \/ Framework
    BY <1>4 DEF Network, Console, Framework
  <1> QED BY <1>1, <1>2, <1>3, <1>4 DEF Elsewhere

\* A VM that has run ends with Vmm::run, and its vCPUs before it.
LEMMA LifeStep ==
  ASSUME TerminalPhase, ServerPhase, LifePhase, Next PROVE LifePhase'
  <1> USE DEF LifePhase, ServerPhase, Gone, Early, Binding
  <1>1. ~Over
    BY Steps
  <1>2. CASE Acquiring
    BY <1>2 DEF Acquiring, OpenNet, NewTerminal, Bind, Serve, BindFile, ReadIdentity, BindFails,
       Spawn, At, serverVars, vm
  <1>3. CASE Executing
    <2>1. CASE Begin \/ StartVm
      BY <2>1 DEF Begin, StartVm, SameVm, VM!Begin, VM!Boot, VM!Announce, At, serverVars
    <2>2. CASE TakeRequest \/ Complete \/ BarrierFails
      BY <2>2 DEF TakeRequest, Complete, BarrierFails, Cancel, SameVm, VM!Quiesce, VM!Release,
         VM!Pause, VM!Resume, VM!Terminate, Become, Conns, At
    <2>3. CASE PollSerial \/ LeaveLoop \/ GuestEnds
      BY <2>3 DEF PollSerial, LeaveLoop, GuestEnds, Leave, At, vm, serverVars
    <2> QED BY <1>3, <2>1, <2>2, <2>3 DEF Executing
  <1>4. CASE Releasing
    <2>1. CASE Restore \/ Close \/ EndGuard
      BY <2>1 DEF Restore, Close, EndGuard, At, vm, serverVars
    <2>2. CASE Clean \/ JoinVcpus \/ Finish
      BY <2>2 DEF Clean, JoinVcpus, Finish, Cancel, Conns, SameVm, VM!Terminate, VM!Join,
         VM!Finish, At, serverVars
    <2>3. CASE DropServer
      BY <2>3 DEF DropServer, StopServer, RemoveFile, AfterServer, At, vm, serverVars
    <2> QED BY <1>4, <2>1, <2>2, <2>3 DEF Releasing
  <1>5. CASE Kill
    BY <1>1, <1>5 DEF Kill, Over, TerminalPhase, vm, serverVars
  <1>6. CASE Elsewhere
    BY <1>6, ElsewhereKeeps, ElsewhereStops
  <1>7. CASE DiskWork /\ UNCHANGED <<vm, terminalVars, serverVars, netVars>>
    BY <1>7, DiskStepKeeps DEF vm, serverVars
  <1> QED BY <1>2, <1>3, <1>4, <1>5, <1>6, <1>7, Steps

\* The path outside the main thread: a file is replaced where the server can see it,
\* or in one of the two windows.
LEMMA ElsewherePath ==
  ASSUME Elsewhere
  PROVE  \/ UNCHANGED <<file, host>>
         \/ /\ file = "Own" /\ file' = "Other"
            /\ host' = IF main \in {"Meta", "Remove", "RemoveBound"} THEN "Raced" ELSE "Replaced"
  <1>1. CASE TermThread
    BY <1>1 DEF TermThread, Cancel, Conns, serverVars, socket
  <1>2. CASE ServerThread \/ AcceptFails
    BY <1>2 DEF ServerThread, AcceptFails, Accept, LeaveAccept, JoinConnections, socket
  <1>3. CASE \E c \in Clients : Connection(c)
    BY <1>3 DEF Connection, Submit, CallStop, ReadFails, Query, CallReturns, Respond, Become,
       Conns, socket
  <1>4. CASE Network
    BY <1>4 DEF Network, Connect, Replace, socket
  <1>5. CASE Console \/ Framework
    BY <1>5 DEF Console, Framework, serverVars, socket
  <1> QED BY <1>1, <1>2, <1>3, <1>4, <1>5 DEF Elsewhere

\* What the server knows of the path is right but for the two windows.
LEMMA SocketStep ==
  ASSUME CommandTypeOK, TerminalPhase, ServerPhase, SocketPhase, Next PROVE SocketPhase'
  <1> USE DEF SocketPhase, ServerPhase, Early, Binding
  <1>1. ~Over
    BY Steps
  <1>2. /\ file \in {"None", "Own", "Other"} /\ identity \in {"None", "Own", "Other"}
        /\ host \in {"Quiet", "Found", "Replaced", "Raced"}
    BY DEF CommandTypeOK, ServerTypeOK
  <1>3. CASE Acquiring
    <2>1. CASE OpenNet \/ NewTerminal \/ Bind
      BY <2>1 DEF OpenNet, NewTerminal, Bind, At, serverVars, socket
    <2>2. CASE Serve
      BY <1>2, <2>2 DEF Serve, BindFile, InTheWay, ReadIdentity, BindFails, RemoveFile, Ours,
         Spawn, At, serverVars, socket
    <2> QED BY <1>3, <2>1, <2>2 DEF Acquiring
  <1>4. CASE Executing
    BY <1>4 DEF Executing, Begin, StartVm, TakeRequest, Complete, PollSerial, LeaveLoop,
       GuestEnds, Leave, BarrierFails, Become, Cancel, Conns, At, serverVars, socket
  <1>5. CASE Releasing
    <2>1. CASE Restore \/ Clean \/ JoinVcpus \/ Close \/ Finish \/ EndGuard
      BY <2>1 DEF Restore, Clean, JoinVcpus, Close, Finish, EndGuard, Cancel, Conns, At, serverVars,
         socket
    <2>2. CASE DropServer
      BY <1>2, <2>2 DEF DropServer, StopServer, RemoveFile, Ours, AfterServer, At, serverVars,
         socket
    <2> QED BY <1>5, <2>1, <2>2 DEF Releasing
  <1>6. CASE Kill
    BY <1>1, <1>6 DEF Kill, Over, TerminalPhase, serverVars, socket
  <1>7. CASE Elsewhere
    BY <1>2, <1>7, ElsewhereKeeps, ElsewherePath
  <1>8. CASE DiskWork /\ UNCHANGED <<vm, terminalVars, serverVars, netVars>>
    BY <1>8, DiskStepKeeps DEF serverVars, socket
  <1> QED BY <1>3, <1>4, <1>5, <1>6, <1>7, <1>8, Steps

(***************************************************************************)
(* Disks.                                                                  *)
(***************************************************************************)
DiskType ==
  [stage : {"None", "Opened", "Locked", "Open", "Closed"}, lock : Inodes \cup {"None"},
   io : Inodes \cup {"None"}, size : Nat, dirty : BOOLEAN]

\* One disk changes, the others stay.
LEMMA OneDisk ==
  ASSUME disk \in [Disks -> DiskType], NEW d \in Disks, NEW new \in DiskType,
         disk' = [disk EXCEPT ![d] = new]
  PROVE  /\ disk' \in [Disks -> DiskType] /\ disk'[d] = new
         /\ \A e \in Disks : e # d => disk'[e] = disk[e]
  OBVIOUS

\* What a step of Disk::open, of a pass of the loop or of Drop for Disk makes of a disk.
LEMMA NewDisk ==
  ASSUME ImageTypeOK, NEW d \in Disks
  PROVE  /\ disk[d] \in DiskType
         /\ LET new == [disk[d] EXCEPT !.stage = "Opened", !.lock = path]
            IN  /\ new \in DiskType /\ new.stage = "Opened" /\ new.lock = path
                /\ new.io = disk[d].io /\ new.dirty = disk[d].dirty
         /\ LET new == [disk[d] EXCEPT !.stage = "Locked"]
            IN  /\ new \in DiskType /\ new.stage = "Locked" /\ new.lock = disk[d].lock
                /\ new.io = disk[d].io /\ new.dirty = disk[d].dirty
         /\ LET new == [disk[d] EXCEPT !.dirty = TRUE]
            IN  /\ new \in DiskType /\ new.stage = disk[d].stage /\ new.lock = disk[d].lock
                /\ new.io = disk[d].io /\ new.size = disk[d].size /\ new.dirty
         /\ Closed \in DiskType
         /\ \A dirty \in BOOLEAN :
              LET new == [Closed EXCEPT !.dirty = dirty]
              IN  /\ new \in DiskType /\ new.stage = "Closed" /\ new.io = "None"
                  /\ new.dirty = dirty
  <1>1. disk[d] \in DiskType /\ path \in Inodes
    BY DEF ImageTypeOK, DiskType
  <1> QED BY <1>1 DEF DiskType, Closed

\* One disk changes, and what is known of disks and locks stays true if it is of that one.
LEMMA OneDiskStep ==
  ASSUME ImageTypeOK, LocksExclude, \A e \in Disks : DiskKnown(e), setting' = setting,
         NEW d \in Disks, NEW new \in DiskType, disk' = [disk EXCEPT ![d] = new],
         UNCHANGED <<images, path, other>>, lost' \in BOOLEAN, lost => lost',
         new.stage \in {"Opened", "Locked", "Open"} => new.lock \in Inodes,
         new.stage \in {"Locked", "Open"} =>
           /\ \A e \in Disks \ {d} : Held(e) /\ disk[e].lock = new.lock => Readonly
           /\ other.lock = new.lock => Readonly /\ other.mode = "Shared",
         new.stage = "Open" =>
           /\ new.io = new.lock
           /\ validate_header(images[new.lock]) /\ new.size = images[new.lock].size,
         new.stage # "Open" => new.io = "None" /\ (new.dirty => lost')
  PROVE  ImageTypeOK' /\ LocksExclude' /\ (\A e \in Disks : DiskKnown(e)')
  <1>1. disk \in [Disks -> DiskType]
    BY DEF ImageTypeOK, DiskType
  <1>2. /\ disk' \in [Disks -> DiskType] /\ disk'[d] = new
        /\ \A e \in Disks : e # d => disk'[e] = disk[e]
    BY <1>1, OneDisk
  <1>3. ImageTypeOK'
    BY <1>2 DEF ImageTypeOK, DiskType
  <1>4. Readonly' = Readonly
    BY DEF Readonly
  <1>5. LocksExclude'
    BY <1>2, <1>4 DEF LocksExclude, Held
  <1>6. DiskKnown(d)'
    BY <1>2 DEF DiskKnown, validate_header
  <1>7. ASSUME NEW e \in Disks, e # d PROVE DiskKnown(e)'
    BY <1>2, <1>7 DEF DiskKnown, validate_header
  <1> QED BY <1>3, <1>5, <1>6, <1>7

\* flock: whoever gets a lock found the file free, or shared by readers only.
LEMMA LockTaken ==
  ASSUME NEW inode, NEW mode \in Modes, ~Conflict(inode, mode, Mode(Readonly))
  PROVE  /\ \A e \in Disks : Held(e) /\ disk[e].lock = inode => Readonly /\ mode = "Shared"
         /\ other.lock = inode => mode = "Shared" /\ other.mode # "Exclusive"
  <1> DEFINE mine == Mode(Readonly)
             locked == {e \in Disks : disk[e].stage \in {"Locked", "Open"} /\ disk[e].lock = inode}
             held == {mine : d \in locked} \cup (IF other.lock = inode THEN {other.mode} ELSE {})
  <1>1. held = {} \/ "Exclusive" \notin held \cup {mode}
    BY DEF Conflict
  <1>2. ASSUME NEW e \in Disks, Held(e), disk[e].lock = inode PROVE Readonly /\ mode = "Shared"
    <2>1. e \in locked
      BY <1>2 DEF Held
    <2>2. mine \in held
      BY <2>1
    <2>3. mine # "Exclusive" /\ mode # "Exclusive"
      BY <1>1, <2>2
    <2> QED BY <2>3 DEF Mode, Modes
  <1>3. ASSUME other.lock = inode PROVE mode = "Shared" /\ other.mode # "Exclusive"
    <2>1. other.mode \in held
      BY <1>3
    <2> QED BY <1>1, <2>1 DEF Modes
  <1> QED BY <1>2, <1>3

\* Between the lock and the last close a file is the disk's, and what Disk::open found
\* out about it stays true.
LEMMA ImageStep ==
  ASSUME ImageTypeOK, LocksExclude, \A d \in Disks : DiskKnown(d), DiskWork, setting' = setting
  PROVE  ImageTypeOK' /\ LocksExclude' /\ (\A d \in Disks : DiskKnown(d)')
  <1> DEFINE Kept == ImageTypeOK' /\ LocksExclude' /\ (\A d \in Disks : DiskKnown(d)')
  <1>1. /\ path \in Inodes /\ images \in Images /\ lost \in BOOLEAN
        /\ other \in [lock : Inodes \cup {"None"}, mode : Modes]
    BY DEF ImageTypeOK
  <1>2. ASSUME NEW d \in Disks, OpenFile(d) PROVE Kept
    <2> DEFINE new == [disk[d] EXCEPT !.stage = "Opened", !.lock = path]
    <2>1. /\ new \in DiskType /\ new.stage = "Opened" /\ new.lock = path /\ new.io = disk[d].io
          /\ new.dirty = disk[d].dirty
      BY NewDisk
    <2>2. /\ disk' = [disk EXCEPT ![d] = new] /\ UNCHANGED <<images, path, other, lost>>
          /\ disk[d].stage = "None"
      BY <1>2 DEF OpenFile, SetDisk
    <2> HIDE DEF new
    <2>3. new.io = "None" /\ (new.dirty => lost')
      BY <2>1, <2>2 DEF DiskKnown
    <2> QED BY <1>1, <2>1, <2>2, <2>3, OneDiskStep
  <1>3. ASSUME NEW d \in Disks, LockFile(d, Readonly) PROVE Kept
    <2> DEFINE new == [disk[d] EXCEPT !.stage = "Locked"]
    <2>1. /\ new \in DiskType /\ new.stage = "Locked" /\ new.lock = disk[d].lock
          /\ new.io = disk[d].io /\ new.dirty = disk[d].dirty
      BY NewDisk
    <2>2. /\ disk' = [disk EXCEPT ![d] = new] /\ UNCHANGED <<images, path, other, lost>>
          /\ disk[d].stage = "Opened"
          /\ ~Conflict(disk[d].lock, Mode(Readonly), Mode(Readonly))
      BY <1>3 DEF LockFile, SetDisk
    <2> HIDE DEF new
    <2>3. new.io = "None" /\ (new.dirty => lost') /\ new.lock \in Inodes
      BY <2>1, <2>2 DEF DiskKnown
    <2>4. Mode(Readonly) \in Modes /\ (Mode(Readonly) = "Shared" => Readonly)
      BY DEF Mode, Modes
    <2>5. /\ \A e \in Disks : Held(e) /\ disk[e].lock = new.lock => Readonly
          /\ other.lock = new.lock => Readonly /\ other.mode = "Shared"
      BY <1>1, <2>1, <2>2, <2>4, LockTaken DEF Modes
    <2> QED BY <1>1, <2>1, <2>2, <2>3, <2>5, OneDiskStep
  <1>4. ASSUME NEW d \in Disks, OpenImage(d) PROVE Kept
    <2> DEFINE size == images[disk[d].lock].size
               new == [disk[d] EXCEPT !.stage = "Open", !.io = disk[d].lock, !.size = size]
    <2>1. /\ disk' = [disk EXCEPT ![d] = new] /\ UNCHANGED <<images, path, other, lost>>
          /\ disk[d].stage = "Locked" /\ validate_header(images[disk[d].lock])
      BY <1>4 DEF OpenImage, IoFile, SetDisk
    <2>2. /\ disk[d].lock \in Inodes
          /\ \A e \in Disks \ {d} : Held(e) /\ disk[e].lock = disk[d].lock => Readonly
          /\ other.lock = disk[d].lock => Readonly /\ other.mode = "Shared"
      BY <2>1 DEF LocksExclude, Held
    <2>3. size \in Nat /\ size = images[disk[d].lock].size
      BY <1>1, <2>2, DiskAssumption
    <2> HIDE DEF size
    <2>4. /\ new \in DiskType /\ new.stage = "Open" /\ new.lock = disk[d].lock
          /\ new.io = disk[d].lock /\ new.size = size
      <3>1. disk[d] \in DiskType
        BY NewDisk
      <3> QED BY <2>2, <2>3, <3>1 DEF DiskType
    <2> HIDE DEF new
    <2> QED BY <1>1, <2>1, <2>2, <2>3, <2>4, OneDiskStep
  <1>5. ASSUME NEW d \in Disks, OpenFails(d) PROVE Kept
    <2>1. disk' = [disk EXCEPT ![d] = Closed] /\ UNCHANGED <<images, path, other, lost>>
      BY <1>5 DEF OpenFails, SetDisk
    <2>2. Closed \in DiskType /\ Closed.stage = "Closed" /\ Closed.io = "None" /\ ~Closed.dirty
      BY NewDisk DEF Closed
    <2> QED BY <1>1, <2>1, <2>2, OneDiskStep
  <1>6. ASSUME NEW d \in Disks, WriteDisk(d) PROVE Kept
    <2> DEFINE new == [disk[d] EXCEPT !.dirty = TRUE]
    <2>1. /\ new \in DiskType /\ new.stage = disk[d].stage /\ new.lock = disk[d].lock
          /\ new.io = disk[d].io /\ new.size = disk[d].size
      BY NewDisk
    <2>2. /\ disk' = [disk EXCEPT ![d] = new] /\ UNCHANGED <<images, path, other, lost>>
          /\ disk[d].stage = "Open"
      BY <1>6 DEF WriteDisk, SetDisk
    <2> HIDE DEF new
    <2>3. /\ new.io = new.lock /\ new.lock \in Inodes /\ validate_header(images[new.lock])
          /\ new.size = images[new.lock].size
      BY <2>1, <2>2 DEF DiskKnown, LocksExclude, Held
    <2>4. /\ \A e \in Disks \ {d} : Held(e) /\ disk[e].lock = new.lock => Readonly
          /\ other.lock = new.lock => Readonly /\ other.mode = "Shared"
      BY <2>1, <2>2 DEF LocksExclude, Held
    <2> QED BY <1>1, <2>1, <2>2, <2>3, <2>4, OneDiskStep
  <1>7. ASSUME NEW d \in Disks, CloseDisk(d) PROVE Kept
    <2>1. PICK synced \in BOOLEAN :
            /\ disk' = [disk EXCEPT ![d] = [Closed EXCEPT !.dirty = disk[d].dirty
                                                              /\ ~(synced /\ FlushedOnDrop)]]
            /\ lost' = (lost \/ (disk[d].dirty /\ ~synced))
      BY <1>7 DEF CloseDisk
    <2> DEFINE dirty == disk[d].dirty /\ ~(synced /\ FlushedOnDrop)
               new == [Closed EXCEPT !.dirty = dirty]
    <2>2. dirty \in BOOLEAN /\ lost' \in BOOLEAN /\ (lost => lost') /\ (dirty => lost')
      BY <2>1, Zenon DEF FlushedOnDrop
    <2> HIDE DEF dirty
    <2>3. new \in DiskType /\ new.stage = "Closed" /\ new.io = "None" /\ new.dirty = dirty
      BY <2>2, NewDisk
    <2>4. disk' = [disk EXCEPT ![d] = new] /\ UNCHANGED <<images, path, other>>
      BY <1>7, <2>1 DEF CloseDisk, dirty
    <2> HIDE DEF new
    <2> QED BY <2>2, <2>3, <2>4, OneDiskStep
  <1>8. ASSUME Rename \/ OtherCloses \/ \E mode \in Modes : OtherOpens(mode, Mode(Readonly)) PROVE Kept
    <2>1. UNCHANGED <<images, disk, lost>>
      BY <1>8 DEF Rename, OtherCloses, OtherOpens
    <2>2. path' \in Inodes /\ other' \in [lock : Inodes \cup {"None"}, mode : Modes]
      BY <1>1, <1>8 DEF Rename, OtherCloses, OtherOpens, Inodes, Nobody, Modes
    <2>3. ImageTypeOK'
      BY <2>1, <2>2 DEF ImageTypeOK
    <2>4. \A d \in Disks : DiskKnown(d)'
      BY <2>1 DEF DiskKnown, validate_header
    <2>5. \A d \in Disks : Held(d) /\ other'.lock = disk[d].lock => Readonly /\ other'.mode = "Shared"
      <3>1. CASE Rename
        BY <3>1 DEF Rename, LocksExclude
      <3>2. CASE OtherCloses
        <4>1. other'.lock = "None" /\ "None" \notin Inodes
          BY <3>2 DEF OtherCloses, Nobody, Inodes
        <4> QED BY <4>1 DEF LocksExclude
      <3>3. CASE \E mode \in Modes : OtherOpens(mode, Mode(Readonly))
        <4>1. PICK mode \in Modes : OtherOpens(mode, Mode(Readonly))
          BY <3>3
        <4>2. other'.lock = path /\ other'.mode = mode /\ ~Conflict(path, mode, Mode(Readonly))
          BY <4>1 DEF OtherOpens
        <4> QED BY <4>2, LockTaken
      <3> QED BY <1>8, <3>1, <3>2, <3>3
    <2>6. Readonly' = Readonly
      BY DEF Readonly
    <2>7. LocksExclude'
      BY <2>1, <2>5, <2>6 DEF LocksExclude, Held
    <2> QED BY <2>3, <2>4, <2>7
  <1>9. ASSUME UNCHANGED imageVars PROVE Kept
    BY <1>9 DEF imageVars, ImageTypeOK, LocksExclude, Held, Readonly, DiskKnown, validate_header
  <1> HIDE DEF Kept
  <1>10. Kept
    BY <1>2, <1>3, <1>4, <1>5, <1>6, <1>7, <1>8, <1>9
       DEF DiskWork, OpenDisks, CloseDisks, GuestWrites, Others
  <1> QED BY <1>10 DEF Kept

\* No step but a pass of the loop makes a disk dirty.
LEMMA StaysClean ==
  ASSUME ImageTypeOK, \A d \in Disks : ~disk[d].dirty, DiskWork, main # "Loop"
  PROVE  \A d \in Disks : ~disk'[d].dirty
  <1> DEFINE StillClean == \A d \in Disks : ~disk'[d].dirty
  <1>1. disk \in [Disks -> DiskType]
    BY DEF ImageTypeOK, DiskType
  <1>2. ASSUME NEW d \in Disks, NEW new, ~new.dirty, disk' = [disk EXCEPT ![d] = new] PROVE StillClean
    BY <1>1, <1>2
  <1>3. ASSUME NEW d \in Disks, OpenFile(d) \/ LockFile(d, Readonly) \/ OpenImage(d) PROVE StillClean
    <2>1. \/ disk' = [disk EXCEPT ![d] = [disk[d] EXCEPT !.stage = "Opened", !.lock = path]]
          \/ disk' = [disk EXCEPT ![d] = [disk[d] EXCEPT !.stage = "Locked"]]
          \/ disk' = [disk EXCEPT ![d] = [disk[d] EXCEPT !.stage = "Open", !.io = disk[d].lock,
                                                         !.size = images[disk[d].lock].size]]
      BY <1>3 DEF OpenFile, LockFile, OpenImage, IoFile, SetDisk
    <2>2. ~disk'[d].dirty
      BY <1>1, <2>1 DEF DiskType
    <2> QED BY <1>1, <2>1, <2>2
  <1>4. ASSUME NEW d \in Disks, OpenFails(d) PROVE StillClean
    <2>1. ~Closed.dirty /\ disk' = [disk EXCEPT ![d] = Closed]
      BY <1>4 DEF OpenFails, SetDisk, Closed
    <2> QED BY <1>2, <2>1
  <1>5. ASSUME NEW d \in Disks, CloseDisk(d) PROVE StillClean
    <2> DEFINE new == [Closed EXCEPT !.dirty = FALSE]
    <2>1. PICK synced \in BOOLEAN :
            disk' = [disk EXCEPT ![d] = [Closed EXCEPT !.dirty = disk[d].dirty
                                                            /\ ~(synced /\ FlushedOnDrop)]]
      BY <1>5 DEF CloseDisk
    <2>2. (disk[d].dirty /\ ~(synced /\ FlushedOnDrop)) = FALSE
      BY Zenon
    <2>3. disk' = [disk EXCEPT ![d] = new] /\ ~new.dirty
      BY <2>1, <2>2 DEF Closed
    <2> HIDE DEF new
    <2> QED BY <1>2, <2>3
  <1>6. ASSUME disk' = disk PROVE StillClean
    BY <1>6
  <1> QED BY <1>2, <1>3, <1>4, <1>5, <1>6
    DEF DiskWork, OpenDisks, CloseDisks, GuestWrites, Others, Rename, OtherCloses, OtherOpens,
        imageVars, At

\* Disks are open from their opening to the drop of their owner, and what is left then
\* was synced or reported lost.
LEMMA DiskPhaseStep ==
  ASSUME CommandTypeOK, TerminalPhase, ServerPhase, LocksExclude, DiskPhase, Next
  PROVE  ImageTypeOK' /\ LocksExclude' /\ DiskPhase'
  <1> USE DEF Gone, Early, Binding
  <1>1. ~Over /\ setting' = setting /\ ImageTypeOK
    BY Steps DEF CommandTypeOK
  <1>2. CASE DiskWork /\ UNCHANGED <<vm, terminalVars, serverVars, netVars>>
    <2>1. ImageTypeOK' /\ LocksExclude' /\ (\A d \in Disks : DiskKnown(d)')
      BY <1>1, <1>2, ImageStep DEF DiskPhase
    <2>2. /\ main' = main \/ (main = "Disks" /\ main' \in {"Net", "Abandon"})
          /\ signals' = signals /\ server' = server
      BY <1>2, DiskStepKeeps DEF terminalVars, serverVars, tty
    <2>3. ASSUME main' = "Release" \/ Gone' PROVE AllClosed'
      <3>1. (main = "Release" \/ Gone) /\ AllClosed
        BY <2>2, <2>3 DEF DiskPhase
      <3>2. disk' = disk
        BY <1>2, <3>1 DEF DiskWork, OpenDisks, CloseDisks, GuestWrites, Others, At, Rename,
           OtherCloses, OtherOpens
      <3> QED BY <3>1, <3>2 DEF AllClosed
    <2>4. ASSUME main' \in Early \/ signals' = "Default" PROVE \A d \in Disks : ~disk'[d].dirty
      <3>1. main \in Early \/ signals = "Default"
        BY <2>2, <2>4
      <3>2. main # "Loop"
        BY <3>1 DEF TerminalPhase
      <3> QED BY <1>1, <1>2, <3>1, <3>2, StaysClean DEF DiskPhase
    <2> QED BY <2>1, <2>3, <2>4 DEF DiskPhase
  <1>3. CASE (Acquiring \/ Executing \/ Releasing \/ Kill \/ Elsewhere) /\ UNCHANGED imageVars
    <2>1. ImageTypeOK' /\ LocksExclude' /\ (\A d \in Disks : DiskKnown(d)')
      BY <1>1, <1>3 DEF DiskPhase, imageVars, ImageTypeOK, LocksExclude, Held, Readonly, DiskKnown,
         validate_header
    <2>2. disk' = disk /\ (AllClosed => AllClosed')
      BY <1>3 DEF imageVars, AllClosed
    <2>3. /\ main' = "Release" \/ Gone' => main = "Release" \/ Gone \/ AllClosed
          /\ main' \in Early \/ signals' = "Default" => main \in Early \/ signals = "Default"
      <3>1. CASE Acquiring
        BY <3>1 DEF Acquiring, OpenNet, NewTerminal, Guard, GuardFails, Raw, RawFails, Bind, bind,
           Serve, BindFile, ReadIdentity, BindFails, Spawn, At, terminalVars, serverVars, tty,
           ServerPhase
      <3>2. CASE Executing
        BY <3>2 DEF Executing, Begin, StartVm, TakeRequest, Complete, PollSerial, PollInput,
           LeaveLoop, GuestEnds, Leave, BarrierFails, Become, Cancel, Conns, At, terminalVars,
           serverVars, tty
      <3>3. CASE Restore \/ Clean \/ JoinVcpus \/ Finish \/ EndGuard
        BY <3>3 DEF Restore, Clean, JoinVcpus, Finish, EndGuard, DropTerminal, DropGuard, Cancel,
           Conns, At, terminalVars, serverVars, tty
      <3>4. CASE Close \/ DropServer
        BY <3>4 DEF Close, DropServer, StopServer, RemoveFile, AfterServer, At, terminalVars,
           serverVars, tty, ServerPhase
      <3>5. CASE Kill
        BY <1>1, <3>5 DEF Kill, Over, TerminalPhase, terminalVars, serverVars, tty
      <3>6. CASE Elsewhere
        BY <3>6, ElsewhereKeeps DEF tty
      <3> QED BY <1>3, <3>1, <3>2, <3>3, <3>4, <3>5, <3>6 DEF Releasing
    <2> QED BY <2>1, <2>2, <2>3 DEF DiskPhase
  <1> QED BY <1>2, <1>3, Steps

(***************************************************************************)
(* Clients.                                                                *)
(***************************************************************************)
\* What a step may do to one client: its thread, its request and what it has got.
Rests(c) == conn'[c] = conn[c] /\ client'[c] = client[c] /\ op'[c] = op[c]
Moves(c, from, to) ==
  conn[c] \in from /\ conn'[c] \in to /\ client'[c] = client[c] /\ op'[c] = op[c]
ClientMove(c) ==
  \/ Rests(c)
  \/ Moves(c, {"Queued"}, {"Served", "Error"})
  \/ Moves(c, {"Served"}, {"Ok"}) \/ Moves(c, {"Line"}, {"Error"})
  \/ op[c] \in {"Pause", "Resume"} /\ Moves(c, {"Line"}, {"Queued"})
  \/ op[c] = "Stop" /\ Moves(c, {"Line"}, {"Stopping"})
  \/ op[c] = "Query" /\ Moves(c, {"Line"}, {"Ok"})
  \/ life = "Stopped" /\ Moves(c, {"Stopping"}, {"Ok", "Error"})
  \/ /\ conn[c] \in {"Ok", "Error"} /\ conn'[c] = "Done" /\ client'[c] = conn[c]
     /\ op'[c] = op[c]
  \/ /\ server = "Loop" /\ Contains(backlog, c) /\ op'[c] = op[c]
     /\ \/ conn'[c] = "Line" /\ client'[c] = client[c]
        \/ conn'[c] \in {"Done", conn[c]} /\ client'[c] = "Dropped"
  \/ Contains(backlog, c) /\ conn'[c] = conn[c] /\ client'[c] = "Dropped" /\ op'[c] = op[c]
  \/ client[c] = "Idle" /\ conn'[c] = conn[c] /\ client'[c] = "Waiting"

ConnTyped == conn \in [Clients -> {"None", "Done"} \cup Running]
ClientTyped ==
  /\ op \in [Clients -> Operations \cup {"None"}]
  /\ client \in [Clients -> {"Idle", "Waiting", "Ok", "Error", "Dropped"}]

\* Where everything about the clients but one thread stays.
LEMMA OneThread ==
  ASSUME ConnTyped, ClientTyped, NEW c \in Clients, NEW state \in {"None", "Done"} \cup Running,
         Become(c, state)
  PROVE  /\ ConnTyped' /\ ClientTyped' /\ conn'[c] = state /\ op'[c] = op[c] /\ client'[c] = client[c]
         /\ \A d \in Clients : d # c => Rests(d)
  BY DEF ConnTyped, ClientTyped, Become, Conns, Rests

\* Whatever ends the VM answers what is queued.
LEMMA CancelMoves ==
  ASSUME ConnTyped, ClientTyped, queue \in Seq(Clients),
         \A c \in Clients : Contains(queue, c) => conn[c] = "Queued", Conns(Cancelled)
  PROVE  ConnTyped' /\ ClientTyped' /\ \A c \in Clients : ClientMove(c)
  <1>1. /\ conn' = [c \in Clients |-> IF Contains(queue, c) THEN "Error" ELSE conn[c]]
        /\ op' = op /\ client' = client
    BY DEF Conns, Cancelled
  <1>2. ConnTyped' /\ ClientTyped'
    BY <1>1 DEF ConnTyped, ClientTyped, Running
  <1>3. ASSUME NEW c \in Clients PROVE ClientMove(c)
    <2>1. CASE Contains(queue, c)
      BY <1>1, <2>1 DEF ClientMove, Moves
    <2>2. CASE ~Contains(queue, c)
      BY <1>1, <2>2 DEF ClientMove, Rests
    <2> QED BY <2>1, <2>2
  <1> QED BY <1>2, <1>3

\* The main thread's steps, by what they do to the clients.
LEMMA MainClients ==
  ASSUME Acquiring \/ Executing \/ Releasing \/ Kill
  PROVE  \/ UNCHANGED <<conn, op, client, backlog, queue>>
         \/ Serve /\ BindFails /\ HasListener /\ queue' = queue
         \/ TakeRequest \/ Complete
         \/ (BarrierFails \/ Clean \/ Finish) /\ Cancel
         \/ BarrierFails /\ queue # <<>> /\ Become(Head(queue), "Error") /\ queue' = Tail(queue)
  <1>1. CASE Acquiring
    BY <1>1 DEF Acquiring, OpenNet, NewTerminal, Bind, Serve, BindFile, ReadIdentity, RemoveFile, Spawn,
       HasListener, At, vm, serverVars
  <1>2. CASE Executing
    BY <1>2 DEF Executing, Begin, StartVm, PollSerial, LeaveLoop, GuestEnds, Leave, BarrierFails,
       vm, serverVars
  <1>3. CASE Releasing
    BY <1>3 DEF Releasing, Restore, Clean, JoinVcpus, Close, Finish, DropServer, StopServer,
       RemoveFile, EndGuard, vm, serverVars
  <1>4. CASE Kill
    BY <1>4 DEF Kill, vm, serverVars
  <1> QED BY <1>1, <1>2, <1>3, <1>4

\* Everybody else's.
LEMMA OtherClients ==
  ASSUME Elsewhere
  PROVE  \/ UNCHANGED <<conn, op, client, backlog, queue>>
         \/ Cancel /\ stop
         \/ Accept /\ queue' = queue
         \/ JoinConnections /\ queue' = queue
         \/ \E c \in Clients : Submit(c) \/ CallStop(c)
         \/ \E c \in Clients : (ReadFails(c) \/ Query(c) \/ CallReturns(c) \/ Respond(c)) /\ queue' = queue
         \/ \E c \in Clients, operation \in Operations \cup {"None"} :
              Connect(c, operation) /\ Listening /\ queue' = queue
  BY DEF Elsewhere, TermThread, ServerThread, AcceptFails, LeaveAccept, Connection, Network,
     Console, Framework, Replace, vm, serverVars

\* A queue without its head.
LEMMA QueueTail ==
  ASSUME NEW q \in Seq(Clients), q # <<>>, Once(q)
  PROVE  /\ Head(q) \in Clients /\ Tail(q) \in Seq(Clients) /\ Once(Tail(q))
         /\ Contains(q, Head(q)) /\ ~Contains(Tail(q), Head(q))
         /\ \A c : Contains(Tail(q), c) => Contains(q, c)
         /\ \A c : Contains(q, c) => c = Head(q) \/ Contains(Tail(q), c)
  <1>1. /\ Len(q) \in Nat /\ Len(q) > 0 /\ Head(q) = q[1] /\ Head(q) \in Clients
        /\ Tail(q) \in Seq(Clients) /\ Len(Tail(q)) = Len(q) - 1
    OBVIOUS
  <1>2. \A i \in 1..Len(q) - 1 : i + 1 \in 1..Len(q) /\ Tail(q)[i] = q[i + 1]
    BY <1>1
  <1>3. Once(Tail(q))
    BY <1>1, <1>2 DEF Once
  <1>4. Contains(q, Head(q))
    BY <1>1 DEF Contains
  <1>5. ~Contains(Tail(q), Head(q))
    BY <1>1, <1>2 DEF Contains, Once
  <1>6. ASSUME NEW c, Contains(Tail(q), c) PROVE Contains(q, c)
    BY <1>1, <1>2, <1>6 DEF Contains
  <1>7. ASSUME NEW c, Contains(q, c), c # Head(q) PROVE Contains(Tail(q), c)
    <2>1. PICK i \in 1..Len(q) : q[i] = c
      BY <1>7 DEF Contains
    <2>2. i - 1 \in 1..Len(q) - 1 /\ Tail(q)[i - 1] = c
      BY <1>1, <1>2, <1>7, <2>1
    <2> QED BY <1>1, <2>2 DEF Contains
  <1> QED BY <1>1, <1>3, <1>4, <1>5, <1>6, <1>7

\* A queue with one more.
LEMMA QueueAppend ==
  ASSUME NEW q \in Seq(Clients), NEW c \in Clients, ~Contains(q, c), Once(q)
  PROVE  /\ Append(q, c) \in Seq(Clients) /\ Once(Append(q, c))
         /\ \A d : Contains(Append(q, c), d) <=> Contains(q, d) \/ d = c
  <1>1. /\ Len(q) \in Nat /\ Append(q, c) \in Seq(Clients) /\ Len(Append(q, c)) = Len(q) + 1
        /\ Append(q, c)[Len(q) + 1] = c
    OBVIOUS
  <1>2. \A i \in 1..Len(q) : i \in 1..Len(q) + 1 /\ Append(q, c)[i] = q[i] /\ q[i] # c
    BY <1>1 DEF Contains
  <1>3. \A i \in 1..Len(q) + 1 : i \in 1..Len(q) \/ i = Len(q) + 1
    BY <1>1
  <1>4. Once(Append(q, c))
    BY <1>1, <1>2, <1>3 DEF Once
  <1>5. ASSUME NEW d, Contains(Append(q, c), d) PROVE Contains(q, d) \/ d = c
    BY <1>1, <1>2, <1>3, <1>5 DEF Contains
  <1>6. ASSUME NEW d, Contains(q, d) \/ d = c PROVE Contains(Append(q, c), d)
    <2>1. CASE d = c
      BY <1>1, <2>1 DEF Contains
    <2>2. CASE Contains(q, d)
      BY <1>1, <1>2, <2>2 DEF Contains
    <2> QED BY <1>6, <2>1, <2>2
  <1> QED BY <1>1, <1>4, <1>5, <1>6

\* No client loses its place without its thread or an end of its connection.
KeepsPlace(c) ==
  /\ Contains(backlog, c) => Contains(backlog', c) \/ conn'[c] = "Line" \/ client'[c] = "Dropped"
  /\ client[c] = "Idle" /\ client'[c] = "Waiting" => Contains(backlog', c)

ClientsStepped ==
  /\ ConnTyped' /\ ClientTyped' /\ backlog' \in Seq(Clients) /\ queue' \in Seq(Clients)
  /\ QueuesKept' /\ \A c \in Clients : ClientMove(c) /\ KeepsPlace(c)

\* The thread of one client moves, and nobody's place changes.
LEMMA ThreadStep ==
  ASSUME ConnTyped, ClientTyped, QueuesKept, backlog \in Seq(Clients), queue' \in Seq(Clients),
         NEW c \in Clients, NEW state \in {"None", "Done"} \cup Running, Become(c, state),
         ClientMove(c), conn[c] \in Running, Once(queue'),
         \A d \in Clients : Contains(queue', d) => Contains(queue, d) \/ d = c,
         Contains(queue', c) => state = "Queued"
  PROVE  ClientsStepped
  <1>1. /\ ConnTyped' /\ ClientTyped' /\ conn'[c] = state /\ client'[c] = client[c]
        /\ \A d \in Clients : d # c => Rests(d)
    BY OneThread
  <1>2. backlog' = backlog
    BY DEF Become, Conns
  <1>3. \A d \in Clients : KeepsPlace(d)
    BY <1>1, <1>2 DEF KeepsPlace, Rests
  <1>4. \A d \in Clients : ClientMove(d)
    BY <1>1 DEF ClientMove
  <1>5. \A d \in Clients : Contains(backlog', d) => client'[d] = "Waiting" /\ conn'[d] = "None"
    BY <1>1, <1>2 DEF QueuesKept, Rests, Running
  <1>6. \A d \in Clients : Contains(queue', d) => conn'[d] = "Queued"
    BY <1>1 DEF QueuesKept, Rests
  <1>7. QueuesKept'
    BY <1>2, <1>5, <1>6 DEF QueuesKept
  <1> QED BY <1>1, <1>2, <1>3, <1>4, <1>7 DEF ClientsStepped

\* Whatever ends the VM empties its queue ...
LEMMA CancelStep ==
  ASSUME ConnTyped, ClientTyped, QueuesKept, backlog \in Seq(Clients), queue \in Seq(Clients), Cancel
  PROVE  ClientsStepped
  <1>1. ConnTyped' /\ ClientTyped' /\ \A c \in Clients : ClientMove(c)
    BY CancelMoves DEF Cancel, QueuesKept
  <1>2. /\ queue' = <<>> /\ backlog' = backlog /\ client' = client
        /\ conn' = [c \in Clients |-> IF Contains(queue, c) THEN "Error" ELSE conn[c]]
    BY DEF Cancel, Conns, Cancelled
  <1>3. \A c \in Clients : KeepsPlace(c)
    BY <1>2 DEF KeepsPlace
  <1>4. \A c \in Clients : Contains(backlog', c) => client'[c] = "Waiting" /\ conn'[c] = "None"
    BY <1>2 DEF QueuesKept
  <1>5. Once(<<>>) /\ \A c \in Clients : ~Contains(<<>>, c)
    BY DEF Once, Contains
  <1>6. QueuesKept'
    BY <1>2, <1>4, <1>5 DEF QueuesKept
  <1> QED BY <1>1, <1>2, <1>3, <1>6 DEF ClientsStepped

\* ... also where a connection's thread does it, which then waits.
LEMMA CallStopStep ==
  ASSUME ConnTyped, ClientTyped, QueuesKept, backlog \in Seq(Clients), queue \in Seq(Clients),
         NEW c \in Clients, CallStop(c)
  PROVE  ClientsStepped
  <1>1. /\ queue' = <<>> /\ backlog' = backlog /\ client' = client /\ op' = op
        /\ conn' = [Cancelled EXCEPT ![c] = "Stopping"]
        /\ conn[c] = "Line" /\ op[c] = "Stop"
    BY DEF CallStop, Called, Conns
  <1>2. /\ conn'[c] = "Stopping"
        /\ \A d \in Clients : d # c => conn'[d] = IF Contains(queue, d) THEN "Error" ELSE conn[d]
    BY <1>1 DEF Cancelled
  <1>3. ConnTyped' /\ ClientTyped'
    BY <1>1 DEF ConnTyped, ClientTyped, Running, Cancelled
  <1>4. \A d \in Clients : KeepsPlace(d)
    BY <1>1 DEF KeepsPlace
  <1>5. ASSUME NEW d \in Clients PROVE ClientMove(d)
    <2>1. CASE d = c
      BY <1>1, <1>2, <2>1 DEF ClientMove, Moves
    <2>2. CASE d # c /\ Contains(queue, d)
      BY <1>1, <1>2, <2>2 DEF ClientMove, Moves, QueuesKept
    <2>3. CASE d # c /\ ~Contains(queue, d)
      BY <1>1, <1>2, <2>3 DEF ClientMove, Rests
    <2> QED BY <2>1, <2>2, <2>3
  <1>6. \A d \in Clients : Contains(backlog', d) => client'[d] = "Waiting" /\ conn'[d] = "None"
    BY <1>1, <1>2 DEF QueuesKept
  <1>7. Once(<<>>) /\ \A d \in Clients : ~Contains(<<>>, d)
    BY DEF Once, Contains
  <1>8. QueuesKept'
    BY <1>1, <1>6, <1>7 DEF QueuesKept
  <1> QED BY <1>1, <1>3, <1>4, <1>5, <1>8 DEF ClientsStepped

\* The listener is dropped.
LEMMA HangupStep ==
  ASSUME ConnTyped, ClientTyped, QueuesKept, queue \in Seq(Clients),
         Hangup, UNCHANGED <<conn, op, queue>>
  PROVE  ClientsStepped
  <1>1. /\ backlog' = <<>> /\ conn' = conn /\ op' = op /\ queue' = queue
        /\ client' = [c \in Clients |-> IF Contains(backlog, c) THEN "Dropped" ELSE client[c]]
    BY DEF Hangup
  <1>2. ConnTyped' /\ ClientTyped'
    BY <1>1 DEF ConnTyped, ClientTyped
  <1>3. \A c \in Clients : ClientMove(c)
    BY <1>1 DEF ClientMove, Rests
  <1>4. \A c \in Clients : KeepsPlace(c)
    BY <1>1 DEF KeepsPlace
  <1>5. Once(<<>>) /\ \A c \in Clients : ~Contains(<<>>, c)
    BY DEF Once, Contains
  <1>6. QueuesKept'
    BY <1>1, <1>5 DEF QueuesKept
  <1> QED BY <1>1, <1>2, <1>3, <1>4, <1>6 DEF ClientsStepped

\* The head of the backlog is accepted, or dropped.
LEMMA AcceptStep ==
  ASSUME ConnTyped, ClientTyped, QueuesKept, backlog \in Seq(Clients), queue \in Seq(Clients),
         Accept, queue' = queue
  PROVE  ClientsStepped
  <1> DEFINE c == Head(backlog)
  <1>1. /\ c \in Clients /\ backlog' \in Seq(Clients) /\ Once(backlog')
        /\ Contains(backlog, c) /\ ~Contains(backlog', c)
        /\ \A d : Contains(backlog', d) => Contains(backlog, d)
        /\ \A d : Contains(backlog, d) => d = c \/ Contains(backlog', d)
    BY QueueTail DEF Accept, QueuesKept
  <1>2. /\ server = "Loop" /\ op' = op
        /\ \/ conn' = [conn EXCEPT ![c] = "Line"] /\ client' = client
           \/ /\ client' = [client EXCEPT ![c] = "Dropped"]
              /\ conn' = [conn EXCEPT ![c] = "Done"] \/ conn' = conn
    BY DEF Accept
  <1> HIDE DEF c
  <1>3. client[c] = "Waiting" /\ conn[c] = "None"
    BY <1>1 DEF QueuesKept
  <1>4. ConnTyped' /\ ClientTyped'
    BY <1>1, <1>2 DEF ConnTyped, ClientTyped, Running
  <1>5. \A d \in Clients : d # c => Rests(d)
    BY <1>1, <1>2 DEF Rests, ConnTyped, ClientTyped
  <1>6. \/ conn'[c] = "Line" /\ client'[c] = client[c]
        \/ conn'[c] \in {"Done", conn[c]} /\ client'[c] = "Dropped"
    BY <1>1, <1>2 DEF ConnTyped, ClientTyped
  <1>7. ASSUME NEW d \in Clients PROVE ClientMove(d)
    BY <1>1, <1>2, <1>5, <1>6 DEF ClientMove
  <1>8. ASSUME NEW d \in Clients PROVE KeepsPlace(d)
    BY <1>1, <1>3, <1>5, <1>6 DEF KeepsPlace, Rests
  <1>9. \A d \in Clients : Contains(backlog', d) => client'[d] = "Waiting" /\ conn'[d] = "None"
    BY <1>1, <1>5 DEF QueuesKept, Rests
  <1>10. \A d \in Clients : Contains(queue, d) => conn'[d] = "Queued"
    BY <1>3, <1>5 DEF QueuesKept, Rests
  <1>11. QueuesKept'
    BY <1>1, <1>9, <1>10 DEF QueuesKept
  <1> QED BY <1>1, <1>4, <1>7, <1>8, <1>11 DEF ClientsStepped

\* A client connects.
LEMMA ConnectStep ==
  ASSUME ConnTyped, ClientTyped, QueuesKept, ClientsKept, backlog \in Seq(Clients),
         queue \in Seq(Clients), NEW c \in Clients, NEW operation \in Operations \cup {"None"},
         Connect(c, operation), queue' = queue
  PROVE  ClientsStepped
  <1>1. /\ client[c] = "Idle" /\ conn[c] = "None" /\ ~Contains(backlog, c)
        /\ backlog' = Append(backlog, c)
        /\ client' = [client EXCEPT ![c] = "Waiting"] /\ op' = [op EXCEPT ![c] = operation]
        /\ conn' = conn
    BY DEF Connect, QueuesKept, ClientsKept
  <1>2. /\ backlog' \in Seq(Clients) /\ Once(backlog')
        /\ \A d : Contains(backlog', d) <=> Contains(backlog, d) \/ d = c
    BY <1>1, QueueAppend DEF QueuesKept
  <1>3. ConnTyped' /\ ClientTyped' /\ client'[c] = "Waiting" /\ conn'[c] = "None"
    BY <1>1 DEF ConnTyped, ClientTyped
  <1>4. \A d \in Clients : d # c => Rests(d)
    BY <1>1 DEF Rests, ClientTyped
  <1>5. \A d \in Clients : ClientMove(d)
    BY <1>1, <1>3, <1>4 DEF ClientMove
  <1>6. \A d \in Clients : KeepsPlace(d)
    BY <1>2, <1>4 DEF KeepsPlace, Rests
  <1>7. \A d \in Clients : Contains(backlog', d) => client'[d] = "Waiting" /\ conn'[d] = "None"
    BY <1>2, <1>3, <1>4 DEF QueuesKept, Rests
  <1>8. QueuesKept'
    BY <1>1, <1>2, <1>7 DEF QueuesKept
  <1> QED BY <1>2, <1>3, <1>5, <1>6, <1>8 DEF ClientsStepped

\* A client gets its answer.
LEMMA RespondStep ==
  ASSUME ConnTyped, ClientTyped, QueuesKept, backlog \in Seq(Clients), queue \in Seq(Clients),
         NEW c \in Clients, Respond(c), queue' = queue
  PROVE  ClientsStepped
  <1>1. /\ conn[c] \in {"Ok", "Error"} /\ backlog' = backlog /\ op' = op
        /\ conn' = [conn EXCEPT ![c] = "Done"] /\ client' = [client EXCEPT ![c] = conn[c]]
    BY DEF Respond
  <1>2. ConnTyped' /\ ClientTyped' /\ conn'[c] = "Done" /\ client'[c] = conn[c]
    BY <1>1 DEF ConnTyped, ClientTyped
  <1>3. \A d \in Clients : d # c => Rests(d)
    BY <1>1 DEF Rests, ConnTyped, ClientTyped
  <1>4. \A d \in Clients : ClientMove(d)
    BY <1>1, <1>2, <1>3 DEF ClientMove
  <1>5. \A d \in Clients : KeepsPlace(d)
    BY <1>1, <1>2, <1>3 DEF KeepsPlace, Rests
  <1>6. ~Contains(backlog, c) /\ ~Contains(queue, c)
    BY <1>1 DEF QueuesKept
  <1>7. QueuesKept'
    BY <1>1, <1>3, <1>6 DEF QueuesKept, Rests
  <1> QED BY <1>1, <1>2, <1>4, <1>5, <1>7 DEF ClientsStepped

\* What every step does to clients and queues.
LEMMA ClientStep ==
  ASSUME CommandTypeOK, QueuesKept, ClientsKept, Next PROVE ClientsStepped
  <1>1. ConnTyped /\ ClientTyped /\ backlog \in Seq(Clients) /\ queue \in Seq(Clients)
    BY DEF CommandTypeOK, ServerTypeOK, ConnTyped, ClientTyped
  <1>2. CASE UNCHANGED <<conn, op, client, backlog, queue>>
    <2>1. ConnTyped' /\ ClientTyped' /\ backlog' \in Seq(Clients) /\ queue' \in Seq(Clients)
      BY <1>1, <1>2 DEF ConnTyped, ClientTyped
    <2>2. QueuesKept'
      BY <1>2 DEF QueuesKept
    <2>3. \A c \in Clients : ClientMove(c) /\ KeepsPlace(c)
      BY <1>2 DEF ClientMove, Rests, KeepsPlace
    <2> QED BY <2>1, <2>2, <2>3 DEF ClientsStepped
  <1>3. CASE Cancel
    BY <1>1, <1>3, CancelStep
  <1>4. CASE Hangup /\ UNCHANGED <<conn, op, queue>>
    BY <1>1, <1>4, HangupStep
  <1>5. ASSUME NEW c \in Clients, NEW state \in Running, Become(c, state), queue' = queue,
               ClientMove(c), conn[c] \in Running \ {"Queued"}
        PROVE  ClientsStepped
    <2>1. ~Contains(queue, c) /\ Once(queue)
      BY <1>5 DEF QueuesKept
    <2> QED BY <1>1, <1>5, <2>1, ThreadStep
  <1>6. ASSUME NEW state \in {"Served", "Error"}, queue # <<>>, Become(Head(queue), state),
               queue' = Tail(queue)
        PROVE  ClientsStepped
    <2> DEFINE c == Head(queue)
    <2>1. /\ c \in Clients /\ queue' \in Seq(Clients) /\ Once(queue') /\ conn[c] = "Queued"
          /\ ~Contains(queue', c) /\ \A d : Contains(queue', d) => Contains(queue, d)
      BY <1>1, <1>6, QueueTail DEF QueuesKept
    <2>2. Become(c, state)
      BY <1>6
    <2> HIDE DEF c
    <2>3. ClientMove(c) /\ state \in Running /\ conn[c] \in Running
      BY <1>1, <2>1, <2>2, OneThread DEF ClientMove, Moves, Running
    <2> QED BY <1>1, <2>1, <2>2, <2>3, ThreadStep
  <1>7. CASE TakeRequest
    BY <1>6, <1>7 DEF TakeRequest
  <1>8. CASE Complete
    <2>1. PICK c \in Clients : conn[c] = "Served" /\ Become(c, "Ok") /\ queue' = queue
      BY <1>8 DEF Complete
    <2>2. ClientMove(c)
      BY <1>1, <2>1, OneThread DEF ClientMove, Moves, Running
    <2> QED BY <1>5, <2>1, <2>2 DEF Running
  <1>9. ASSUME NEW c \in Clients, ReadFails(c) \/ Query(c) \/ CallReturns(c), queue' = queue
        PROVE  ClientsStepped
    <2>1. PICK state \in {"Ok", "Error"} :
            /\ Become(c, state)
            /\ \/ conn[c] = "Line" /\ state = "Error"
               \/ conn[c] = "Line" /\ op[c] = "Query"
               \/ conn[c] = "Stopping" /\ life = "Stopped"
      BY <1>9 DEF ReadFails, Query, Called, CallReturns, StopDone
    <2>2. ClientMove(c)
      BY <1>1, <2>1, OneThread DEF ClientMove, Moves, Running
    <2> QED BY <1>5, <1>9, <2>1, <2>2 DEF Running
  <1>10. ASSUME NEW c \in Clients, Submit(c) PROVE ClientsStepped
    <2>1. conn[c] = "Line" /\ op[c] \in {"Pause", "Resume"} /\ ~Contains(queue, c)
      BY <1>10 DEF Submit, Called, QueuesKept
    <2>2. CASE Become(c, "Queued") /\ queue' = Append(queue, c)
      <3>1. /\ queue' \in Seq(Clients) /\ Once(queue')
            /\ \A d : Contains(queue', d) <=> Contains(queue, d) \/ d = c
        BY <1>1, <2>1, <2>2, QueueAppend DEF QueuesKept
      <3>2. ClientMove(c)
        BY <1>1, <2>1, <2>2, OneThread DEF ClientMove, Moves, Running
      <3> QED BY <1>1, <2>1, <2>2, <3>1, <3>2, ThreadStep DEF Running
    <2>3. CASE Become(c, "Error") /\ queue' = queue
      <3>1. ClientMove(c)
        BY <1>1, <2>1, <2>3, OneThread DEF ClientMove, Moves, Running
      <3> QED BY <1>5, <2>1, <2>3, <3>1 DEF Running
    <2> QED BY <1>10, <2>2, <2>3 DEF Submit
  <1>11. CASE Acquiring \/ Executing \/ Releasing \/ Kill
    <2>1. Serve /\ BindFails /\ queue' = queue => Hangup /\ UNCHANGED <<conn, op, queue>>
      BY DEF BindFails
    <2> QED BY <1>2, <1>3, <1>4, <1>6, <1>7, <1>8, <1>11, <2>1, MainClients
  <1>12. CASE Elsewhere
    <2>1. JoinConnections /\ queue' = queue => Hangup /\ UNCHANGED <<conn, op, queue>>
      BY DEF JoinConnections
    <2>2. Accept /\ queue' = queue => ClientsStepped
      BY <1>1, AcceptStep
    <2>3. ASSUME NEW c \in Clients, CallStop(c) PROVE ClientsStepped
      BY <1>1, <2>3, CallStopStep
    <2>4. ASSUME NEW c \in Clients, Respond(c), queue' = queue PROVE ClientsStepped
      BY <1>1, <2>4, RespondStep
    <2>5. ASSUME NEW c \in Clients, NEW operation \in Operations \cup {"None"}, Connect(c, operation),
                 queue' = queue
          PROVE  ClientsStepped
      BY <1>1, <2>5, ConnectStep
    <2> QED BY <1>2, <1>3, <1>4, <1>9, <1>10, <1>12, <2>1, <2>2, <2>3, <2>4, <2>5, OtherClients
  <1>13. CASE UNCHANGED <<vm, terminalVars, serverVars, netVars>>
    BY <1>2, <1>13 DEF vm, serverVars
  <1> QED BY <1>11, <1>12, <1>13, Steps

\* The listener is dropped with an empty backlog: by a Server::bind that fails, or by
\* the server's thread at its end, which has joined every connection.
LEMMA ListenerStep ==
  ASSUME TerminalPhase, ServerPhase, ClientsKept, Next, server' \in {"None", "Done"}
  PROVE  /\ server' = server \/ JoinConnections
         /\ ~HasListener' => backlog' = <<>>
  <1> USE DEF ServerPhase, Early, Binding, HasListener
  <1>1. CASE Acquiring
    <2>1. CASE OpenNet \/ NewTerminal \/ Bind
      BY <2>1 DEF OpenNet, NewTerminal, Bind, At, serverVars, ClientsKept
    <2>2. CASE Serve
      BY <2>2 DEF Serve, BindFile, ReadIdentity, BindFails, RemoveFile, Hangup, Spawn, At,
         serverVars, ClientsKept
    <2> QED BY <1>1, <2>1, <2>2 DEF Acquiring
  <1>2. CASE Executing
    BY <1>2 DEF Executing, Begin, StartVm, TakeRequest, Complete, PollSerial, LeaveLoop,
       GuestEnds, Leave, BarrierFails, Become, Cancel, Conns, At, serverVars, ClientsKept
  <1>3. CASE Releasing
    BY <1>3 DEF Releasing, Restore, Clean, JoinVcpus, Close, Finish, Cancel, Conns, DropServer,
       StopServer, RemoveFile, AfterServer, EndGuard, At, serverVars, ClientsKept
  <1>4. CASE Kill
    <2>1. ~Over
      BY Steps
    <2> QED BY <1>4, <2>1 DEF Kill, Over, TerminalPhase, serverVars, ClientsKept
  <1>5. CASE Elsewhere
    <2>1. main' = main
      BY <1>5, ElsewhereKeeps
    <2>2. CASE TermThread \/ Console \/ Framework
      BY <2>1, <2>2 DEF TermThread, Console, Framework, Cancel, Conns, serverVars, ClientsKept
    <2>3. CASE ServerThread \/ AcceptFails
      BY <2>1, <2>3 DEF ServerThread, AcceptFails, Accept, LeaveAccept, JoinConnections, Hangup,
         ClientsKept
    <2>4. CASE \E c \in Clients : Connection(c)
      BY <2>1, <2>4 DEF Connection, Submit, CallStop, ReadFails, Query, CallReturns, Respond,
         Become, Conns, ClientsKept
    <2>5. CASE Network
      BY <2>1, <2>5 DEF Network, Listening, Connect, Replace, ClientsKept
    <2> QED BY <1>5, <2>2, <2>3, <2>4, <2>5 DEF Elsewhere
  <1>6. CASE DiskWork /\ UNCHANGED <<vm, terminalVars, serverVars, netVars>>
    BY <1>6, DiskStepKeeps DEF serverVars, ClientsKept
  <1> QED BY <1>1, <1>2, <1>3, <1>4, <1>5, <1>6, Steps

\* A client that waits keeps its place or its thread.
LEMMA ClientsKeptStep ==
  ASSUME CommandTypeOK, TerminalPhase, ServerPhase, QueuesKept, ClientsKept, Next PROVE ClientsKept'
  <1>1. ClientsStepped /\ ConnTyped /\ ClientTyped
    BY ClientStep DEF CommandTypeOK, ServerTypeOK, ConnTyped, ClientTyped
  <1>2. ASSUME server' \in {"None", "Done"} PROVE Active' = {}
    <2>1. CASE JoinConnections
      BY <2>1 DEF JoinConnections, Joined, Active
    <2>2. CASE server' = server
      <3>1. Active = {} /\ server # "Loop"
        BY <1>2, <2>2 DEF ClientsKept
      <3>2. ASSUME NEW c \in Clients PROVE conn'[c] \notin Running
        <4>1. ClientMove(c) /\ conn[c] \notin Running
          BY <1>1, <3>1 DEF ClientsStepped, Active
        <4> QED BY <3>1, <4>1 DEF ClientMove, Rests, Moves, Running
      <3> QED BY <3>2 DEF Active
    <2> QED BY <1>2, <2>1, <2>2, ListenerStep
  <1>3. ASSUME server' \in {"None", "Done"}, ~HasListener' PROVE backlog' = <<>>
    BY <1>3, ListenerStep
  <1>4. ASSUME NEW c \in Clients, client'[c] = "Idle" PROVE conn'[c] = "None"
    <2>1. ClientMove(c) /\ (client[c] = "Idle" => conn[c] = "None")
      BY <1>1 DEF ClientsStepped, ClientsKept
    <2>2. Contains(backlog, c) => client[c] = "Waiting"
      BY DEF QueuesKept
    <2> QED BY <1>4, <2>1, <2>2 DEF ClientMove, Rests, Moves
  <1>5. ASSUME NEW c \in Clients, client'[c] = "Waiting"
        PROVE  Contains(backlog', c) \/ conn'[c] \in Running
    <2>1. ClientMove(c) /\ KeepsPlace(c)
      BY <1>1 DEF ClientsStepped
    <2>2. CASE client[c] = "Idle"
      BY <1>5, <2>1, <2>2 DEF KeepsPlace
    <2>3. CASE client[c] = "Waiting" /\ Contains(backlog, c)
      BY <1>5, <2>1, <2>3 DEF KeepsPlace, Running
    <2>4. CASE client[c] = "Waiting" /\ conn[c] \in Running
      BY <1>5, <2>1, <2>4 DEF ClientMove, Rests, Moves, Running
    <2>5. client[c] \in {"Idle", "Waiting"}
      BY <1>5, <2>1 DEF ClientMove, Rests, Moves, QueuesKept
    <2> QED BY <2>2, <2>3, <2>4, <2>5 DEF ClientsKept
  <1> QED BY <1>2, <1>3, <1>4, <1>5 DEF ClientsKept

\* A VM that is Stopped stays so.
LEMMA StoppedStays ==
  ASSUME Next, life = "Stopped" PROVE life' = "Stopped"
  <1>1. CASE Acquiring \/ Kill
    BY <1>1 DEF Acquiring, OpenNet, NewTerminal, Bind, Serve, Kill, vm
  <1>2. CASE Executing
    BY <1>2 DEF Executing, Begin, StartVm, TakeRequest, Complete, PollSerial, LeaveLoop, GuestEnds,
       Leave, BarrierFails, SameVm, VM!Begin, VM!Boot, VM!Announce, VM!Quiesce, VM!Release,
       VM!Pause, VM!Resume, VM!Terminate, vm
  <1>3. CASE Releasing
    BY <1>3 DEF Releasing, Restore, Clean, JoinVcpus, Close, Finish, DropServer, EndGuard, SameVm,
       VM!Terminate, VM!Join, VM!Finish, vm
  <1>4. CASE Elsewhere
    BY <1>4, ElsewhereStops
  <1>5. CASE UNCHANGED vm
    BY <1>5 DEF vm
  <1> QED BY <1>1, <1>2, <1>3, <1>4, <1>5, Steps

\* An answer stands for what it says.
LEMMA AnswersStep ==
  ASSUME CommandTypeOK, QueuesKept, ClientsKept, AnswersKept, Next PROVE AnswersKept'
  <1> SUFFICES ASSUME NEW c \in Clients
               PROVE  /\ conn'[c] \in {"Queued", "Served"} => op'[c] \in {"Pause", "Resume"}
                      /\ op'[c] = "Stop" /\ (conn'[c] = "Ok" \/ client'[c] = "Ok") => life' = "Stopped"
    BY DEF AnswersKept
  <1>1. /\ ClientMove(c)
        /\ conn[c] \in {"Queued", "Served"} => op[c] \in {"Pause", "Resume"}
        /\ op[c] = "Stop" /\ (conn[c] = "Ok" \/ client[c] = "Ok") => life = "Stopped"
        /\ client[c] = "Idle" => conn[c] = "None"
        /\ Contains(backlog, c) => client[c] = "Waiting" /\ conn[c] = "None"
    BY ClientStep DEF ClientsStepped, AnswersKept, ClientsKept, QueuesKept
  <1>2. life = "Stopped" => life' = "Stopped"
    BY StoppedStays
  <1> QED BY <1>1, <1>2 DEF ClientMove, Rests, Moves

(***************************************************************************)
(* Types.                                                                  *)
(***************************************************************************)
\* A set of naturals has a least element.
LEMMA Least ==
  ASSUME NEW T, T \subseteq Nat, T # {} PROVE Min(T) \in T
  <1> DEFINE R == OpToRel(<, Nat)
  <1>1. PICK x \in T : \A y \in T : ~ (<<y, x>> \in R)
    <2>1. IsWellFoundedOn(R, Nat)
      BY NatLessThanWellFounded, Zenon
    <2> HIDE DEF R
    <2> QED BY <2>1, WFMin
  <1>2. \A y \in T : ~ (y < x)
    BY <1>1 DEF OpToRel
  <1>3. \A y \in T : x =< y
    BY <1>2
  <1> QED BY <1>3 DEF Min

\* Where the first escape of what was read is, if there is one.
LEMMA Place ==
  ASSUME NEW q \in Seq({"key", "escape"})
  PROVE  SelectInSeq(q, LAMBDA key : key = "escape") \in 0..Len(q)
  <1> DEFINE T == {i \in 1..Len(q) : q[i] = "escape"}
  <1>1. Len(q) \in Nat /\ T \subseteq Nat /\ T \subseteq 1..Len(q)
    OBVIOUS
  <1>2. T # {} => Min(T) \in T
    BY <1>1, Least
  <1>3. SelectInSeq(q, LAMBDA key : key = "escape") = IF T # {} THEN Min(T) ELSE 0
    BY DEF SelectInSeq
  <1> HIDE DEF T
  <1> QED BY <1>1, <1>2, <1>3

\* A pass of the loop reads no more than there is room for.
LEMMA PollTyped ==
  ASSUME TerminalTypeOK, PollInput
  PROVE  input' \in Seq({"key", "escape"}) /\ fifo' \in 0..FifoSize
  <1> DEFINE size  == IF Room < Len(input) THEN Room ELSE Len(input)
             taken == SubSeq(input, 1, size)
             place == SelectInSeq(taken, LAMBDA key : key = "escape")
  <1>1. /\ FifoSize \in Nat /\ fifo \in 0..FifoSize /\ input \in Seq({"key", "escape"})
        /\ Len(input) \in Nat
    BY TerminalAssumption DEF TerminalTypeOK
  <1>2. Room \in Nat /\ size \in Nat /\ size <= Room /\ size <= Len(input)
    BY <1>1 DEF Room
  <1>3. /\ input' = SubSeq(input, Len(taken) + 1, Len(input))
        /\ fifo' = fifo + (IF place = 0 THEN Len(taken) ELSE place - 1)
    BY DEF PollInput
  <1> HIDE DEF size
  <1>4. taken \in Seq({"key", "escape"}) /\ Len(taken) = size
    BY <1>1, <1>2
  <1>5. place \in 0..Len(taken)
    BY <1>4, Place
  <1> HIDE DEF taken, place
  <1>6. input' \in Seq({"key", "escape"})
    BY <1>1, <1>2, <1>3, <1>4
  <1>7. fifo' \in 0..FifoSize
    BY <1>1, <1>2, <1>3, <1>4, <1>5 DEF Room
  <1> QED BY <1>6, <1>7

\* The interface.
LEMMA NetTyped ==
  ASSUME CommandTypeOK, NetPhase', Next PROVE NetTypeOK'
  <1>1. NetTypeOK /\ stops' \in 0..2
    BY DEF CommandTypeOK, NetPhase
  <1>2. CASE UNCHANGED netVars
    BY <1>1, <1>2 DEF NetTypeOK, netVars
  <1>3. CASE OpenNet \/ Close \/ Framework
    BY <1>1, <1>3 DEF NetTypeOK, netVars, OpenNet, Close, Framework, Start, NotStarted, Opened,
       GiveUp, Drop, close, Stopped, StopCompletes, StartCompletes
  <1>4. CASE Acquiring \/ Kill
    BY <1>2, <1>3, <1>4 DEF Acquiring, NewTerminal, Bind, Serve, Kill
  <1>5. CASE Executing
    BY <1>2, <1>5 DEF Executing, Begin, StartVm, TakeRequest, Complete, PollSerial, LeaveLoop,
       GuestEnds, Leave, BarrierFails
  <1>6. CASE Releasing
    BY <1>2, <1>3, <1>6 DEF Releasing, Restore, Clean, JoinVcpus, Finish, DropServer, EndGuard
  <1>7. CASE Elsewhere
    BY <1>2, <1>3, <1>7 DEF Elsewhere, TermThread, ServerThread, AcceptFails, Connection, Network,
       Console
  <1> QED BY <1>2, <1>4, <1>5, <1>6, <1>7, Steps

\* The terminal.
LEMMA TerminalTyped ==
  ASSUME CommandTypeOK, Next PROVE TerminalTypeOK'
  <1>1. TerminalTypeOK
    BY DEF CommandTypeOK
  <1>2. CASE UNCHANGED terminalVars
    BY <1>1, <1>2 DEF TerminalTypeOK, terminalVars, tty, guard
  <1>3. ASSUME UNCHANGED <<input, fifo, byte>>, terminal' \in {"Own", "Raw"},
               signals' \in {"Default", "Caught", "Ignored"},
               term' \in {"None", "Read", "Check", "Stop", "Wait", "Done"},
               closing' = closing \/ closing' = TRUE
        PROVE  TerminalTypeOK'
    BY <1>1, <1>3 DEF TerminalTypeOK
  <1>4. CASE NewTerminal \/ Bind \/ Restore \/ EndGuard
    BY <1>1, <1>2, <1>3, <1>4 DEF TerminalTypeOK, NewTerminal, Bind, Restore, EndGuard, Guard,
       GuardFails, Raw, RawFails, bind, DropTerminal, RestoredMode, DropGuard, tty, guard
  <1>5. CASE PollSerial
    <2>1. PollInput /\ UNCHANGED <<tty, term, closing>>
      BY <1>5 DEF PollSerial, PollInput
    <2>2. byte' \in BOOLEAN
      BY <1>1, <2>1, Zenon DEF PollInput, Notify, TerminalTypeOK
    <2> QED BY <1>1, <2>1, <2>2, PollTyped DEF TerminalTypeOK, tty
  <1>6. CASE TermThread
    <2>1. CASE ReadNotice
      BY <1>1, <2>1 DEF TerminalTypeOK, ReadNotice, tty
    <2>2. CASE CheckClosing \/ StopVm \/ StopReturns
      BY <1>1, <1>3, <2>2 DEF TerminalTypeOK, CheckClosing, StopVm, StopReturns, tty
    <2> QED BY <1>6, <2>1, <2>2 DEF TermThread
  <1>7. CASE Console
    <2>1. CASE \E key \in {"key", "escape"} : Type(key)
      BY <1>1, <2>1 DEF TerminalTypeOK, Type, tty, guard
    <2>2. CASE SignalCaught
      <3>1. byte' \in BOOLEAN
        BY <1>1, <2>2, Zenon DEF SignalCaught, Notify, TerminalTypeOK
      <3> QED BY <1>1, <2>2, <3>1 DEF TerminalTypeOK, SignalCaught, tty
    <2>3. CASE GuestReads
      BY <1>1, <2>3, TerminalAssumption DEF TerminalTypeOK, GuestReads, tty, guard
    <2> QED BY <1>7, <2>1, <2>2, <2>3 DEF Console
  <1>8. CASE Acquiring \/ Kill
    BY <1>2, <1>4, <1>8 DEF Acquiring, OpenNet, Serve, Kill
  <1>9. CASE Executing
    BY <1>2, <1>5, <1>9 DEF Executing, Begin, StartVm, TakeRequest, Complete, LeaveLoop, GuestEnds,
       Leave, BarrierFails
  <1>10. CASE Releasing
    BY <1>2, <1>4, <1>10 DEF Releasing, Clean, JoinVcpus, Close, Finish, DropServer
  <1>11. CASE Elsewhere
    BY <1>2, <1>6, <1>7, <1>11 DEF Elsewhere, ServerThread, AcceptFails, Connection, Network,
       Framework
  <1> QED BY <1>2, <1>8, <1>9, <1>10, <1>11, Steps

\* The control server.
LEMMA ServerTyped ==
  ASSUME CommandTypeOK, QueuesKept, ClientsKept, Next PROVE ServerTypeOK'
  <1> DEFINE Own ==
        /\ server' \in {"None", "Loop", "Join", "Done"}
        /\ file' \in {"None", "Own", "Other"} /\ identity' \in {"None", "Own", "Other"}
        /\ host' \in {"Quiet", "Found", "Replaced", "Raced"}
        /\ stopFlag' = stopFlag \/ stopFlag' = TRUE
  <1>1. /\ ServerTypeOK /\ ConnTyped' /\ ClientTyped' /\ backlog' \in Seq(Clients)
    BY ClientStep DEF CommandTypeOK, ClientsStepped
  <1>2. Own
    <2>1. CASE UNCHANGED <<server, stopFlag, socket>>
      BY <1>1, <2>1 DEF ServerTypeOK, socket
    <2>2. CASE Serve \/ DropServer
      BY <1>1, <2>2 DEF ServerTypeOK, Serve, DropServer, BindFile, ReadIdentity, BindFails, Spawn,
         StopServer, RemoveFile, serverVars, socket
    <2>3. CASE Acquiring \/ Kill
      BY <2>1, <2>2, <2>3 DEF Acquiring, OpenNet, NewTerminal, Bind, Kill, serverVars
    <2>4. CASE Executing
      BY <2>1, <2>4 DEF Executing, Begin, StartVm, TakeRequest, Complete, PollSerial, LeaveLoop,
         GuestEnds, Leave, BarrierFails, Cancel, Become, Conns, serverVars
    <2>5. CASE Releasing
      BY <2>1, <2>2, <2>5 DEF Releasing, Restore, Clean, JoinVcpus, Close, Finish, EndGuard,
         Cancel, Conns, serverVars
    <2>6. CASE ServerThread \/ AcceptFails
      BY <1>1, <2>6 DEF ServerTypeOK, ServerThread, AcceptFails, Accept, LeaveAccept,
         JoinConnections, socket
    <2>7. CASE Network
      BY <1>1, <2>7 DEF ServerTypeOK, Network, Connect, Replace, socket
    <2>8. CASE TermThread \/ (\E c \in Clients : Connection(c)) \/ Console \/ Framework
      BY <2>1, <2>8 DEF TermThread, Connection, Console, Framework, Submit, CallStop, ReadFails,
         Query, CallReturns, Respond, Become, Cancel, Conns, serverVars
    <2>9. CASE UNCHANGED serverVars
      BY <2>1, <2>9 DEF serverVars
    <2> QED BY <2>3, <2>4, <2>5, <2>6, <2>7, <2>8, <2>9, Steps DEF Elsewhere
  <1>3. stopFlag' \in BOOLEAN
    BY <1>1, <1>2 DEF ServerTypeOK
  <1> QED BY <1>1, <1>2, <1>3 DEF ServerTypeOK, ConnTyped, ClientTyped

\* The VM and the main thread.
LEMMA VmTyped ==
  ASSUME CommandTypeOK, Next
  PROVE  /\ main' \in {"Disks", "Net", "Guard", "Raw", "Bind", "Serve", "Meta", "Spawn", "Begin",
                       "Start", "Announce", "Loop", "Complete", "Restore", "Clean", "Join", "Close",
                       "Release", "Finish", "StopServer", "JoinServer", "CheckFile", "Remove",
                       "CheckBound", "RemoveBound", "Unbind", "DropGuard", "JoinTerm", "Undo", "Abandon",
                       "End", "Killed"}
         /\ life' \in {"Created", "Starting", "Running", "Paused", "Stopping", "Stopped"}
         /\ vcpus' \in {"None", "Running", "Paused", "Joined"}
         /\ ran' = ran \/ ran' = TRUE
  <1> USE DEF CommandTypeOK, At, vm
  <1>1. CASE Acquiring \/ Kill
    BY <1>1 DEF Acquiring, OpenNet, NewTerminal, Bind, Serve, Kill
  <1>2. CASE Executing
    BY <1>2 DEF Executing, Begin, StartVm, TakeRequest, Complete, PollSerial, LeaveLoop, GuestEnds,
       Leave, BarrierFails, Cancel, SameVm, VM!Begin, VM!Boot, VM!Announce, VM!Quiesce, VM!Release,
       VM!Pause, VM!Resume, VM!Terminate
  <1>3. CASE Releasing
    BY <1>3 DEF Releasing, Restore, Clean, JoinVcpus, Close, Finish, DropServer, AfterServer,
       EndGuard, Cancel, SameVm, VM!Terminate, VM!Join, VM!Finish
  <1>4. CASE Elsewhere
    BY <1>4, ElsewhereKeeps, ElsewhereStops
  <1>5. CASE DiskWork /\ UNCHANGED vm
    BY <1>5, DiskStepKeeps
  <1> QED BY <1>1, <1>2, <1>3, <1>4, <1>5, Steps

(***************************************************************************)
(* The theorems.                                                           *)
(***************************************************************************)
\* The command begins with nothing of its own.
LEMMA InitInv == ASSUME Init PROVE DemoInv
  <1> USE DEF Init, VM!Init, NetInit, TerminalInit, ServerInit, ImageInit
  <1>1. /\ byte \in BOOLEAN /\ closing \in BOOLEAN /\ stopFlag \in BOOLEAN /\ lost \in BOOLEAN
        /\ ran \in BOOLEAN
    BY Zenon
  <1>2. NetTypeOK /\ TerminalTypeOK /\ ServerTypeOK
    BY <1>1, TerminalAssumption DEF NetTypeOK, TerminalTypeOK, ServerTypeOK
  <1>3. /\ disk \in [Disks -> DiskType]
        /\ \A d \in Disks : disk[d].stage = "None" /\ disk[d].io = "None" /\ ~disk[d].dirty
    BY DEF DiskType, Closed
  <1>4. CommandTypeOK
    BY <1>1, <1>2, <1>3 DEF CommandTypeOK, ImageTypeOK, DiskType, Inodes, Nobody, Modes
  <1>5. TerminalPhase /\ ServerPhase /\ NetPhase /\ LifePhase /\ SocketPhase
    BY DEF TerminalPhase, ServerPhase, NetPhase, LifePhase, SocketPhase, Gone, Early, Binding
  <1>6. LocksExclude /\ DiskPhase
    BY <1>3 DEF LocksExclude, Held, DiskPhase, DiskKnown, Gone
  <1>7. QueuesKept /\ ClientsKept /\ AnswersKept
    BY DEF QueuesKept, Once, Contains, ClientsKept, Active, Running, AnswersKept
  <1> QED BY <1>4, <1>5, <1>6, <1>7 DEF DemoInv

\* No step breaks it.
LEMMA NextInv == ASSUME DemoInv, Next PROVE DemoInv'
  <1> USE DEF DemoInv
  <1>1. TerminalPhase' /\ ServerPhase' /\ NetPhase' /\ LifePhase' /\ SocketPhase'
    BY TerminalStep, ServerStep, NetStep, LifeStep, SocketStep
  <1>2. ImageTypeOK' /\ LocksExclude' /\ DiskPhase'
    BY DiskPhaseStep
  <1>3. QueuesKept' /\ ClientsKept' /\ AnswersKept' /\ queue' \in Seq(Clients)
    BY ClientStep, ClientsKeptStep, AnswersStep DEF ClientsStepped
  <1>4. NetTypeOK' /\ TerminalTypeOK' /\ ServerTypeOK' /\ setting' = setting
    BY <1>1, NetTyped, TerminalTyped, ServerTyped, Steps
  <1>5. CommandTypeOK'
    BY <1>2, <1>3, <1>4, VmTyped DEF CommandTypeOK
  <1> QED BY <1>1, <1>2, <1>3, <1>5

\* Neither does none.
LEMMA StutterInv == ASSUME DemoInv, UNCHANGED vars PROVE DemoInv'
  <1> USE DEF DemoInv, vars, vm, terminalVars, tty, guard, serverVars, socket, netVars, imageVars
  <1>1. CommandTypeOK'
    BY DEF CommandTypeOK, NetTypeOK, TerminalTypeOK, ServerTypeOK, ImageTypeOK
  <1>2. TerminalPhase' /\ ServerPhase' /\ NetPhase' /\ LifePhase' /\ SocketPhase'
    BY DEF TerminalPhase, ServerPhase, NetPhase, Released, LifePhase, SocketPhase, Gone
  <1>3. LocksExclude' /\ DiskPhase'
    BY DEF LocksExclude, Held, Readonly, DiskPhase, DiskKnown, validate_header, AllClosed, Gone
  <1>4. QueuesKept' /\ ClientsKept' /\ AnswersKept'
    BY DEF QueuesKept, ClientsKept, HasListener, Active, AnswersKept
  <1> QED BY <1>1, <1>2, <1>3, <1>4

\* The inductive invariant holds in every state of the command.
THEOREM DemoInvariant == Spec => []DemoInv
  <1>1. Init => DemoInv
    BY InitInv
  <1>2. DemoInv /\ [Next]_vars => DemoInv'
    BY NextInv, StutterInv
  <1> QED BY <1>1, <1>2, PTL DEF Spec

\* The state of the command stays what its types say: the requests and the backlog
\* name clients, and the UART never holds more than it has room for.
THEOREM DemoTyped == Spec => []CommandTypeOK
  <1>1. DemoInv => CommandTypeOK
    BY DEF DemoInv
  <1> QED BY <1>1, DemoInvariant, PTL

\* What the invariant says of terminal, interface, socket and disks.
LEMMA InvRestored == ASSUME DemoInv PROVE Restored
  <1>1. TerminalRestored
    BY DEF DemoInv, CommandTypeOK, TerminalTypeOK, TerminalPhase, NetPhase, LifePhase, TerminalRestored,
       Over, Gone, Early
  <1>2. InterfaceStopped
    BY DEF DemoInv, NetPhase, InterfaceStopped, Gone
  <1>3. SocketCleaned
    BY DEF DemoInv, SocketPhase, SocketCleaned
  <1>4. DisksExclusive(Readonly)
    <2> SUFFICES ASSUME NEW d \in Disks, disk[d].stage = "Open"
                 PROVE  /\ disk[d].io = disk[d].lock
                        /\ validate_header(images[disk[d].io]) /\ disk[d].size = images[disk[d].io].size
                        /\ \A e \in Disks \ {d} : disk[e].io = disk[d].io => Readonly
                        /\ other.lock = disk[d].io => Readonly /\ other.mode = "Shared"
      BY DEF DisksExclusive
    <2>1. /\ disk[d].io = disk[d].lock /\ validate_header(images[disk[d].lock])
          /\ disk[d].size = images[disk[d].lock].size
          /\ disk[d].lock \in Inodes
          /\ other.lock = disk[d].lock => Readonly /\ other.mode = "Shared"
      BY DEF DemoInv, DiskPhase, DiskKnown, LocksExclude, Held
    <2>2. ASSUME NEW e \in Disks \ {d}, disk[e].io = disk[d].io PROVE Readonly
      <3>1. disk[e].io # "None"
        BY <2>1, <2>2 DEF Inodes
      <3>2. disk[e].stage = "Open" /\ disk[e].lock = disk[d].lock
        BY <2>1, <2>2, <3>1 DEF DemoInv, DiskPhase, DiskKnown
      <3> QED BY <3>2 DEF DemoInv, LocksExclude, Held
    <2> QED BY <2>1, <2>2
  <1>5. DisksReleased
    <2>1. main = "End" \/ (ran /\ life = "Stopped") => AllClosed
      BY DEF DemoInv, DiskPhase, LifePhase, Gone
    <2>2. ASSUME NEW d \in Disks, Over \/ AllClosed, disk[d].dirty PROVE lost
      <3>1. ~(main \in Early)
        BY <2>2 DEF DemoInv, DiskPhase
      <3>2. AllClosed
        BY <2>1, <2>2, <3>1 DEF Over, Early
      <3> QED BY <2>2, <3>2 DEF AllClosed, DemoInv, DiskPhase, DiskKnown
    <2> QED BY <2>1, <2>2 DEF DisksReleased
  <1> QED BY <1>1, <1>2, <1>3, <1>4, <1>5 DEF Restored

\* However the command ends, whatever fails on the way: the terminal is as it was and
\* never raw while a signal could kill, an interface that was started is stopped once,
\* the path has no socket of ours and keeps what others put there, the disks are closed,
\* synced and nobody else's while they were written to.
THEOREM EverythingGivenBack == Spec => []Restored
  <1>1. DemoInv => Restored
    BY InvRestored
  <1> QED BY <1>1, DemoInvariant, PTL

\* What it says of the clients.
LEMMA InvHonest == ASSUME DemoInv PROVE RepliesHonest
  <1>1. ASSUME main = "End", NEW c \in Clients
        PROVE  conn[c] \in {"None", "Done"} /\ client[c] # "Waiting"
    <2>1. server \in {"None", "Done"} /\ Active = {} /\ backlog = <<>>
      BY <1>1 DEF DemoInv, ServerPhase, ClientsKept, HasListener
    <2>2. conn[c] \in {"None", "Done"} \cup Running /\ conn[c] \notin Running
      BY <2>1 DEF DemoInv, CommandTypeOK, ServerTypeOK, Active
    <2>3. ~Contains(backlog, c)
      BY <2>1 DEF Contains
    <2> QED BY <2>2, <2>3 DEF DemoInv, ClientsKept
  <1>2. ASSUME NEW c \in Clients, op[c] = "Stop", client[c] = "Ok"
        PROVE  life = "Stopped" /\ vcpus \in {"None", "Joined"}
    BY <1>2 DEF DemoInv, AnswersKept, LifePhase
  <1> QED BY <1>1, <1>2 DEF RepliesHonest

\* However many clients there are: the command does not exit on one that waits, and who
\* was told that its stop succeeded knows a stopped VM, without a vCPU.
THEOREM AnswersAreHonest == Spec => []RepliesHonest
  <1>1. DemoInv => RepliesHonest
    BY InvHonest
  <1> QED BY <1>1, DemoInvariant, PTL
==============================================================================
