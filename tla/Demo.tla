-------------------------------- MODULE Demo ---------------------------------
(***************************************************************************)
(* demo/src/main.rs: the w-vmm command running one VM.  The main thread    *)
(* opens disks and a vmnet interface, takes over the terminal, binds the   *)
(* stop thread and the control server, runs the VM and gives everything    *)
(* back; any of these may fail.  The other threads, and what acts from     *)
(* outside, are those of Terminal, ControlServer, Vmnet and DiskImage.     *)
(*                                                                         *)
(* The VM is module VmLifecycle, which module RunThread implements.        *)
(***************************************************************************)
EXTENDS Terminal, ControlServer, Vmnet, DiskImage

CONSTANT Settings   \* the command lines and surroundings looked at

ASSUME SettingAssumption ==
  Settings \subseteq SUBSET {"--disk", "--read-only", "--net", "--control-socket",
                             "clients", "keys", "signals", "rival"}

VARIABLES
  setting,           \* the command line's options, and who acts from outside
  main,              \* the main thread
  life, vcpus,       \* the VM
  queue,             \* requests that its run loop has not taken
  ran                \* Vmm::run has begun

vm == <<life, vcpus, queue, ran>>
vars == <<setting, main, vm, terminalVars, serverVars, netVars, imageVars>>

VM == INSTANCE VmLifecycle

CommandTypeOK ==
  /\ NetTypeOK /\ TerminalTypeOK /\ ServerTypeOK /\ ImageTypeOK /\ setting \in Settings
  /\ main \in {"Disks", "Net", "Guard", "Raw", "Bind", "Serve", "Meta", "Spawn", "Begin", "Start",
               "Announce", "Loop", "Complete", "Restore", "Clean", "Join", "Close", "Release",
               "Finish", "StopServer", "JoinServer", "CheckFile", "Remove", "CheckBound",
               "RemoveBound", "Unbind", "DropGuard", "JoinTerm", "Undo", "Abandon", "End", "Killed"}
  /\ life \in {"Created", "Starting", "Running", "Paused", "Stopping", "Stopped"}
  /\ vcpus \in {"None", "Running", "Paused", "Joined"}
  /\ queue \in Seq(Clients) /\ ran \in BOOLEAN

Init ==
  /\ NetInit /\ TerminalInit /\ ServerInit /\ ImageInit /\ VM!Init
  /\ setting \in Settings
  /\ "--disk" \notin setting => images = CHOOSE i \in Images : TRUE
  /\ (host = "Found" => "rival" \in setting)
  /\ main = "Disks" /\ queue = <<>> /\ ran = FALSE

(***************************************************************************)
(* The control handle, as VmLifecycle promises it.  A request is queued    *)
(* while the VM runs; whatever ends the VM answers all that are queued.    *)
(***************************************************************************)
SameVm == UNCHANGED <<life, vcpus>>
Cancelled == [c \in Clients |-> IF Contains(queue, c) THEN "Error" ELSE conn[c]]
Cancel == queue' = <<>> /\ Conns(Cancelled) /\ UNCHANGED ran

\* VmControl::stop, up to the wait.
stop ==
  \/ life = "Created" /\ VM!Finish
  \/ life \in {"Starting", "Running", "Paused"} /\ VM!Terminate
  \/ life \in {"Stopping", "Stopped"} /\ SameVm

(***************************************************************************)
(* The main thread up to Vmm::run.                                         *)
(***************************************************************************)
At(from, to) == main = from /\ main' = to

\* Every --disk is opened first, in the same mode; a failure drops those that were.
Readonly == "--read-only" \in setting
OpenDisks ==
  IF "--disk" \in setting
  THEN \/ /\ At("Disks", "Disks")
          /\ \E d \in Disks : OpenFile(d) \/ LockFile(d, Readonly) \/ OpenImage(d)
       \/ At("Disks", "Abandon") /\ \E d \in Disks : OpenFails(d)
       \/ At("Disks", "Net") /\ AllOpen /\ UNCHANGED imageVars
  ELSE At("Disks", "Net") /\ UNCHANGED imageVars

\* --net is optional; an interface that does not start ends the command.
OpenNet ==
  /\ \/ "--net" \in setting /\ Start /\ At("Net", "Net")
     \/ NotStarted /\ At("Net", IF "--net" \in setting THEN "Abandon" ELSE "Guard")
     \/ Opened /\ At("Net", "Guard")
     \/ (GiveUp \/ Stopped) /\ At("Net", "Net")
     \/ net = "Closed" /\ At("Net", "Abandon") /\ UNCHANGED netVars
  /\ UNCHANGED <<vm, terminalVars, serverVars>>

\* VirtioMem::new and Terminal::new; if one fails, run drops interface and disks, which
\* no VM owns yet.
NewTerminal ==
  /\ \/ At("Guard", "Raw") /\ Guard
     \/ At("Guard", "Abandon") /\ GuardFails
     \/ At("Raw", "Bind") /\ Raw
     \/ At("Raw", "Abandon") /\ RawFails
  /\ UNCHANGED <<vm, serverVars, netVars>>

\* A failed bind drops the Vmm.
Bind ==
  /\ \/ At("Bind", "Serve") /\ bind
     \/ At("Bind", "Close") /\ UNCHANGED terminalVars
  /\ UNCHANGED <<vm, serverVars, netVars>>

\* Server::bind, if a control socket is wanted.  A socket whose identity is not
\* known stays; a later failure drops the Server: before the listener, or behind
\* it when the thread that was to have the listener is not spawned.
Serve ==
  /\ IF "--control-socket" \in setting
     THEN \/ At("Serve", "Meta") /\ BindFile
          \/ At("Serve", "Close") /\ UNCHANGED serverVars
          \/ At("Meta", "Spawn") /\ ReadIdentity
          \/ At("Meta", "Close") /\ BindFails
          \/ At("Spawn", "Begin") /\ Spawn
          \/ At("Spawn", "CheckFile") /\ BindFails
          \/ At("Spawn", "CheckBound") /\ UNCHANGED serverVars
          \/ At("CheckBound", IF Ours THEN "RemoveBound" ELSE "Unbind") /\ UNCHANGED serverVars
          \/ At("RemoveBound", "Unbind") /\ RemoveFile
          \/ At("Unbind", "Close") /\ BindFails
     ELSE At("Serve", "Begin") /\ UNCHANGED serverVars
  /\ UNCHANGED <<vm, terminalVars, netVars>>

(***************************************************************************)
(* The main thread in Vmm::run.                                            *)
(***************************************************************************)
\* A VM that was stopped before is not run, and dropped.
Begin ==
  /\ \/ At("Begin", "Start") /\ VM!Begin /\ ran' = TRUE
     \/ At("Begin", "Close") /\ life # "Created" /\ SameVm /\ UNCHANGED ran
  /\ UNCHANGED <<queue, terminalVars, serverVars, netVars>>

\* runtime::run up to the loop.  The serial port is dropped where its owner fails:
\* by init or the loop before the cleanup, otherwise by run after it.
StartVm ==
  /\ \/ At("Start", "Announce") /\ VM!Boot
     \/ (At("Start", "Restore") \/ At("Start", "Undo")) /\ SameVm
     \/ At("Start", "Clean") /\ life = "Stopping" /\ SameVm
     \/ At("Announce", "Loop") /\ (VM!Announce \/ (life # "Starting" /\ SameVm))
  /\ UNCHANGED <<queue, ran, terminalVars, serverVars, netVars>>

\* The loop takes a request and moves the barrier ...
TakeRequest ==
  /\ At("Loop", "Complete") /\ life # "Stopping" /\ queue # <<>>
  /\ CASE op[Head(queue)] = "Pause" /\ vcpus = "Running" -> VM!Quiesce
       [] op[Head(queue)] = "Resume" /\ vcpus = "Paused" -> VM!Release
       [] OTHER                                          -> SameVm
  /\ Become(Head(queue), "Served")
  /\ queue' = Tail(queue)
  /\ UNCHANGED <<ran, terminalVars, netVars>>

\* ... and answers it, Ok also if the VM is stopping by now.
Complete ==
  /\ At("Complete", "Loop")
  /\ \E c \in Clients :
       /\ conn[c] = "Served" /\ Become(c, "Ok")
       /\ CASE op[c] = "Pause" /\ life = "Running" -> VM!Pause
            [] op[c] = "Resume" /\ life = "Paused" -> VM!Resume
            [] OTHER                               -> SameVm
  /\ UNCHANGED <<queue, ran, terminalVars, netVars>>

\* A barrier that fails ends the VM; one that finds it ending rejects every request.
BarrierFails ==
  /\ At("Loop", "Restore") /\ life # "Stopping" /\ queue # <<>>
  /\ \/ Become(Head(queue), "Error") /\ queue' = Tail(queue) /\ SameVm /\ UNCHANGED ran
     \/ Cancel /\ VM!Terminate
  /\ UNCHANGED <<terminalVars, netVars>>

\* A running VM polls its serial port after the requests.
PollSerial ==
  /\ At("Loop", "Loop") /\ life # "Stopping" /\ queue = <<>> /\ vcpus = "Running"
  /\ PollInput
  /\ UNCHANGED <<vm, serverVars, netVars>>

Leave(condition) ==
  At("Loop", "Restore") /\ condition /\ UNCHANGED <<vm, terminalVars, serverVars, netVars>>

LeaveLoop == Leave(life = "Stopping")
GuestEnds == Leave(vcpus = "Running")   \* a shutdown, or any error of the loop

\* The terminal is dropped at the end of the loop, or last.
Restore ==
  /\ At("Restore", "Clean") \/ At("Release", "Finish")
  /\ DropTerminal
  /\ UNCHANGED <<vm, serverVars, netVars>>

Clean ==
  /\ At("Clean", "Join")
  /\ VM!Terminate \/ (life = "Stopping" /\ SameVm)
  /\ Cancel
  /\ UNCHANGED <<terminalVars, netVars>>

JoinVcpus ==
  /\ At("Join", "Close")
  /\ VM!Join \/ (vcpus = "None" /\ SameVm)
  /\ UNCHANGED <<queue, ran, terminalVars, serverVars, netVars>>

\* The devices are dropped, in cleanup or with a Vmm that did not run, disks first;
\* the variables of main's run the other way round; and by a Runtime::new that fails
\* in an order that depends on where it does.
CloseDisks ==
  /\ \/ At("Close", "Close")
     \/ At("Abandon", "Abandon") /\ Released
     \/ At("Undo", "Undo") /\ net # "Stopping"
  /\ \E d \in Disks : CloseDisk(d)

Close ==
  /\ \/ /\ (At("Close", "Close") /\ AllClosed) \/ At("Abandon", "Abandon") \/ At("Undo", "Undo")
        /\ Drop \/ Stopped
     \/ /\ (At("Close", "Release") \/ At("Undo", "Release") \/ At("Abandon", "End"))
        /\ AllClosed /\ Released /\ UNCHANGED netVars
  /\ UNCHANGED <<vm, terminalVars, serverVars>>

\* finish, or dropped().
Finish ==
  /\ At("Finish", IF server = "None" THEN "DropGuard" ELSE "StopServer")
  /\ VM!Finish \/ (life = "Stopped" /\ SameVm)
  /\ Cancel
  /\ UNCHANGED <<terminalVars, netVars>>

(***************************************************************************)
(* The main thread after it: the server, if there is one, then the guard.  *)
(***************************************************************************)
AfterServer == IF server = "None" THEN "Close" ELSE "DropGuard"

DropServer ==
  /\ \/ At("StopServer", "JoinServer") /\ StopServer
     \/ At("JoinServer", "CheckFile") /\ server = "Done" /\ UNCHANGED serverVars
     \/ At("CheckFile", IF Ours THEN "Remove" ELSE AfterServer) /\ UNCHANGED serverVars
     \/ At("Remove", AfterServer) /\ RemoveFile
  /\ UNCHANGED <<vm, terminalVars, netVars>>

EndGuard ==
  /\ \/ At("DropGuard", "JoinTerm") /\ DropGuard
     \/ At("JoinTerm", "End") /\ term \in {"None", "Done"} /\ UNCHANGED terminalVars
  /\ UNCHANGED <<vm, serverVars, netVars>>

MainThread ==
  \/ OpenNet \/ NewTerminal \/ Bind \/ Serve \/ Begin \/ StartVm \/ TakeRequest \/ Complete
  \/ PollSerial \/ LeaveLoop \/ Restore \/ Clean \/ JoinVcpus \/ Close \/ Finish \/ DropServer \/ EndGuard

(***************************************************************************)
(* The other threads.                                                      *)
(***************************************************************************)
TermThread ==
  /\ \/ (ReadNotice \/ CheckClosing) /\ UNCHANGED <<vm, serverVars>>
     \/ StopVm /\ stop /\ Cancel
     \/ StopReturns /\ life = "Stopped" /\ UNCHANGED <<vm, serverVars>>
  /\ UNCHANGED <<main, netVars>>

ServerThread ==
  /\ Accept \/ (stopFlag /\ LeaveAccept) \/ JoinConnections
  /\ UNCHANGED <<main, vm, terminalVars, netVars>>

AcceptFails == LeaveAccept /\ UNCHANGED <<main, vm, terminalVars, netVars>>

\* pause and resume, up to the wait for the reply.
Submit(c) ==
  /\ Called(c, {"Pause", "Resume"})
  /\ IF life \in {"Running", "Paused"}
     THEN Become(c, "Queued") /\ queue' = Append(queue, c)
     ELSE Become(c, "Error") /\ UNCHANGED queue
  /\ SameVm /\ UNCHANGED ran

CallStop(c) ==
  /\ Called(c, {"Stop"}) /\ stop
  /\ Conns([Cancelled EXCEPT ![c] = "Stopping"]) /\ queue' = <<>> /\ UNCHANGED ran

\* MUTANT: a stop is answered before the VM has stopped.
StopDone_Early == life \in {"Stopping", "Stopped"}
StopDone == life = "Stopped"

\* It returns the result of the cleanup.
CallReturns(c) ==
  /\ conn[c] = "Stopping" /\ StopDone
  /\ \E result \in {"Ok", "Error"} : Become(c, result)

Connection(c) ==
  /\ \/ Submit(c) \/ CallStop(c)
     \/ (ReadFails(c) \/ Query(c) \/ CallReturns(c) \/ Respond(c)) /\ UNCHANGED vm
  /\ UNCHANGED <<main, terminalVars, netVars>>

(***************************************************************************)
(* Outside.                                                                *)
(***************************************************************************)
HasListener == main \in {"Meta", "Spawn", "CheckBound", "RemoveBound", "Unbind"}
Listening == HasListener \/ server \in {"Loop", "Join"}

\* Between bind and metadata and between check and removal the server does not
\* know whose file it has.
Network ==
  /\ \/ /\ "clients" \in setting /\ Listening
        /\ \E c \in Clients, operation \in Operations \cup {"None"} : Connect(c, operation)
     \/ "rival" \in setting /\ Replace(main \in {"Meta", "Remove", "RemoveBound"})
  /\ UNCHANGED <<main, vm, terminalVars, netVars>>

Console ==
  /\ \/ "keys" \in setting /\ \E key \in {"key", "escape"} : Type(key)
     \/ "signals" \in setting /\ SignalCaught
     \/ vcpus = "Running" /\ GuestReads
  /\ UNCHANGED <<main, vm, serverVars, netVars>>

Kill ==
  /\ "signals" \in setting /\ signals = "Default" /\ main' = "Killed"
  /\ UNCHANGED <<vm, terminalVars, serverVars, netVars>>

Framework ==
  /\ StopCompletes \/ \E result \in {"Parameters", "Error"} : StartCompletes(result)
  /\ UNCHANGED <<main, vm, terminalVars, serverVars>>

\* Others with the image and the path.  The guest's writes are those of a pass of
\* the loop.
GuestWrites ==
  /\ At("Loop", "Loop") /\ life # "Stopping" /\ vcpus = "Running" /\ ~Readonly
  /\ \E d \in Disks : WriteDisk(d)
Others ==
  /\ "--disk" \in setting /\ UNCHANGED main
  /\ Rename \/ OtherCloses \/ \E mode \in Modes : OtherOpens(mode, Mode(Readonly))

Over == main \in {"End", "Killed"}
Step(action) == ~Over /\ action /\ UNCHANGED <<setting, imageVars>>
DiskStep(action) ==
  ~Over /\ action /\ UNCHANGED <<setting, vm, terminalVars, serverVars, netVars>>

Next ==
  \/ Step(MainThread) \/ Step(BarrierFails) \/ Step(GuestEnds)
  \/ Step(TermThread) \/ Step(ServerThread) \/ Step(AcceptFails)
  \/ \E c \in Clients : Step(Connection(c))
  \/ Step(Network) \/ Step(Console) \/ Step(Kill) \/ Step(Framework)
  \/ DiskStep(OpenDisks) \/ DiskStep(CloseDisks) \/ DiskStep(GuestWrites) \/ DiskStep(Others)

(***************************************************************************)
(* Every thread keeps going: its waits end by a deadline, or by a step of  *)
(* another thread.  Nothing obliges the guest, clients, keys or signals,   *)
(* and the framework need not call back.                                   *)
(***************************************************************************)
Spec ==
  /\ Init /\ [][Next]_vars
  /\ WF_vars(Step(MainThread) \/ DiskStep(OpenDisks \/ CloseDisks))
  /\ WF_vars(Step(TermThread)) /\ WF_vars(Step(ServerThread))
  /\ \A c \in Clients : WF_vars(Step(Connection(c)))

(***************************************************************************)
(* Properties.                                                             *)
(***************************************************************************)
\* "SIGINT, SIGTERM and SIGHUP make the host stop the vCPUs, flush the disks and
\* restore the terminal": no way out of the command leaves the terminal raw, a
\* signal cannot end it while the terminal is, and a VM that has run is not
\* Stopped before terminal and interface are given back.
TerminalRestored ==
  /\ Over => terminal = "Own"
  /\ terminal = "Raw" => signals = "Caught"
  /\ ran /\ life = "Stopped" => terminal = "Own" /\ Released

\* An interface that was started is stopped once, also when its start was given
\* up or completed late.
InterfaceStopped ==
  /\ stops = IF net \in {"Stopping", "Closed"} THEN 1 ELSE 0
  /\ main = "End" => Released

\* "Refuses to overwrite an existing path, and at exit removes its own socket by
\* inode identity": what was there stays, what replaced the socket stays unless it
\* came in one of the two windows, and nothing of ours is left behind unless its
\* identity was never known.
SocketCleaned ==
  main = "End" =>
    /\ host \in {"Found", "Replaced"} => file = "Other"
    /\ host = "Quiet" /\ identity = "Own" => file = "None"

\* "stop the vCPUs, flush the disks": a stopped VM has let its disks go, for the
\* next run to open; and no end of the command, a signal's included, leaves a write
\* behind that was not synced, unless a flush has failed.
DisksReleased ==
  /\ main = "End" \/ (ran /\ life = "Stopped") => AllClosed
  /\ Over \/ AllClosed => \A d \in Disks : disk[d].dirty => lost

\* What the command took it gives back, however it ends, and a disk is its own as
\* long as it has it.
Restored ==
  /\ TerminalRestored /\ InterfaceStopped /\ SocketCleaned
  /\ DisksExclusive(Readonly) /\ DisksReleased

\* The command does not exit on a client that waits, and an answered stop means
\* that the VM is Stopped, with its vCPUs joined.
RepliesHonest ==
  /\ main = "End" => \A c \in Clients : conn[c] \in {"None", "Done"} /\ client[c] # "Waiting"
  /\ \A c \in Clients :
       op[c] = "Stop" /\ client[c] = "Ok" => life = "Stopped" /\ vcpus \in {"None", "Joined"}

\* A notice, were it given before bind, ends the command; so does a VM that stops,
\* with a framework that never answers and clients that never send or read.
CommandEnds == (byte \/ life \in {"Stopping", "Stopped"}) ~> Over

\* Every client the listener has got is answered or disconnected, however many
\* others there are and whatever they do.
ClientsServed == \A c \in Clients : client[c] = "Waiting" ~> (client[c] # "Waiting" \/ Over)

\* Ctrl-] ends the command, unless the VM is paused or its UART full.
EscapeHeard ==
  Contains(input, "escape") ~> (byte \/ Over \/ vcpus # "Running" \/ fifo = FifoSize)

\* Nobody waits for ever.
CommandProgress == CommandEnds /\ ClientsServed /\ EscapeHeard
=============================================================================
