---------------------------- MODULE ControlServer ----------------------------
(***************************************************************************)
(* demo/src/control.rs: the local control server.  One thread accepts at   *)
(* most MaxConnections connections at a time, one thread per connection    *)
(* reads a request, calls the VM and writes the answer.  Dropping the      *)
(* Server joins them and removes the socket.  Module Demo adds the VM,     *)
(* and with it what the calls Pause, Resume, Stop and Query wait for.      *)
(***************************************************************************)
EXTENDS Naturals, Sequences, FiniteSets, SequencesExt

CONSTANTS
  Clients,        \* numbered in the order in which they connect, each once
  MaxConnections  \* 16

ASSUME ServerAssumption == Clients \subseteq Nat /\ MaxConnections \in Nat \ {0}

VARIABLES
  server, stopFlag,      \* the server's thread, Server::stop
  backlog,               \* connections not yet accepted
  conn, op, client,      \* per client: its thread, its request, what it has got
  file, identity, host   \* the socket's path, Server::identity, what others did to the path

socket     == <<file, identity, host>>
serverVars == <<server, stopFlag, backlog, conn, op, client, socket>>

Operations == {"Pause", "Resume", "Stop", "Query"}   \* Query: status and memory requests
Running == {"Line", "Queued", "Served", "Stopping", "Ok", "Error"}

ServerTypeOK ==
  /\ server \in {"None", "Loop", "Join", "Done"} /\ stopFlag \in BOOLEAN
  /\ backlog \in Seq(Clients)
  /\ conn \in [Clients -> {"None", "Done"} \cup Running]
  /\ op \in [Clients -> Operations \cup {"None"}]
  /\ client \in [Clients -> {"Idle", "Waiting", "Ok", "Error", "Dropped"}]
  /\ file \in {"None", "Own", "Other"} /\ identity \in {"None", "Own", "Other"}
  /\ host \in {"Quiet", "Found", "Replaced", "Raced"}

ServerInit ==
  /\ server = "None" /\ stopFlag = FALSE /\ backlog = <<>>
  /\ conn = [c \in Clients |-> "None"] /\ op = [c \in Clients |-> "None"]
  /\ client = [c \in Clients |-> "Idle"]
  /\ identity = "None"
  /\ \/ file = "None" /\ host = "Quiet"
     \/ file = "Other" /\ host = "Found"

(***************************************************************************)
(* Server::bind and Drop for Server, on the main thread.                   *)
(***************************************************************************)
\* The listener is dropped: clients it has not accepted are disconnected.
Hangup ==
  /\ backlog' = <<>>
  /\ client' = [c \in Clients |-> IF Contains(backlog, c) THEN "Dropped" ELSE client[c]]

\* MUTANT: a file in the way is replaced.
InTheWay_Never == FALSE
InTheWay == file # "None"

BindFile ==
  /\ ~InTheWay /\ file' = "Own"
  /\ UNCHANGED <<server, stopFlag, backlog, conn, op, client, identity, host>>

ReadIdentity ==
  /\ file # "None" /\ identity' = file
  /\ UNCHANGED <<server, stopFlag, backlog, conn, op, client, file, host>>

Spawn ==
  /\ server' = "Loop"
  /\ UNCHANGED <<stopFlag, backlog, conn, op, client, socket>>

BindFails == Hangup /\ UNCHANGED <<server, stopFlag, conn, op, socket>>

StopServer ==
  /\ stopFlag' = TRUE
  /\ UNCHANGED <<server, backlog, conn, op, client, socket>>

\* MUTANT: the file is removed without a look at whose it is.
Ours_Assumed == file # "None"
Ours == file = identity

RemoveFile ==
  /\ file' = "None"
  /\ UNCHANGED <<server, stopFlag, backlog, conn, op, client, identity, host>>

(***************************************************************************)
(* The server's thread.                                                    *)
(***************************************************************************)
Active == {c \in Clients : conn[c] \in Running}

\* Finished connections are reaped; the rest count against the limit.  serve drops
\* a stream whose write timeout it cannot set; without a thread the loop ends.
Accept ==
  /\ server = "Loop" /\ ~stopFlag
  /\ Cardinality(Active) < MaxConnections /\ backlog # <<>>
  /\ backlog' = Tail(backlog)
  /\ LET c == Head(backlog)
     IN  \/ conn' = [conn EXCEPT ![c] = "Line"] /\ UNCHANGED <<server, client>>
         \/ /\ client' = [client EXCEPT ![c] = "Dropped"]
            /\ \/ conn' = [conn EXCEPT ![c] = "Done"] /\ UNCHANGED server
               \/ server' = "Join" /\ UNCHANGED conn
  /\ UNCHANGED <<stopFlag, op, socket>>

\* The stop flag, or an error of accept that is not WouldBlock.
LeaveAccept ==
  /\ server = "Loop" /\ server' = "Join"
  /\ UNCHANGED <<stopFlag, backlog, conn, op, client, socket>>

\* MUTANT: the thread ends without waiting for its connections.
Joined_Early == TRUE
Joined == Active = {}

JoinConnections ==
  /\ server = "Join" /\ Joined
  /\ server' = "Done" /\ Hangup
  /\ UNCHANGED <<stopFlag, conn, op, socket>>

(***************************************************************************)
(* A connection's thread: serve.                                           *)
(***************************************************************************)
Conns(new) == conn' = new /\ UNCHANGED <<server, stopFlag, backlog, op, client, socket>>
Become(c, state) == Conns([conn EXCEPT ![c] = state])

\* MUTANT: a client that sends nothing is waited for.
Expires_Never == FALSE
Expires == TRUE

\* line or the parser fails: the deadline, the client's end, a line too long, or
\* one that is no request.
ReadFails(c) == conn[c] = "Line" /\ Expires /\ Become(c, "Error")

Called(c, operations) == conn[c] = "Line" /\ op[c] \in operations

\* The status of VM and memory is there at once; memory-set may be refused.
Query(c) == Called(c, {"Query"}) /\ \E result \in {"Ok", "Error"} : Become(c, result)

\* One line.  A client that has left does not change what the thread does.
Respond(c) ==
  /\ conn[c] \in {"Ok", "Error"}
  /\ conn' = [conn EXCEPT ![c] = "Done"]
  /\ client' = [client EXCEPT ![c] = conn[c]]
  /\ UNCHANGED <<server, stopFlag, backlog, op, socket>>

(***************************************************************************)
(* Outside: clients and other users of the path.                           *)
(***************************************************************************)
\* request, up to the request line; a client may send none in time.
Connect(c, operation) ==
  /\ client[c] = "Idle" /\ (\A d \in Clients : d < c => client[d] # "Idle")
  /\ file = "Own"
  /\ client' = [client EXCEPT ![c] = "Waiting"]
  /\ op' = [op EXCEPT ![c] = operation]
  /\ backlog' = Append(backlog, c)
  /\ UNCHANGED <<server, stopFlag, conn, socket>>

\* Somebody takes the path over, perhaps where the server cannot know.
Replace(unseen) ==
  /\ file = "Own" /\ file' = "Other"
  /\ host' = IF unseen THEN "Raced" ELSE "Replaced"
  /\ UNCHANGED <<server, stopFlag, backlog, conn, op, client, identity>>
=============================================================================
