------------------------------- MODULE VmnetIo -------------------------------
(***************************************************************************)
(* src/src/net/macos.rs: the packet I/O of the vmnet backend, as the       *)
(* network device sees it.  vmnet_write and vmnet_read are each offered    *)
(* one packet and answer with a status and the number of packets they      *)
(* took.  Both calls are synchronous, so that an answer is one value.      *)
(***************************************************************************)
EXTENDS Naturals

Answers == [status : {"Success", "Exhausted", "Failed"}, count : 0..2]

\* check: any status but SUCCESS is an error.
check(status) == status = "Success"

\* MUTANT: a success is taken for a sent frame, whatever the count says.
send_IgnoresCount(answer) ==
  CASE answer.status = "Exhausted" -> "Refuse"
    [] OTHER -> IF check(answer.status) THEN "Accept" ELSE "Fail"

\* send: exhausted buffers and a frame not taken ask for a retry.  transmit has
\* checked the length against the same limits.
send(answer) ==
  CASE answer.status = "Exhausted" -> "Refuse"
    [] answer.status = "Failed"    -> "Fail"
    [] check(answer.status)        -> IF answer.count = 1 THEN "Accept"
                                      ELSE IF answer.count = 0 THEN "Refuse" ELSE "Fail"

\* recv: no packet, a packet, or an error, also for a length out of range.  The
\* buffers receive offers hold max_frame bytes.
recv(answer, inRange) ==
  IF ~check(answer.status) \/ answer.count > 1 THEN "Fail"
  ELSE IF answer.count = 0 THEN "None" ELSE IF inRange THEN "Packet" ELSE "Fail"

\* External: vmnet takes a packet, or hands one over, when it says so.
Took(answer) == answer.status = "Success" /\ answer.count > 0

\* External: buffers run out for a write only, and a read takes what has arrived.
WriteAnswers == {a \in Answers : a.status # "Success" => a.count = 0}
ReadAnswers(arrived) ==
  {a \in WriteAnswers : a.status # "Exhausted" /\ (a.status = "Success" => (a.count > 0) = arrived)}
=============================================================================
