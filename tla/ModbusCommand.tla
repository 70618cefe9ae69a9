---------------------------- MODULE ModbusCommand ----------------------------
(***************************************************************************)
(* do_modbus_command(): one Modbus/TCP command, with the reconnection and  *)
(* the retries the program adds, over a connection and a device that fail  *)
(* in their own ways.                                                      *)
(*                                                                         *)
(* The client library numbers its requests and takes the next answer from  *)
(* the socket for the answer to the request it has just sent; when the     *)
(* numbers differ it reports bad data.  A device that answers after the    *)
(* response timeout leaves its answer in the socket, for the next command. *)
(***************************************************************************)
EXTENDS Integers, Sequences

CONSTANTS
  MaxReconn,    \* reconnections of one command (20 in the code)
  TidModulus,   \* the library numbers requests modulo this (2^16)
  MaxBacklog,   \* bound: requests not yet answered and answers not yet read
  MaxReg,       \* bound: how often the device's register changes
  Fcodes        \* the commands: "known" function codes, or "unknown"

ASSUME ModbusCommandAssumption ==
  /\ MaxReconn \in Nat \ {0}
  /\ MaxBacklog \in Nat \ {0}
  /\ TidModulus \in Nat
  /\ MaxBacklog < TidModulus
  /\ MaxReg \in Nat
  /\ Fcodes \subseteq {"known", "unknown"}

VARIABLES
  link,       \* the socket: "up", "dead" (the peer is gone) or "closed"
  reachable,  \* whether the device accepts connections
  requests,   \* numbers of the requests on the wire, oldest first
  answers,    \* answers in the client's socket, oldest first
  reg,        \* the version of the value in the device's register
  tid,        \* the number of the latest request
  pc,         \* "idle", "send", "wait" or "check"
  fcode,      \* the command being executed
  reconn,     \* reconnections so far
  ret,        \* what the library returned: 1 read, -1 failed
  errno,      \* why it failed, if it did
  rsp,        \* the version read
  since       \* history: the version when the command was called

device == <<reachable, reg>>
wire   == <<link, requests, answers>>
client == <<tid, pc, fcode, reconn, ret, errno, rsp, since>>
vars   == <<reachable, reg, link, requests, answers, tid, pc, fcode, reconn,
            ret, errno, rsp, since>>

-----------------------------------------------------------------------------
\* The failures after which the program reconnects, and the others.
Broken_OrLate == {"EBADF", "ECONNRESET", "EPIPE", "ETIMEDOUT"}
Broken == {"EBADF", "ECONNRESET", "EPIPE"}
Errors == {"EBADF", "ECONNRESET", "EPIPE", "ETIMEDOUT", "EMBBADDATA"}

NextTid(t) == (t + 1) % TidModulus

Outstanding == Len(requests) + Len(answers)

Init ==
  /\ link = "up" /\ reachable = TRUE
  /\ requests = <<>> /\ answers = <<>>
  /\ reg = 0
  /\ tid = 0
  /\ pc = "idle"
  /\ fcode \in Fcodes
  /\ reconn = 0
  /\ ret = 1 /\ errno = "none" /\ rsp = 0 /\ since = 0

-----------------------------------------------------------------------------
(* The device and the network.                                             *)

RegisterChanges ==
  /\ reg < MaxReg
  /\ reg' = reg + 1
  /\ UNCHANGED <<reachable, wire, client>>

\* The device answers the oldest request, now or after any delay.
Answer ==
  /\ link = "up" /\ requests # <<>>
  /\ requests' = Tail(requests)
  /\ answers' = Append(answers, [tid |-> Head(requests), val |-> reg])
  /\ UNCHANGED <<device, link, client>>

\* The connection is lost with everything in it.
LinkDrops ==
  /\ link = "up"
  /\ link' = "dead" /\ requests' = <<>> /\ answers' = <<>>
  /\ UNCHANGED <<device, client>>

ReachabilityChanges ==
  /\ reachable' = ~reachable
  /\ UNCHANGED <<reg, wire, client>>

-----------------------------------------------------------------------------
(* The command.                                                            *)

Call ==
  /\ pc = "idle"
  /\ Outstanding < MaxBacklog
  /\ fcode' \in Fcodes
  /\ reconn' = 0
  /\ since' = reg
  /\ pc' = "send"
  /\ UNCHANGED <<device, wire, tid, ret, errno, rsp>>

\* The library call ends with a failure.
Fails_Unsigned(e) ==
  /\ ret' = 1 /\ errno' = e
  /\ pc' = "check"
Fails(e) ==
  /\ ret' = -1 /\ errno' = e
  /\ pc' = "check"

Send ==
  /\ pc = "send" /\ fcode = "known" /\ link = "up"
  /\ tid' = NextTid(tid)
  /\ requests' = Append(requests, tid')
  /\ pc' = "wait"
  /\ UNCHANGED <<device, link, answers, fcode, reconn, ret, errno, rsp, since>>

SendFails ==
  /\ pc = "send" /\ fcode = "known" /\ link # "up"
  /\ \/ link = "closed" /\ Fails("EBADF")
     \/ link = "dead" /\ (Fails("EPIPE") \/ Fails("ECONNRESET"))
  /\ tid' = NextTid(tid)
  /\ UNCHANGED <<device, wire, fcode, reconn, rsp, since>>

\* No branch of the function matches the function code: ret keeps whatever
\* the stack holds, errno what an earlier call left in it.
SendNothing ==
  /\ pc = "send" /\ fcode = "unknown"
  /\ ret' \in {-1, 0, 1}
  /\ pc' = "check"
  /\ UNCHANGED <<device, wire, tid, fcode, reconn, errno, rsp, since>>

\* The first answer in the socket is taken, whichever request it answers.
Matches(a) == a.tid = tid

Receive ==
  /\ pc = "wait" /\ answers # <<>>
  /\ answers' = Tail(answers)
  /\ IF Matches(Head(answers))
       THEN ret' = 1 /\ rsp' = Head(answers).val /\ pc' = "check" /\ UNCHANGED errno
       ELSE Fails("EMBBADDATA") /\ UNCHANGED rsp
  /\ UNCHANGED <<device, link, requests, tid, fcode, reconn, since>>

ReceiveFails ==
  /\ pc = "wait" /\ answers = <<>>
  /\ \/ link = "up" /\ Fails("ETIMEDOUT")
     \/ link = "dead" /\ Fails("ECONNRESET")
  /\ UNCHANGED <<device, wire, tid, fcode, reconn, rsp, since>>

\* A failure that looks like a broken connection: close, connect, try again.
Counted_Not(n) == n
Counted(n) == n + 1

MayRetry_OneMore(n) == n <= MaxReconn
MayRetry(n) == n < MaxReconn

Reconnect ==
  /\ pc = "check" /\ ret < 0 /\ errno \in Broken
  /\ link' = IF reachable THEN "up" ELSE "closed"
  /\ requests' = <<>> /\ answers' = <<>>
  /\ reconn' = Counted(reconn)
  /\ pc' = IF MayRetry(reconn') THEN "send" ELSE "idle"
  /\ UNCHANGED <<device, tid, fcode, ret, errno, rsp, since>>

\* Success, or a failure of another kind.
Return ==
  /\ pc = "check" /\ (ret >= 0 \/ errno \notin Broken)
  /\ pc' = "idle"
  /\ UNCHANGED <<device, wire, tid, fcode, reconn, ret, errno, rsp, since>>

-----------------------------------------------------------------------------
Command == \/ Send \/ SendFails \/ SendNothing
           \/ Receive \/ ReceiveFails
           \/ Reconnect \/ Return

Next == \/ RegisterChanges \/ Answer \/ LinkDrops \/ ReachabilityChanges
        \/ Call \/ Command

Spec == Init /\ [][Next]_vars

\* A library call returns: at the latest its response timeout ends it.
FairSpec == Spec /\ WF_vars(Command)

-----------------------------------------------------------------------------
(* Properties.                                                             *)

Tids == 0..(TidModulus - 1)

TypeOK ==
  /\ link \in {"up", "dead", "closed"} /\ reachable \in BOOLEAN
  /\ requests \in Seq(Tids)
  /\ answers \in Seq([tid : Tids, val : Nat])
  /\ reg \in Nat /\ tid \in Tids
  /\ pc \in {"idle", "send", "wait", "check"}
  /\ fcode \in {"known", "unknown"}
  /\ reconn \in 0..MaxReconn
  /\ ret \in {-1, 0, 1} /\ errno \in Errors \cup {"none"}
  /\ rsp \in Nat /\ since \in Nat

\* A read that succeeds returns a value the device had after the command
\* was called, never an answer that was late for an earlier command.
ReadIsFresh ==
  pc = "check" /\ ret = 1 /\ fcode = "known" => since <= rsp /\ rsp <= reg

\* After a success nothing is left in the connection: no answer can be
\* taken for that of a later command.
SuccessDrains ==
  pc = "check" /\ ret = 1 /\ fcode = "known" => Outstanding = 0

Promised == INSTANCE DeviceRead WITH
  Failed <- -1, Undefined <- -2,
  busy <- pc # "idle",
  result <- IF pc # "idle" \/ fcode = "unknown" THEN -2
            ELSE IF ret = 1 THEN rsp ELSE -1

\* To its callers a command, with all its reconnections and retries, is one
\* read of the device at one moment, or a failure.
ImplementsDeviceRead == Promised!Spec

\* What a late answer leaves behind is never cleared up: on a connection
\* that stays up, the requests and answers that outlive a command only
\* become more, so one timeout with a late answer makes every later command
\* fail until the connection itself is lost.
Leftover == IF pc = "wait" THEN Outstanding - 1 ELSE Outstanding
BacklogStays ==
  [][link = "up" /\ link' = "up" /\ fcode = "known" /\ Leftover > 0
       => Leftover' >= Leftover /\ (pc = "wait" /\ pc' = "check" => ret' < 0)]_vars

\* The calls of the library that a command may still make, and reconnections:
\* nothing the device or the network does gives it any back, and each of its
\* own steps uses one up, so no sequence of losses and recoveries of the
\* connection keeps a command going.
StepsLeft ==
  IF pc = "idle" THEN 0
  ELSE 3 * (MaxReconn - reconn) + (CASE pc = "send"  -> 2
                                     [] pc = "wait"  -> 1
                                     [] pc = "check" -> 0)
RetriesRunOut ==
  [][IF Command THEN StepsLeft' \in 0..(StepsLeft - 1)
                ELSE pc # "idle" => StepsLeft' = StepsLeft]_vars

\* Every command returns, whatever the connection does: there are at most
\* MaxReconn reconnections and each library call times out.
CommandReturns == pc # "idle" ~> pc = "idle"
=============================================================================
