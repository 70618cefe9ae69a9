-------------------------- MODULE ModbusCommandProofs --------------------------
(***************************************************************************)
(* Proofs about ModbusCommand, for every number of reconnections, every    *)
(* modulus of the request numbers and every backlog smaller than it.       *)
(*                                                                         *)
(* The argument: requests and answers hold the latest numbers, without a   *)
(* gap, so the first answer in the socket bears the number of the latest   *)
(* request only if nothing else is left in the connection.                 *)
(***************************************************************************)
EXTENDS ModbusCommand, TLAPS, SequenceTheorems

\* The number of the request sent k requests before number t.
Back(t, k) == IF t >= k THEN t - k ELSE t - k + TidModulus

Answers == [tid : Tids, val : Nat]

Numbered ==
  /\ \A i \in 1..Len(requests) : requests[i] = Back(tid, Len(requests) - i)
  /\ \A i \in 1..Len(answers) : answers[i].tid = Back(tid, Outstanding - i)

Bounded ==
  /\ Outstanding <= MaxBacklog
  /\ pc = "send" => Outstanding < MaxBacklog
  /\ pc # "idle" => reconn < MaxReconn

Versions ==
  /\ since <= reg
  /\ \A i \in 1..Len(answers) : answers[i].val <= reg
  /\ pc = "wait" /\ requests = <<>> /\ answers # <<>> => since <= answers[Len(answers)].val

Links ==
  /\ link # "up" => requests = <<>> /\ answers = <<>>
  /\ pc = "check" /\ fcode = "known" /\ ret < 0 /\ errno \in Broken => link # "up"

Ended ==
  pc = "check" /\ ret = 1 /\ fcode = "known" => since <= rsp /\ rsp <= reg /\ Outstanding = 0

IInv == TypeOK /\ Numbered /\ Bounded /\ Versions /\ Links /\ Ended

-----------------------------------------------------------------------------
(* The numbers.                                                            *)

LEMMA ConstantTypes ==
  /\ TidModulus \in Nat /\ MaxBacklog \in Nat /\ MaxBacklog >= 1
  /\ MaxBacklog < TidModulus
  /\ MaxReconn \in Nat /\ MaxReconn >= 1
  BY ModbusCommandAssumption

LEMMA NextTidValue ==
  ASSUME NEW t \in Tids
  PROVE  NextTid(t) \in Tids /\ NextTid(t) = IF t + 1 = TidModulus THEN 0 ELSE t + 1
<1>1. t \in Nat /\ t < TidModulus
  BY ConstantTypes DEF Tids
<1>2. CASE t + 1 = TidModulus
  BY <1>1, <1>2, ConstantTypes DEF NextTid, Tids
<1>3. CASE t + 1 < TidModulus
  BY <1>1, <1>3, ConstantTypes DEF NextTid, Tids
<1> QED
  BY <1>1, <1>2, <1>3, ConstantTypes

\* Sending one more moves every number one further back.
LEMMA BackNext ==
  ASSUME NEW t \in Tids, NEW k \in Nat, k + 1 < TidModulus
  PROVE  Back(NextTid(t), k + 1) = Back(t, k)
  BY NextTidValue, ConstantTypes DEF Back, Tids

\* Only the latest request has the latest number.
LEMMA BackOnly ==
  ASSUME NEW t \in Tids, NEW k \in Nat, k < TidModulus
  PROVE  (Back(t, k) = t) <=> (k = 0)
  BY ConstantTypes DEF Back, Tids

-----------------------------------------------------------------------------
(* The queues.                                                             *)

LEMMA QueueTypes ==
  ASSUME TypeOK
  PROVE  /\ Len(requests) \in Nat /\ Len(answers) \in Nat /\ Outstanding \in Nat
         /\ requests \in Seq(Tids) /\ answers \in Seq(Answers)
         /\ \A i \in 1..Len(requests) : requests[i] \in Tids
         /\ \A i \in 1..Len(answers) : answers[i].tid \in Tids /\ answers[i].val \in Nat
<1>1. requests \in Seq(Tids) /\ answers \in Seq(Answers)
  BY DEF TypeOK, Answers
<1>2. Len(requests) \in Nat /\ Len(answers) \in Nat
  BY <1>1, LenProperties
<1>3. \A i \in 1..Len(answers) : answers[i] \in Answers
  BY <1>1, ElementOfSeq
<1> QED
  BY <1>1, <1>2, <1>3, ElementOfSeq DEF Answers, Outstanding

LEMMA InitIInv == Init => IInv
<1> SUFFICES ASSUME Init PROVE IInv
  OBVIOUS
<1> USE ConstantTypes DEF Init
<1>1. TypeOK
  BY ModbusCommandAssumption DEF TypeOK, Tids
<1>2. Numbered /\ Bounded
  BY DEF Numbered, Bounded, Outstanding
<1>3. Versions /\ Links /\ Ended
  BY DEF Versions, Links, Ended, Outstanding
<1> QED
  BY <1>1, <1>2, <1>3 DEF IInv

LEMMA DeviceSteps ==
  IInv /\ (RegisterChanges \/ ReachabilityChanges) => IInv'
<1> SUFFICES ASSUME IInv, RegisterChanges \/ ReachabilityChanges PROVE IInv'
  OBVIOUS
<1>1. /\ UNCHANGED wire /\ UNCHANGED client
      /\ reg \in Nat /\ reg' \in Nat /\ reg <= reg'
      /\ reachable' \in BOOLEAN
  <2>1. reg \in Nat /\ reachable \in BOOLEAN
    BY DEF IInv, TypeOK
  <2>2. CASE RegisterChanges
    <3>1. UNCHANGED wire /\ UNCHANGED client /\ reg' = reg + 1 /\ reachable' = reachable
      BY <2>2 DEF RegisterChanges
    <3>2. reg' \in Nat /\ reg <= reg'
      BY <2>1, <3>1
    <3> QED
      BY <2>1, <3>1, <3>2
  <2>3. CASE ReachabilityChanges
    <3>1. UNCHANGED wire /\ UNCHANGED client /\ reg' = reg /\ reachable' = ~reachable
      BY <2>3 DEF ReachabilityChanges
    <3>2. reg <= reg'
      BY <2>1, <3>1
    <3> QED
      BY <2>1, <3>1, <3>2
  <2> QED
    BY <2>2, <2>3
<1>2. TypeOK'
  BY <1>1 DEF IInv, TypeOK, wire, client
<1>3. Numbered' /\ Bounded' /\ Links'
  BY <1>1 DEF IInv, Numbered, Bounded, Links, Outstanding, wire, client
<1>4. Versions' /\ Ended'
  <2>1. since \in Nat /\ rsp \in Nat /\ \A i \in 1..Len(answers) : answers[i].val \in Nat
    BY QueueTypes DEF IInv, TypeOK
  <2> QED
    BY <1>1, <2>1 DEF IInv, Versions, Ended, Outstanding, wire, client
<1> QED
  BY <1>2, <1>3, <1>4 DEF IInv

\* An answer takes the place of its request.
LEMMA AnswerStep == IInv /\ Answer => IInv'
<1> SUFFICES ASSUME IInv, Answer PROVE IInv'
  OBVIOUS
<1> DEFINE n == Len(requests)
           m == Len(answers)
           a == [tid |-> Head(requests), val |-> reg]
<1>1. /\ n \in Nat /\ m \in Nat /\ requests \in Seq(Tids) /\ answers \in Seq(Answers)
      /\ requests # <<>> /\ reg \in Nat /\ since <= reg
      /\ requests' = Tail(requests) /\ answers' = Append(answers, a)
      /\ UNCHANGED <<device, link, client>> /\ link = "up"
  BY QueueTypes DEF IInv, TypeOK, Answer, Versions
<1>2. /\ n >= 1 /\ Head(requests) = requests[1] /\ Head(requests) \in Tids
      /\ requests' \in Seq(Tids) /\ Len(requests') = n - 1
      /\ \A i \in 1..(n - 1) : requests'[i] = requests[i + 1]
  <2>1. /\ Head(requests) \in Tids /\ requests' \in Seq(Tids)
        /\ Len(requests') = n - 1
        /\ \A i \in 1..Len(requests') : requests'[i] = requests[i + 1]
    BY <1>1, HeadTailProperties
  <2> QED
    BY <1>1, <2>1, EmptySeq
<1>3. a \in Answers
  BY <1>1, <1>2 DEF Answers
<1>4. /\ answers' \in Seq(Answers) /\ Len(answers') = m + 1 /\ answers' # <<>>
      /\ \A i \in 1..m : answers'[i] = answers[i]
      /\ answers'[m + 1] = a
  BY <1>1, <1>3, AppendProperties
<1>5. Outstanding' = Outstanding /\ Outstanding = n + m
  BY <1>1, <1>2, <1>4 DEF Outstanding
<1>6. a.tid = requests[1] /\ a.val = reg
  BY <1>2
<1>7. TypeOK'
  BY <1>1, <1>2, <1>4 DEF IInv, TypeOK, Answers, device, client
<1> HIDE DEF a, n, m
<1>8. Numbered'
  <2>1. tid' = tid
    BY <1>1 DEF client
  <2>2. \A i \in 1..n : requests[i] = Back(tid, n - i)
    BY DEF IInv, Numbered, n
  <2>3. \A i \in 1..m : answers[i].tid = Back(tid, (n + m) - i)
    BY <1>5 DEF IInv, Numbered, m
  <2>4. ASSUME NEW i \in 1..(n - 1) PROVE requests'[i] = Back(tid, (n - 1) - i)
    <3>1. i + 1 \in 1..n /\ n - (i + 1) = (n - 1) - i
      BY <1>1
    <3> QED
      BY <1>2, <2>2, <3>1
  <2>5. ASSUME NEW i \in 1..(m + 1) PROVE answers'[i].tid = Back(tid, (n + m) - i)
    <3>1. CASE i \in 1..m
      BY <1>4, <2>3, <3>1
    <3>2. CASE i = m + 1
      <4>1. (n + m) - (m + 1) = n - 1 /\ 1 \in 1..n
        BY <1>1, <1>2
      <4>2. requests[1] = Back(tid, n - 1)
        BY <2>2, <4>1
      <4>3. answers'[i].tid = requests[1]
        BY <1>4, <1>6, <3>2
      <4> QED
        BY <3>2, <4>1, <4>2, <4>3
    <3>3. i \in 1..m \/ i = m + 1
      BY <1>1
    <3> QED
      BY <3>1, <3>2, <3>3
  <2> QED
    BY <1>2, <1>4, <1>5, <2>1, <2>4, <2>5 DEF Numbered
<1>9. Bounded'
  BY <1>1, <1>5 DEF IInv, Bounded, client
<1>10. Versions'
  <2>1. \A i \in 1..m : answers[i].val <= reg
    BY DEF IInv, Versions, m
  <2>2. \A i \in 1..(m + 1) : answers'[i].val <= reg
    BY <1>1, <1>4, <1>6, <2>1
  <2>3. reg' = reg /\ since' = since
    BY <1>1 DEF device, client
  <2> QED
    BY <1>1, <1>4, <1>6, <2>2, <2>3 DEF Versions
<1>11. Links' /\ Ended'
  BY <1>1, <1>5 DEF IInv, Links, Ended, device, client
<1> QED
  BY <1>7, <1>8, <1>9, <1>10, <1>11 DEF IInv

\* Whatever empties the connection.
LEMMA Emptied ==
  ASSUME IInv, requests' = <<>>, answers' = <<>>, TypeOK', since' <= reg',
         pc' # "idle" => reconn' < MaxReconn,
         pc' = "check" /\ fcode' = "known" => link' # "up" \/ ret' >= 0,
         pc' = "check" /\ ret' = 1 /\ fcode' = "known" => since' <= rsp' /\ rsp' <= reg'
  PROVE  IInv'
<1>1. Outstanding' = 0
  BY DEF Outstanding
<1>2. Numbered' /\ Bounded'
  BY <1>1, ConstantTypes DEF Numbered, Bounded
<1>3. ret' \in Int
  BY DEF TypeOK
<1>4. Versions' /\ Links' /\ Ended'
  BY <1>1, <1>3 DEF Versions, Links, Ended
<1> QED
  BY <1>2, <1>4 DEF IInv

LEMMA DropStep == IInv /\ LinkDrops => IInv'
<1> SUFFICES ASSUME IInv, LinkDrops PROVE IInv'
  OBVIOUS
<1>1. TypeOK'
  BY DEF IInv, TypeOK, LinkDrops, device, client
<1>2. /\ requests' = <<>> /\ answers' = <<>> /\ since' <= reg' /\ link' # "up"
      /\ pc' # "idle" => reconn' < MaxReconn
      /\ pc' = "check" /\ ret' = 1 /\ fcode' = "known" => since' <= rsp' /\ rsp' <= reg'
  BY DEF LinkDrops, device, client, IInv, Versions, Bounded, Ended
<1> QED
  BY <1>1, <1>2, Emptied

\* A call finds the connection as the command before left it.
LEMMA CallStep == IInv /\ Call => IInv'
<1> SUFFICES ASSUME IInv, Call PROVE IInv'
  OBVIOUS
<1>1. TypeOK'
  BY ModbusCommandAssumption DEF IInv, TypeOK, Call, device, wire
<1>2. Numbered' /\ Bounded'
  BY ConstantTypes DEF IInv, TypeOK, Numbered, Bounded, Outstanding, Call, device, wire
<1>3. Versions' /\ Links' /\ Ended'
  BY DEF IInv, TypeOK, Versions, Links, Ended, Call, device, wire
<1> QED
  BY <1>1, <1>2, <1>3 DEF IInv

\* A request that is sent gets the next number.
LEMMA SendStep == IInv /\ Send => IInv'
<1> SUFFICES ASSUME IInv, Send PROVE IInv'
  OBVIOUS
<1> DEFINE n == Len(requests)
           m == Len(answers)
<1>1. /\ n \in Nat /\ m \in Nat /\ requests \in Seq(Tids) /\ answers \in Seq(Answers)
      /\ tid \in Tids /\ Outstanding = n + m /\ n + m < MaxBacklog
      /\ tid' = NextTid(tid) /\ requests' = Append(requests, tid') /\ answers' = answers
      /\ UNCHANGED device /\ link' = link /\ since' = since /\ reconn' = reconn
      /\ pc = "send" /\ pc' = "wait" /\ link = "up" /\ reconn < MaxReconn
  BY QueueTypes DEF IInv, TypeOK, Send, Bounded, Outstanding
<1>2. tid' \in Tids
  BY <1>1, NextTidValue
<1>3. /\ requests' \in Seq(Tids) /\ Len(requests') = n + 1 /\ requests' # <<>>
      /\ \A i \in 1..n : requests'[i] = requests[i]
      /\ requests'[n + 1] = tid'
  BY <1>1, <1>2, AppendProperties
<1>4. Outstanding' = (n + m) + 1
  BY <1>1, <1>3 DEF Outstanding
<1>5. TypeOK'
  BY <1>2, <1>3 DEF IInv, TypeOK, Send, device
<1> HIDE DEF n, m
<1>6. Numbered'
  <2>1. \A i \in 1..n : requests[i] = Back(tid, n - i)
    BY DEF IInv, Numbered, n
  <2>2. \A i \in 1..m : answers[i].tid = Back(tid, (n + m) - i)
    BY <1>1 DEF IInv, Numbered, m
  <2>3. ASSUME NEW k \in Nat, k < n + m PROVE Back(tid', k + 1) = Back(tid, k)
    BY <1>1, <2>3, BackNext, ConstantTypes
  <2>4. Back(tid', 0) = tid'
    BY <1>2, BackOnly, ConstantTypes
  <2>5. ASSUME NEW i \in 1..(n + 1) PROVE requests'[i] = Back(tid', (n + 1) - i)
    <3>1. CASE i \in 1..n
      <4>1. n - i \in Nat /\ n - i < n + m /\ (n - i) + 1 = (n + 1) - i
        BY <1>1, <3>1
      <4>2. Back(tid', (n - i) + 1) = Back(tid, n - i)
        BY <2>3, <4>1
      <4> QED
        BY <1>3, <2>1, <3>1, <4>1, <4>2
    <3>2. CASE i = n + 1
      BY <1>1, <1>3, <2>4, <3>2
    <3>3. i \in 1..n \/ i = n + 1
      BY <1>1
    <3> QED
      BY <3>1, <3>2, <3>3
  <2>6. ASSUME NEW i \in 1..m PROVE answers'[i].tid = Back(tid', ((n + m) + 1) - i)
    <3>1. (n + m) - i \in Nat /\ (n + m) - i < n + m
          /\ ((n + m) - i) + 1 = ((n + m) + 1) - i
      BY <1>1
    <3>2. Back(tid', ((n + m) - i) + 1) = Back(tid, (n + m) - i)
      BY <2>3, <3>1
    <3> QED
      BY <1>1, <2>2, <3>1, <3>2
  <2> QED
    BY <1>1, <1>3, <1>4, <2>5, <2>6 DEF Numbered, m
<1>7. Bounded'
  BY <1>1, <1>4, ConstantTypes DEF Bounded
<1>8. Versions' /\ Links' /\ Ended'
  BY <1>1, <1>3 DEF IInv, Versions, Links, Ended, device
<1> QED
  BY <1>5, <1>6, <1>7, <1>8 DEF IInv

\* On a connection that is gone only the number is used up.
LEMMA SendFailsStep == IInv /\ SendFails => IInv'
<1> SUFFICES ASSUME IInv, SendFails PROVE IInv'
  OBVIOUS
<1>1. tid' \in Tids
  BY NextTidValue DEF SendFails, IInv, TypeOK
<1>2. /\ link # "up" /\ ret' = -1 /\ pc = "send" /\ pc' = "check"
      /\ errno' \in Errors
      /\ UNCHANGED <<device, wire, fcode, reconn, rsp, since>>
  BY DEF SendFails, Fails, Errors
<1>3. requests = <<>> /\ answers = <<>>
  BY <1>2 DEF IInv, Links
<1>4. TypeOK'
  BY <1>1, <1>2 DEF IInv, TypeOK, device, wire
<1> QED
  BY <1>2, <1>3, <1>4, Emptied DEF device, wire, IInv, Bounded, Versions

LEMMA SendNothingStep == IInv /\ SendNothing => IInv'
<1> SUFFICES ASSUME IInv, SendNothing PROVE IInv'
  OBVIOUS
<1>1. TypeOK'
  BY DEF IInv, TypeOK, SendNothing, device, wire
<1>2. Numbered' /\ Bounded'
  BY QueueTypes, ConstantTypes
     DEF IInv, Numbered, Bounded, Outstanding, SendNothing, device, wire
<1>3. Versions' /\ Links' /\ Ended'
  BY DEF IInv, Versions, Links, Ended, SendNothing, device, wire
<1> QED
  BY <1>1, <1>2, <1>3 DEF IInv

\* The first answer matches only if it is the last thing in the connection.
LEMMA MatchIsLast ==
  ASSUME IInv, answers # <<>>
  PROVE  /\ Matches(Head(answers)) <=> Outstanding = 1
         /\ Matches(Head(answers)) => requests = <<>> /\ Len(answers) = 1
<1>1. /\ Len(answers) \in Nat /\ Len(answers) >= 1 /\ Len(requests) \in Nat
      /\ requests \in Seq(Tids) /\ tid \in Tids
      /\ Outstanding = Len(requests) + Len(answers)
  BY QueueTypes, EmptySeq DEF IInv, TypeOK, Outstanding
<1>2. Head(answers) = answers[1] /\ 1 \in 1..Len(answers)
  BY <1>1
<1>3. Head(answers).tid = Back(tid, Outstanding - 1)
  BY <1>2 DEF IInv, Numbered
<1>4. Outstanding - 1 \in Nat /\ Outstanding - 1 < TidModulus
  BY <1>1, ConstantTypes DEF IInv, Bounded
<1>5. Matches(Head(answers)) <=> Outstanding - 1 = 0
  BY <1>1, <1>3, <1>4, BackOnly DEF Matches
<1>6. Outstanding = 1 => Len(requests) = 0 /\ Len(answers) = 1
  <2> DEFINE n == Len(requests)
             m == Len(answers)
  <2>1. n \in Nat /\ m \in Nat /\ m >= 1 /\ Outstanding = n + m
    BY <1>1
  <2> HIDE DEF n, m
  <2>2. Outstanding = 1 => n = 0 /\ m = 1
    BY <2>1
  <2> QED
    BY <2>2 DEF n, m
<1>7. Len(requests) = 0 => requests = <<>>
  BY <1>1, EmptySeq
<1> QED
  BY <1>1, <1>5, <1>6, <1>7

LEMMA ReceiveStep == IInv /\ Receive => IInv'
<1> SUFFICES ASSUME IInv, Receive PROVE IInv'
  OBVIOUS
<1> DEFINE n == Len(requests)
           m == Len(answers)
<1>1. /\ n \in Nat /\ m \in Nat /\ answers \in Seq(Answers) /\ answers # <<>>
      /\ answers' = Tail(answers) /\ requests' = requests
      /\ UNCHANGED <<device, link, tid, fcode, reconn, since>>
      /\ pc = "wait" /\ pc' = "check" /\ link' = link
  BY QueueTypes DEF IInv, Receive, Fails
<1>2. /\ m >= 1 /\ answers' \in Seq(Answers) /\ Len(answers') = m - 1
      /\ \A i \in 1..(m - 1) : answers'[i] = answers[i + 1]
  <2>1. /\ answers' \in Seq(Answers) /\ Len(answers') = m - 1
        /\ \A i \in 1..Len(answers') : answers'[i] = answers[i + 1]
    BY <1>1, HeadTailProperties
  <2> QED
    BY <1>1, <2>1, EmptySeq
<1>3. Outstanding = n + m /\ Outstanding' = (n + m) - 1
  BY <1>1, <1>2 DEF Outstanding
<1>4. Head(answers) = answers[1] /\ answers[1].val \in Nat /\ 1 \in 1..m
  BY <1>1, <1>2, QueueTypes DEF IInv
<1>5. /\ ret' \in {-1, 1} /\ errno' \in Errors \cup {"none"} /\ rsp' \in Nat
      /\ ret' = -1 => errno' = "EMBBADDATA"
      /\ ret' = 1 => Matches(Head(answers)) /\ rsp' = answers[1].val
  BY <1>4 DEF Receive, Fails, Errors, IInv, TypeOK
<1>6. TypeOK'
  BY <1>1, <1>2, <1>5 DEF IInv, TypeOK, Answers, device
<1> HIDE DEF n, m
<1>7. Numbered'
  <2>1. \A i \in 1..m : answers[i].tid = Back(tid, (n + m) - i)
    BY <1>3 DEF IInv, Numbered, m
  <2>2. ASSUME NEW i \in 1..(m - 1) PROVE answers'[i].tid = Back(tid, ((n + m) - 1) - i)
    <3>1. i + 1 \in 1..m /\ (n + m) - (i + 1) = ((n + m) - 1) - i
      BY <1>1
    <3> QED
      BY <1>2, <2>1, <3>1
  <2> QED
    BY <1>1, <1>2, <1>3, <2>2 DEF Numbered, IInv
<1>8. Bounded'
  BY <1>1, <1>3, ConstantTypes DEF IInv, Bounded
<1>9. Versions'
  <2>1. \A i \in 1..m : answers[i].val <= reg
    BY DEF IInv, Versions, m
  <2>2. \A i \in 1..(m - 1) : answers'[i].val <= reg
    <3>1. \A i \in 1..(m - 1) : i + 1 \in 1..m
      BY <1>1
    <3> QED
      BY <1>2, <2>1, <3>1
  <2> QED
    BY <1>1, <1>2, <2>2 DEF IInv, Versions, device
<1>10. Links'
  <2>1. Links /\ link = "up"
    BY <1>1 DEF IInv, Links
  <2>2. "EMBBADDATA" \notin Broken
    BY DEF Broken
  <2> QED
    BY <1>1, <1>5, <2>1, <2>2 DEF Links
<1>11. Ended'
  <2> SUFFICES ASSUME ret' = 1
               PROVE  since' <= rsp' /\ rsp' <= reg' /\ Outstanding' = 0
    BY DEF Ended
  <2>1. requests = <<>> /\ m = 1 /\ Outstanding = 1
    BY <1>1, <1>5, MatchIsLast DEF m
  <2>2. since <= answers[1].val /\ answers[1].val <= reg
    BY <1>1, <1>4, <2>1 DEF IInv, Versions, m
  <2> QED
    BY <1>1, <1>3, <1>5, <2>1, <2>2 DEF device
<1> QED
  BY <1>6, <1>7, <1>8, <1>9, <1>10, <1>11 DEF IInv

\* The response timeout, or the loss of the connection in its place.
LEMMA ReceiveFailsStep == IInv /\ ReceiveFails => IInv'
<1> SUFFICES ASSUME IInv, ReceiveFails PROVE IInv'
  OBVIOUS
<1>1. /\ ret' = -1 /\ pc = "wait" /\ pc' = "check" /\ answers = <<>>
      /\ errno' \in Errors
      /\ errno' \in Broken => link # "up"
      /\ UNCHANGED <<device, wire, tid, fcode, reconn, rsp, since>>
  BY DEF ReceiveFails, Fails, Errors, Broken
<1>2. TypeOK'
  BY <1>1 DEF IInv, TypeOK, device, wire
<1>3. Numbered' /\ Bounded'
  BY <1>1 DEF IInv, Numbered, Bounded, Outstanding, wire
<1>4. Versions' /\ Links' /\ Ended'
  BY <1>1 DEF IInv, Versions, Links, Ended, device, wire
<1> QED
  BY <1>2, <1>3, <1>4 DEF IInv

\* A reconnection leaves nothing of the old connection.
LEMMA ReconnectStep == IInv /\ Reconnect => IInv'
<1> SUFFICES ASSUME IInv, Reconnect PROVE IInv'
  OBVIOUS
<1> USE ConstantTypes DEF Counted, MayRetry
<1>1. /\ requests' = <<>> /\ answers' = <<>> /\ since' = since /\ reg' = reg
      /\ reconn \in Nat /\ reconn < MaxReconn /\ reconn' = reconn + 1
      /\ pc' = IF reconn' < MaxReconn THEN "send" ELSE "idle"
  BY DEF Reconnect, device, IInv, Bounded, TypeOK
<1>2. TypeOK'
  <2>1. reconn' \in 0..MaxReconn
    BY <1>1
  <2> QED
    BY <1>1, <2>1 DEF IInv, TypeOK, Reconnect, device
<1> QED
  BY <1>1, <1>2, Emptied DEF IInv, Versions

LEMMA ReturnStep == IInv /\ Return => IInv'
<1> SUFFICES ASSUME IInv, Return PROVE IInv'
  OBVIOUS
<1>1. TypeOK'
  BY DEF IInv, TypeOK, Return, device, wire
<1>2. Numbered' /\ Bounded'
  BY DEF IInv, Numbered, Bounded, Outstanding, Return, device, wire
<1>3. Versions' /\ Links' /\ Ended'
  BY DEF IInv, Versions, Links, Ended, Return, device, wire
<1> QED
  BY <1>1, <1>2, <1>3 DEF IInv

LEMMA StepIInv == IInv /\ [Next]_vars => IInv'
<1>1. IInv /\ UNCHANGED vars => IInv'
  BY DEF IInv, TypeOK, Numbered, Bounded, Versions, Links, Ended, Outstanding, vars
<1> QED
  BY <1>1, DeviceSteps, AnswerStep, DropStep, CallStep, SendStep, SendFailsStep,
     SendNothingStep, ReceiveStep, ReceiveFailsStep, ReconnectStep, ReturnStep
     DEF Next, Command

LEMMA Inductive == Spec => []IInv
  BY InitIInv, StepIInv, PTL DEF Spec

-----------------------------------------------------------------------------
(* The properties.                                                         *)

\* Every variable keeps its type, and the queues hold only request numbers
\* that exist, for every modulus and every backlog below it.
THEOREM CommandTyped == Spec => []TypeOK
<1>1. IInv => TypeOK
  BY DEF IInv
<1> QED
  BY <1>1, Inductive, PTL

\* No answer to an earlier command is ever taken for that of a later one:
\* a value that is returned was in the device after the call.
THEOREM ReadsAreFresh == Spec => []ReadIsFresh
<1>1. IInv => ReadIsFresh
  BY DEF IInv, Ended, ReadIsFresh
<1> QED
  BY <1>1, Inductive, PTL

\* A command that succeeds leaves nothing in the connection.
THEOREM SuccessLeavesNothing == Spec => []SuccessDrains
<1>1. IInv => SuccessDrains
  BY DEF IInv, Ended, SuccessDrains
<1> QED
  BY <1>1, Inductive, PTL

\* What a late answer leaves in a connection stays as long as it does, and
\* makes every command on it fail.
THEOREM BacklogNeverClears == Spec => BacklogStays
<1> DEFINE A == link = "up" /\ link' = "up" /\ fcode = "known" /\ Leftover > 0
                  => /\ Leftover' >= Leftover
                     /\ pc = "wait" /\ pc' = "check" => ret' < 0
<1>1. IInv /\ Next => A
  <2> SUFFICES ASSUME IInv, Next, link = "up", link' = "up", fcode = "known", Leftover > 0
               PROVE  /\ Leftover' >= Leftover
                      /\ pc = "wait" /\ pc' = "check" => ret' < 0
    OBVIOUS
  <2>1. Len(requests) \in Nat /\ Len(answers) \in Nat /\ Outstanding \in Nat
        /\ Outstanding = Len(requests) + Len(answers)
        /\ requests \in Seq(Tids) /\ answers \in Seq(Answers)
    BY QueueTypes DEF IInv, Outstanding
  <2>2. CASE UNCHANGED wire /\ pc' = pc
    BY <2>1, <2>2 DEF Leftover, Outstanding, wire
  <2>3. CASE UNCHANGED wire /\ pc # "wait" /\ pc' # "wait"
    BY <2>1, <2>3 DEF Leftover, Outstanding, wire
  <2>4. CASE Answer
    <3>1. Len(requests') = Len(requests) - 1 /\ Len(answers') = Len(answers) + 1
      BY <2>1, <2>4, HeadTailProperties DEF Answer
    <3> QED
      BY <2>1, <2>4, <3>1 DEF Answer, client, Leftover, Outstanding
  <2>5. CASE Send
    <3>1. Len(requests') = Len(requests) + 1
      BY <2>1, <2>5 DEF Send
    <3> QED
      BY <2>1, <2>5, <3>1 DEF Send, Leftover, Outstanding
  <2>6. CASE Receive
    <3>1. Len(answers') = Len(answers) - 1
      BY <2>1, <2>6, HeadTailProperties DEF Receive
    <3>2. pc = "wait" /\ pc' = "check" /\ Outstanding > 1 /\ requests' = requests
      BY <2>1, <2>6 DEF Receive, Fails, Leftover
    <3>3. ret' = -1
      BY <2>1, <2>6, <3>2, MatchIsLast DEF Receive, Fails
    <3> QED
      BY <2>1, <3>1, <3>2, <3>3 DEF Leftover, Outstanding
  <2>7. CASE ReceiveFails
    BY <2>1, <2>7 DEF ReceiveFails, Fails, wire, Leftover, Outstanding
  <2>8. CASE Reconnect
    BY <2>8 DEF Reconnect, IInv, Links
  <2>9. CASE LinkDrops
    BY <2>9 DEF LinkDrops
  <2>10. CASE RegisterChanges \/ ReachabilityChanges
    BY <2>2, <2>10 DEF RegisterChanges, ReachabilityChanges, client
  <2>11. CASE Call \/ SendFails \/ SendNothing \/ Return
    BY <2>3, <2>11 DEF Call, SendFails, Fails, SendNothing, Return
  <2> QED
    BY <2>4, <2>5, <2>6, <2>7, <2>8, <2>9, <2>10, <2>11 DEF Next, Command
<1>2. IInv /\ [Next]_vars => [A]_vars
  BY <1>1
<1> QED
  BY <1>2, Inductive, PTL DEF Spec, BacklogStays

\* A command does a bounded number of things, 3 * MaxReconn + 2 at the most,
\* for every MaxReconn and whatever the connection does meanwhile.  With the
\* fairness of FairSpec this is why every command returns.
THEOREM CommandsRunOut == Spec => RetriesRunOut
<1> DEFINE A == IF Command THEN StepsLeft' \in 0..(StepsLeft - 1)
                           ELSE pc # "idle" => StepsLeft' = StepsLeft
<1>1. IInv /\ Next => A
  <2> SUFFICES ASSUME IInv, Next PROVE A
    OBVIOUS
  <2>1. /\ MaxReconn \in Nat /\ reconn \in Nat
        /\ pc \in {"idle", "send", "wait", "check"}
        /\ pc # "idle" => reconn < MaxReconn
    BY ConstantTypes DEF IInv, TypeOK, Bounded
  <2>2. CASE Command
    <3>1. CASE Send
      BY <2>1, <2>2, <3>1 DEF Send, StepsLeft
    <3>2. CASE SendFails \/ SendNothing
      BY <2>1, <2>2, <3>2 DEF SendFails, Fails, SendNothing, StepsLeft
    <3>3. CASE Receive \/ ReceiveFails
      BY <2>1, <2>2, <3>3 DEF Receive, ReceiveFails, Fails, StepsLeft
    <3>4. CASE Reconnect
      <4>1. /\ pc = "check" /\ reconn' = reconn + 1
            /\ pc' = IF reconn' < MaxReconn THEN "send" ELSE "idle"
        BY <3>4 DEF Reconnect, Counted, MayRetry
      <4> QED  BY <2>1, <2>2, <4>1 DEF StepsLeft
    <3>5. CASE Return
      BY <2>1, <2>2, <3>5 DEF Return, StepsLeft
    <3> QED  BY <2>2, <3>1, <3>2, <3>3, <3>4, <3>5 DEF Command
  <2>3. CASE ~Command
    <3>1. CASE Call
      BY <2>3, <3>1 DEF Call
    <3>2. CASE RegisterChanges \/ Answer \/ LinkDrops \/ ReachabilityChanges
      <4>1. pc' = pc /\ reconn' = reconn
        BY <3>2 DEF RegisterChanges, Answer, LinkDrops, ReachabilityChanges, client
      <4> QED  BY <2>3, <4>1 DEF StepsLeft
    <3> QED  BY <2>3, <3>1, <3>2 DEF Next
  <2> QED  BY <2>2, <2>3
<1>2. IInv /\ [Next]_vars => [A]_vars
  BY <1>1
<1> QED  BY <1>2, Inductive, PTL DEF Spec, RetriesRunOut

\* Every command, with its reconnections and retries, is to its callers one
\* read of the device at one moment between call and return, or a failure.
THEOREM CommandsRead == Spec => ImplementsDeviceRead
<1> DEFINE busy   == pc # "idle"
           result == IF pc # "idle" \/ fcode = "unknown" THEN -2
                     ELSE IF ret = 1 THEN rsp ELSE -1
<1>1. Init => Promised!Init
  BY ModbusCommandAssumption DEF Init, Promised!Init
<1>2. IInv /\ [Next]_vars => [Promised!Next]_(Promised!vars)
  <2> SUFFICES ASSUME IInv, [Next]_vars
               PROVE  Promised!Next \/ UNCHANGED <<reg, busy, fcode, since, result>>
    BY DEF Promised!vars
  <2>1. CASE RegisterChanges
    <3>1. Promised!DeviceChanges
      BY <2>1 DEF RegisterChanges, client, Promised!DeviceChanges
    <3> QED
      BY <3>1 DEF Promised!Next
  <2>2. CASE UNCHANGED <<reg, client>>
    BY <2>2 DEF client
  <2>3. CASE Call
    <3>1. Promised!Call
      BY <2>3 DEF Call, device, Promised!Call
    <3> QED
      BY <3>1 DEF Promised!Next
  <2>4. CASE UNCHANGED <<reg, fcode, since>> /\ pc # "idle" /\ pc' # "idle"
    BY <2>4
  <2>5. CASE /\ UNCHANGED <<reg, fcode, since>> /\ pc # "idle" /\ pc' = "idle"
             /\ fcode = "known" /\ ret' = 1 => since <= rsp' /\ rsp' <= reg
    <3>1. since \in Nat /\ reg \in Nat /\ rsp' \in Nat /\ fcode \in {"known", "unknown"}
      BY StepIInv DEF IInv, TypeOK
    <3>2. result' \in IF fcode = "known" THEN (since..reg) \cup {-1} ELSE {-2}
      BY <2>5, <3>1
    <3>3. Promised!Return
      BY <2>5, <3>2 DEF Promised!Return
    <3> QED
      BY <3>3 DEF Promised!Next
  <2>6. CASE Answer \/ LinkDrops \/ ReachabilityChanges
    BY <2>2, <2>6 DEF Answer, LinkDrops, ReachabilityChanges, device
  <2>7. CASE Send \/ SendFails \/ SendNothing \/ Receive \/ ReceiveFails
    BY <2>4, <2>7
       DEF Send, SendFails, SendNothing, Receive, ReceiveFails, Fails, device
  <2>8. CASE Reconnect
    <3>1. ret' # 1 /\ pc # "idle" /\ UNCHANGED <<reg, fcode, since>>
      BY <2>8 DEF Reconnect, device, IInv, TypeOK
    <3> QED
      BY <2>4, <2>5, <3>1
  <2>9. CASE Return
    BY <2>5, <2>9 DEF Return, device, IInv, Ended
  <2>10. CASE UNCHANGED vars
    BY <2>2, <2>10 DEF vars, client
  <2> QED
    BY <2>1, <2>3, <2>6, <2>7, <2>8, <2>9, <2>10 DEF Next, Command
<1> QED
  BY <1>1, <1>2, Inductive, PTL DEF Spec, ImplementsDeviceRead, Promised!Spec
=============================================================================
