--------------------------- MODULE MoldCycleProofs ---------------------------
(***************************************************************************)
(* Proofs about the main loop, for every machine type, start phase, shot   *)
(* number and set of faults.                                               *)
(***************************************************************************)
EXTENDS MoldCycle, TLAPS

-----------------------------------------------------------------------------
(* The decoder.                                                            *)

\* Whatever was read and whatever was known, the decoder returns a status.
LEMMA DecoderType ==
  ASSUME NEW rc, NEW bits, NEW now, NEW mm
  PROVE  check_mold_status2(rc, bits, now, mm) \in Statuses
BY DEF check_mold_status2, Decode, SingleLow, MultiLow, Statuses, Phases

\* A poll decodes to exactly the phase the mold is in, on both types of
\* machine: whatever the status before, even an unknown or a wrong one, if a
\* pin is high; and if both are low, given that the status before was the phase
\* at the previous poll and no phase was missed since.
THEOREM DecodeExact ==
  ASSUME NEW mm \in LoopTypes, NEW now \in Statuses, NEW p \in Phases,
         \/ Pins(mm, p) # LowPins
         \/ now \in Phases /\ p \in {now, NextPhase(now)}
  PROVE  check_mold_status2(2, Pins(mm, p), now, mm) = p
<1> USE DEF Unknown, Opened, Closing, Closed, Opening, SingleLoop, MultiLoop
<1>1. p \in {1, 2, 3, 4} /\ (now = 4 => NextPhase(now) = 1) /\ (now # 4 => NextPhase(now) = now + 1)
  BY DEF Phases, NextPhase
<1>2. CASE mm = SingleLoop
  <2>1. check_mold_status2(2, Pins(mm, p), now, mm)
          = Decode(Pins(mm, p), Closing, Opening, SingleLow(now))
    BY <1>2 DEF check_mold_status2
  <2>2. Pins(mm, p) = [closing |-> IF p = 2 THEN 1 ELSE 0,
                       opening |-> IF p = 4 THEN 1 ELSE 0]
    BY <1>2 DEF Pins
  <2>3. CASE p \in {2, 4}
    BY <2>1, <2>2, <2>3 DEF Decode
  <2>4. CASE p \in {1, 3}
    <3>1. now \in {1, 2, 3, 4} /\ p \in {now, NextPhase(now)}
      BY <2>2, <2>4 DEF LowPins, Phases
    <3> QED  BY <1>1, <2>1, <2>2, <2>4, <3>1 DEF Decode, SingleLow
  <2> QED  BY <1>1, <2>3, <2>4
<1>3. CASE mm = MultiLoop
  <2>1. check_mold_status2(2, Pins(mm, p), now, mm)
          = Decode(Pins(mm, p), Closed, Opened, MultiLow(now))
    BY <1>3 DEF check_mold_status2
  <2>2. Pins(mm, p) = [closing |-> IF p = 3 THEN 1 ELSE 0,
                       opening |-> IF p = 1 THEN 1 ELSE 0]
    BY <1>3 DEF Pins
  <2>3. CASE p \in {1, 3}
    BY <2>1, <2>2, <2>3 DEF Decode
  <2>4. CASE p \in {2, 4}
    <3>1. now \in {1, 2, 3, 4} /\ p \in {now, NextPhase(now)}
      BY <2>2, <2>4 DEF LowPins, Phases
    <3> QED  BY <1>1, <2>1, <2>2, <2>4, <3>1 DEF Decode, MultiLow
  <2> QED  BY <1>1, <2>3, <2>4
<1> QED  BY <1>2, <1>3 DEF LoopTypes

\* A status decoded from pins that were read is never at odds with them,
\* whatever the status before: a wrong past only confuses the two positions
\* whose pins are alike.
LEMMA DecodeAgrees ==
  ASSUME NEW mm \in LoopTypes, NEW p \in Phases, NEW now \in Statuses,
         check_mold_status2(2, Pins(mm, p), now, mm) # Unknown
  PROVE  Pins(mm, check_mold_status2(2, Pins(mm, p), now, mm)) = Pins(mm, p)
<1> DEFINE bits == Pins(mm, p)
           s == check_mold_status2(2, bits, now, mm)
<1> USE DEF Unknown, Opened, Closing, Closed, Opening, SingleLoop, MultiLoop
<1>1. CASE mm = SingleLoop
  <2>1. bits = [closing |-> IF p = 2 THEN 1 ELSE 0,
                opening |-> IF p = 4 THEN 1 ELSE 0]
    BY <1>1 DEF Pins
  <2>2. s = IF p = 2 THEN 2 ELSE IF p = 4 THEN 4 ELSE SingleLow(now)
    BY <1>1, <2>1 DEF check_mold_status2, Decode
  <2>3. SingleLow(now) \in {1, 3}
    BY DEF SingleLow
  <2>4. Pins(mm, s) = [closing |-> IF s = 2 THEN 1 ELSE 0,
                       opening |-> IF s = 4 THEN 1 ELSE 0]
    BY <1>1 DEF Pins
  <2> HIDE DEF bits, s
  <2>5. (s = 2 <=> p = 2) /\ (s = 4 <=> p = 4)
    BY <2>2, <2>3
  <2> QED  BY <2>1, <2>4, <2>5 DEF bits, s
<1>2. CASE mm = MultiLoop
  <2>1. bits = [closing |-> IF p = 3 THEN 1 ELSE 0,
                opening |-> IF p = 1 THEN 1 ELSE 0]
    BY <1>2 DEF Pins
  <2>2. s = IF p = 3 THEN 3 ELSE IF p = 1 THEN 1 ELSE MultiLow(now)
    BY <1>2, <2>1 DEF check_mold_status2, Decode
  <2>3. MultiLow(now) \in {0, 2, 4}
    BY DEF MultiLow
  <2>4. Pins(mm, s) = [closing |-> IF s = 3 THEN 1 ELSE 0,
                       opening |-> IF s = 1 THEN 1 ELSE 0]
    BY <1>2 DEF Pins
  <2> HIDE DEF bits, s
  <2>5. (s = 3 <=> p = 3) /\ (s = 1 <=> p = 1)
    BY <2>2, <2>3
  <2> QED  BY <2>1, <2>4, <2>5 DEF bits, s
<1> QED  BY <1>1, <1>2 DEF LoopTypes

-----------------------------------------------------------------------------
(* Type correctness.                                                       *)

\* A row built from values of the right types is a row.
LEMMA RowType ==
  ASSUME NEW c \in Nat, NEW p \in Phases, NEW s \in UInt16,
         NEW b \in Nat \cup {NoCycle}, NEW a \in Nat \cup {NoCycle}
  PROVE  RowOf(c, p, s, b, a) \in Rows
BY DEF Rows, RowOf

\* Every variable of the loop keeps its type, whatever fails and however often
\* the collector is killed: in particular the shot number stays a natural
\* number, and every row that is sent to the database is well formed.
THEOREM TypeCorrect == Spec => []TypeOK
<1> USE MoldCycleAssumption
<1>1. Init => TypeOK
  <2> SUFFICES ASSUME Init PROVE TypeOK
    OBVIOUS
  <2>1. opc \in NodeValues /\ opcTarget \in NodeValues
    BY DEF Init, NodeValues, NodesAt
  <2>2. mold \in Phases /\ dbShotSN \in Nat /\ intShotSN \in Nat
    BY MoldCycleAssumption DEF Init, MoldCycleAssumption
  <2> QED  BY <2>1, <2>2 DEF Init, TypeOK, Statuses
<1>2. TypeOK /\ [Next]_vars => TypeOK'
  <2> SUFFICES ASSUME TypeOK, [Next]_vars PROVE TypeOK'
    OBVIOUS
  <2>1. CASE MoldMoves
    <3>1. mold' \in Phases
      BY <2>1 DEF TypeOK, MoldMoves, NextPhase, Phases, Opened, Closing, Closed,
                  Opening
    <3>2. done' \in Nat
      BY <2>1 DEF TypeOK, MoldMoves
    <3>3. dbShotSN' \in Nat
      BY <2>1, <3>2 DEF TypeOK, MoldMoves, MoldCycleAssumption
    <3> QED  BY <2>1, <3>1, <3>2, <3>3 DEF TypeOK, MoldMoves, nodes
  <2>2. CASE ShotAdvances
    BY <2>2 DEF TypeOK, ShotAdvances, machine, nodes
  <2>3. CASE CheckMold
    <3>1. \A rc, bits :
            check_mold_status2(rc, bits, mold_status_now, MmType) \in Statuses
      BY DecoderType
    <3> QED  BY <2>3, <3>1 DEF TypeOK, CheckMold, Poll, nodes
  <2>4. CASE HandleOpened
    <3>1. opcTarget' \in NodeValues
      BY <2>4 DEF TypeOK, HandleOpened, TellNodes, TellNothing, NodesAt,
                  NodeValues, nodes
    <3>2. intShotSN' \in Nat
      BY <2>4 DEF TypeOK, HandleOpened, NextShotSN
    <3>3. RD_last' \in Nat \cup {NoCycle}
      BY <2>4 DEF TypeOK, HandleOpened, Cleared
    <3>4. mold_status' \in Statuses /\ isMolding' \in {0, 1}
      BY <2>4 DEF TypeOK, HandleOpened, Statuses, Phases
    <3> QED
      BY <2>4, <3>1, <3>2, <3>3, <3>4
      DEF TypeOK, HandleOpened, TellNodes, TellNothing, machine, nodes
  <2>5. CASE HandleClosing
    BY <2>5 DEF TypeOK, HandleClosing, TellNodes, NodesAt, NodeValues, QueriedShotSN,
                machine, nodes, Statuses, Phases
  <2>6. CASE HandleOpening
    BY <2>6 DEF TypeOK, HandleOpening, TellNodes, TellNothing, NodesAt, NodeValues,
                machine, nodes, Statuses, Phases
  <2>7. CASE HandleClosed
    BY <2>7 DEF TypeOK, HandleClosed, TellNodes, TellNothing, NodesAt, NodeValues,
                machine, nodes, Statuses, Phases
  <2>8. CASE WriteClamped
    BY <2>8 DEF TypeOK, WriteClamped, WriteNode, NodeValues, NodeNames, machine
  <2>9. CASE WriteReleased
    BY <2>9 DEF TypeOK, WriteReleased, WriteNode, NodeValues, NodeNames, machine
  <2>10. CASE Collect
    <3>1. ShotField(intShotSN) \in UInt16
      BY DEF TypeOK, ShotField, UInt16
    <3>2. /\ done \in Nat /\ mold \in Phases
          /\ timestamp_base \in Nat \cup {NoCycle}
          /\ RD_last \in Nat \cup {NoCycle}
      BY DEF TypeOK
    <3>3. row' = RowOf(done, mold, ShotField(intShotSN), timestamp_base,
                       RD_last)
      BY <2>10 DEF Collect
    <3>4. row' \in Rows
      BY <3>1, <3>2, <3>3, RowType
    <3> QED  BY <2>10, <3>4 DEF TypeOK, Collect, machine, nodes
  <2>11. CASE SkipCollect
    BY <2>11 DEF TypeOK, SkipCollect, machine, nodes
  <2>12. CASE Terminate
    BY <2>12 DEF TypeOK, Terminate, machine, nodes
  <2>13. CASE Sigint
    BY <2>13 DEF TypeOK, Sigint, machine, nodes
  <2>14. CASE Restart
    <3>1. /\ restarts' \in Nat /\ intShotSN' \in Nat
          /\ RD_last' \in Nat \cup {NoCycle}
          /\ timestamp_base' \in Nat \cup {NoCycle}
      BY <2>14 DEF TypeOK, Restart
    <3>2. /\ mold_status' \in Statuses /\ mold_status_now' \in Statuses
          /\ isMolding' \in {0, 1} /\ Running' \in {0, 1}
      BY <2>14 DEF Restart, Statuses
    <3>3. pc' \in {"poll", "handle", "clamped", "released", "collect", "exit"}
      BY <2>14 DEF Restart
    <3>4. UNCHANGED <<machine, nodes, dbShotSN, row>>
      BY <2>14 DEF Restart
    <3> QED  BY <3>1, <3>2, <3>3, <3>4 DEF TypeOK, machine, nodes
  <2>15. CASE UNCHANGED vars
    BY <2>15 DEF TypeOK, vars
  <2> QED
    BY <2>1, <2>2, <2>3, <2>4, <2>5, <2>6, <2>7, <2>8, <2>9, <2>10, <2>11,
       <2>12, <2>13, <2>14, <2>15 DEF Next, Loop, Handle
<1> QED  BY <1>1, <1>2, PTL DEF Spec

-----------------------------------------------------------------------------
(* The statuses.                                                           *)

\* StatusCoherent holds for both types of machine and under every fault: it
\* is inductive together with the fact that a shot is never under way once
\* an opened was handled.
THEOREM StatusesCohere == Spec => []StatusCoherent
<1>1. Init => StatusCoherent
  BY DEF Init, StatusCoherent, Unknown, Closing, Opening
<1>2. StatusCoherent /\ [Next]_vars => StatusCoherent'
  <2> SUFFICES ASSUME StatusCoherent, [Next]_vars PROVE StatusCoherent'
    OBVIOUS
  <2> USE DEF StatusCoherent, Unknown, Opened, Closing, Closed, Opening
  <2>1. CASE MoldMoves \/ ShotAdvances \/ Sigint
    BY <2>1 DEF MoldMoves, ShotAdvances, Sigint
  <2>2. CASE CheckMold
    BY <2>2 DEF CheckMold, Poll
  <2>3. CASE HandleOpened
    BY <2>3 DEF HandleOpened, TellNodes, TellNothing
  <2>4. CASE HandleClosing
    BY <2>4 DEF HandleClosing, TellNodes
  <2>5. CASE HandleOpening
    BY <2>5 DEF HandleOpening, TellNodes, TellNothing
  <2>6. CASE HandleClosed
    BY <2>6 DEF HandleClosed, TellNodes, TellNothing
  <2>7. CASE WriteClamped \/ WriteReleased
    BY <2>7 DEF WriteClamped, WriteReleased, WriteNode
  <2>8. CASE Collect \/ SkipCollect \/ Terminate
    BY <2>8 DEF Collect, SkipCollect, Terminate
  <2>9. CASE Restart
    BY <2>9 DEF Restart
  <2>10. CASE UNCHANGED vars
    BY <2>10 DEF vars
  <2> QED
    BY <2>1, <2>2, <2>3, <2>4, <2>5, <2>6, <2>7, <2>8, <2>9, <2>10
    DEF Next, Loop, Handle
<1> QED  BY <1>1, <1>2, PTL DEF Spec

\* A status that is acted upon agrees with the pins of that moment as long as
\* reading them does not fail, though phases are missed, the program is
\* restarted in any phase and the past status is wrong: what the table above
\* check_mold_status2() says is broken by failed reads and by nothing else.
THEOREM StatusNeedsPins ==
  ASSUME "read" \notin Faults
  PROVE  Spec => StatusAgreesWithPins
<1>1. TypeOK /\ [Next]_vars
        => [CheckMold /\ pc' = "handle"
              => Pins(MmType, mold_status_now') = Pins(MmType, mold)]_vars
  <2> SUFFICES ASSUME TypeOK, CheckMold, pc' = "handle"
               PROVE  Pins(MmType, mold_status_now') = Pins(MmType, mold)
    OBVIOUS
  <2> DEFINE status == check_mold_status2(2, Pins(MmType, mold),
                                          mold_status_now, MmType)
  <2>1. pc = "poll" /\ Poll
    BY DEF CheckMold
  <2>2. IF status = Unknown THEN UNCHANGED <<pc, mold_status_now>>
                            ELSE pc' = "handle" /\ mold_status_now' = status
    BY <2>1 DEF Poll
  <2>3. status # Unknown /\ mold_status_now' = status
    BY <2>1, <2>2
  <2>4. MmType \in LoopTypes /\ mold \in Phases /\ mold_status_now \in Statuses
    BY MoldCycleAssumption DEF TypeOK
  <2> QED  BY <2>3, <2>4, DecodeAgrees
<1> QED  BY <1>1, TypeCorrect, PTL DEF Spec, StatusAgreesWithPins

-----------------------------------------------------------------------------
(* The shot number.                                                        *)

\* The local shot number never runs ahead of the database by more than the
\* increment of mold opened, and not at all during a shot: the database's
\* number only grows, because it follows the cycles completed, and every
\* closing adopts it (or 0).
THEOREM ShotNumberBounded == Spec => []NeverAheadOfDb
<1> DEFINE Inv == DbFollowsMold /\ NeverAheadOfDb
<1>1. Init => Inv
  BY MoldCycleAssumption
  DEF MoldCycleAssumption, Init, DbFollowsMold, TrueShotSN, NeverAheadOfDb
<1>2. TypeOK /\ Inv /\ [Next]_vars => Inv'
  <2> SUFFICES ASSUME TypeOK, Inv, [Next]_vars PROVE Inv'
    OBVIOUS
  <2> USE DEF DbFollowsMold, TrueShotSN, NeverAheadOfDb
  <2>1. /\ intShotSN \in Nat /\ dbShotSN \in Nat /\ done \in Nat
        /\ isMolding \in {0, 1} /\ FirstShotSN \in Nat
    BY MoldCycleAssumption DEF TypeOK, MoldCycleAssumption
  <2>2. CASE MoldMoves
    <3>1. /\ done' = done \/ done' = done + 1
          /\ intShotSN' = intShotSN /\ isMolding' = isMolding
      BY <2>2 DEF MoldMoves
    <3>2. dbShotSN' = dbShotSN \/ dbShotSN' = FirstShotSN + done'
      BY <2>2 DEF MoldMoves
    <3>3. dbShotSN' <= FirstShotSN + done' /\ dbShotSN <= dbShotSN'
      BY <2>1, <3>1, <3>2
    <3>4. dbShotSN' \in Nat
      BY <2>1, <3>1, <3>2
    <3>5. \A s, d, e \in Nat : s <= d + 1 /\ d <= e => s <= e + 1
      OBVIOUS
    <3>6. intShotSN <= dbShotSN' + 1
      BY <2>1, <3>3, <3>4, <3>5
    <3>7. isMolding = 1 => intShotSN <= dbShotSN'
      BY <2>1, <3>3, <3>4
    <3> QED  BY <3>1, <3>3, <3>6, <3>7
  <2>3. CASE ShotAdvances
    BY <2>1, <2>3 DEF ShotAdvances, machine
  <2>4. CASE HandleOpened
    BY <2>1, <2>4 DEF HandleOpened, NextShotSN, machine
  <2>5. CASE HandleClosing
    <3>1. isMolding' = 1 /\ intShotSN' \in {dbShotSN, 0}
          /\ UNCHANGED <<dbShotSN, done>>
      BY <2>5 DEF HandleClosing, QueriedShotSN, machine
    <3> QED  BY <2>1, <3>1
  <2>6. CASE Restart
    <3>1. intShotSN' = dbShotSN /\ isMolding' = 0
          /\ UNCHANGED <<dbShotSN, done>>
      BY <2>6 DEF Restart, machine
    <3> QED  BY <2>1, <3>1
  <2>7. ASSUME \/ CheckMold \/ HandleOpening \/ HandleClosed \/ WriteClamped
               \/ WriteReleased \/ Collect \/ SkipCollect \/ Terminate
               \/ Sigint \/ UNCHANGED vars
        PROVE  UNCHANGED <<intShotSN, dbShotSN, done, isMolding>>
    BY <2>7 DEF CheckMold, HandleOpening, HandleClosed, WriteClamped,
                WriteReleased, WriteNode, Collect, SkipCollect, Terminate,
                Sigint, vars, machine
  <2> QED
    BY <2>2, <2>3, <2>4, <2>5, <2>6, <2>7 DEF Next, Loop, Handle
<1> QED  BY <1>1, <1>2, TypeCorrect, PTL DEF Spec

-----------------------------------------------------------------------------
(* The two OPC UA nodes.                                                   *)

\* At no moment, not even between the two writes of a handler or after a
\* crash there, do the nodes say clamped and released at once, unless the
\* latest write of one of them failed.
THEOREM NodesNeverBoth == Spec => []OpcNeverBoth
<1>1. Init => OpcOrdered
  <2> SUFFICES ASSUME Init PROVE OpcOrdered
    OBVIOUS
  <2>1. opcTarget["clamped"] = 0 /\ pc = "poll" /\ opc # NodesAt(1, 1)
    BY DEF Init, NodesAt, NodeNames
  <2>2. mold_status # Closing
    BY DEF Init, Unknown, Closing
  <2> QED  BY <2>1, <2>2 DEF OpcOrdered, OpcNeverBoth
<1>2. TypeOK /\ OpcOrdered /\ [Next]_vars => OpcOrdered'
  <2> SUFFICES ASSUME TypeOK, OpcOrdered, [Next]_vars PROVE OpcOrdered'
    OBVIOUS
  <2> USE DEF OpcOrdered, OpcNeverBoth, LowOrLost, NodeNames
  <2>1. CASE MoldMoves \/ ShotAdvances \/ Sigint
    BY <2>1 DEF MoldMoves, ShotAdvances, Sigint, nodes
  <2>2. CASE CheckMold
    BY <2>2 DEF CheckMold, Poll, nodes
  <2>3. CASE HandleOpened
    BY <2>3 DEF HandleOpened, TellNodes, TellNothing, NodesAt, nodes, Opened,
                Closing
  <2>4. CASE HandleClosing
    BY <2>4 DEF HandleClosing, TellNodes, NodesAt
  <2>5. CASE HandleOpening
    BY <2>5 DEF HandleOpening, TellNodes, TellNothing, NodesAt, nodes, Opening,
                Closing
  <2>6. CASE HandleClosed
    BY <2>6 DEF HandleClosed, ClosingSeen, TellNodes, TellNothing, NodesAt,
                nodes, Closed, Closing
  <2>7. CASE WriteClamped
    <3>1. opc'["released"] = opc["released"] /\ UNCHANGED <<opcTarget, mold_status>>
      BY <2>7 DEF WriteClamped, WriteNode, NodeValues, TypeOK
    <3>2. \/ /\ opc'["clamped"] = opcTarget["clamped"]
             /\ opcLost' = opcLost \ {"clamped"}
          \/ /\ opc'["clamped"] = opc["clamped"]
             /\ opcLost' = opcLost \cup {"clamped"}
      BY <2>7 DEF WriteClamped, WriteNode, NodeValues, TypeOK
    <3>3. pc = "clamped" /\ pc' = "released"
      BY <2>7 DEF WriteClamped, WriteNode
    <3>4. /\ opcTarget["clamped"] \in {0, 1} /\ opcTarget["released"] \in {0, 1}
          /\ opcTarget' = opcTarget
      BY <3>1 DEF TypeOK, NodeValues
    <3>5. opc' = NodesAt(1, 1) => opc'["clamped"] = 1 /\ opc'["released"] = 1
      BY DEF NodesAt, NodeNames
    <3>6. CASE opcTarget["clamped"] = 1
      <4>1. LowOrLost("released")
        BY <3>3, <3>6
      <4>2. LowOrLost("released")'
        BY <3>1, <3>2, <4>1
      <4>3. OpcNeverBoth'
        BY <3>1, <3>5, <4>2
      <4>4. opcTarget["released"] = 0
        BY <3>6
      <4> QED  BY <3>1, <3>3, <3>4, <3>6, <4>2, <4>3, <4>4
    <3>7. CASE opcTarget["clamped"] = 0
      <4>1. LowOrLost("clamped")'
        BY <3>2, <3>7
      <4>2. OpcNeverBoth'
        BY <3>5, <4>1
      <4>3. mold_status = Closing /\ LowOrLost("released") => LowOrLost("released")'
        BY <3>1, <3>2, <3>7
      <4> QED  BY <3>1, <3>3, <3>4, <4>1, <4>2, <4>3
    <3> QED  BY <3>4, <3>6, <3>7
  <2>8. CASE WriteReleased
    <3>1. opc'["clamped"] = opc["clamped"] /\ UNCHANGED <<opcTarget, mold_status>>
      BY <2>8 DEF WriteReleased, WriteNode, NodeValues, TypeOK
    <3>2. \/ /\ opc'["released"] = opcTarget["released"]
             /\ opcLost' = opcLost \ {"released"}
          \/ /\ opc'["released"] = opc["released"]
             /\ opcLost' = opcLost \cup {"released"}
      BY <2>8 DEF WriteReleased, WriteNode, NodeValues, TypeOK
    <3>3. pc = "released" /\ pc' = "collect"
      BY <2>8 DEF WriteReleased, WriteNode
    <3>4. /\ opcTarget["clamped"] \in {0, 1} /\ opcTarget["released"] \in {0, 1}
          /\ opcTarget' = opcTarget
      BY <3>1 DEF TypeOK, NodeValues
    <3>5. opc' = NodesAt(1, 1) => opc'["clamped"] = 1 /\ opc'["released"] = 1
      BY DEF NodesAt, NodeNames
    <3>6. CASE opcTarget["released"] = 1
      <4>1. LowOrLost("clamped")
        BY <3>3, <3>6
      <4>2. LowOrLost("clamped")'
        BY <3>1, <3>2, <4>1
      <4>3. OpcNeverBoth'
        BY <3>1, <3>5, <4>2
      <4>4. opcTarget["clamped"] = 0
        BY <3>6
      <4> QED  BY <3>1, <3>3, <3>4, <3>6, <4>2, <4>3, <4>4
    <3>7. CASE opcTarget["released"] = 0
      <4>1. LowOrLost("released")'
        BY <3>2, <3>7
      <4>2. OpcNeverBoth'
        BY <3>5, <4>1
      <4>3. mold_status = Closing /\ LowOrLost("released") => LowOrLost("released")'
        BY <3>1, <3>2, <3>7
      <4> QED  BY <3>1, <3>3, <3>4, <4>1, <4>2, <4>3
    <3> QED  BY <3>4, <3>6, <3>7
  <2>9. CASE Collect \/ SkipCollect \/ Terminate
    BY <2>9 DEF Collect, SkipCollect, Terminate, nodes
  <2>10. CASE Restart
    BY <2>10 DEF Restart, nodes, Unknown, Closing
  <2>11. CASE UNCHANGED vars
    BY <2>11 DEF vars
  <2> QED
    BY <2>1, <2>2, <2>3, <2>4, <2>5, <2>6, <2>7, <2>8, <2>9, <2>10, <2>11
    DEF Next, Loop, Handle
<1>3. OpcOrdered => OpcNeverBoth
  BY DEF OpcOrdered
<1> QED  BY <1>1, <1>2, <1>3, TypeCorrect, PTL DEF Spec
=============================================================================
