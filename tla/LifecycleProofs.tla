--------------------------- MODULE LifecycleProofs ---------------------------
(***************************************************************************)
(* Theorems about Lifecycle, for any number of instances and any faults:   *)
(* type correctness, what the process id in the row is worth, and what is  *)
(* known of the order and the shot number when collecting begins.          *)
(***************************************************************************)
EXTENDS Lifecycle, TLAPS

-----------------------------------------------------------------------------
(* Type correctness.                                                       *)

Steps == {"off", "loop", "clear", "ended"} \cup Startup
Fates == {"none", "failed", "stopped", "killed"}

LEMMA GotoType ==
  ASSUME NEW i \in Instances, NEW step \in Steps, TypeOK, Goto(i, step)
  PROVE  /\ pc' \in [Instances -> Steps]
         /\ fate' \in [Instances -> Fates]
BY DEF TypeOK, Goto, Steps, Fates

LEMMA EndsType ==
  ASSUME NEW i \in Instances, NEW how \in Fates, TypeOK, Ends(i, how)
  PROVE  /\ pc' \in [Instances -> Steps]
         /\ fate' \in [Instances -> Fates]
BY DEF TypeOK, Ends, Steps, Fates

LEMMA UpdateType ==
  ASSUME NEW i \in Instances, NEW pid \in Instances \cup {NoPID}, TypeOK,
         UpdatePID(i, pid)
  PROVE  /\ ModbusPID' \in Instances \cup {NoPID}
         /\ unwritten' \subseteq Instances
BY DEF TypeOK, UpdatePID

\* Every variable keeps its type: the row names an instance or nobody.
THEOREM TypeCorrect == Spec => []TypeOK
<1>1. Init => TypeOK
  BY DEF Init, TypeOK
<1>2. TypeOK /\ [Next]_vars => TypeOK'
  <2> SUFFICES ASSUME TypeOK, [Next]_vars PROVE TypeOK'
    OBVIOUS
  <2>0. /\ \A s \in Startup : s \in Steps
        /\ "loop" \in Steps /\ "clear" \in Steps
        /\ \A s \in {"register", "info", "order", "shot", "sensors", "connect",
                     "ranges"} : s \in Startup
    BY DEF Steps, Startup
  <2>1. ASSUME NEW i \in Instances, Start(i) PROVE TypeOK'
    <3>1. pc' \in [Instances -> Steps] /\ fate' \in [Instances -> Fates]
      BY <2>1, <2>0, GotoType DEF Start
    <3>2. overlapped' \subseteq Instances
      BY <2>1 DEF Start, Alive, TypeOK
    <3> QED  BY <2>1, <3>1, <3>2 DEF Start, TypeOK, Steps, Fates, row, local
  <2>2. ASSUME NEW i \in Instances, Register(i) PROVE TypeOK'
    <3>1. pc' \in [Instances -> Steps] /\ fate' \in [Instances -> Fates]
      BY <2>2, <2>0, GotoType DEF Register
    <3>2. ModbusPID' \in Instances \cup {NoPID} /\ unwritten' \subseteq Instances
      BY <2>2, UpdateType DEF Register, RegisteredPID
    <3> QED  BY <2>2, <3>1, <3>2 DEF Register, TypeOK, Steps, Fates, local
  <2>3. ASSUME NEW i \in Instances, ReadInfo(i) PROVE TypeOK'
    <3>1. pc' \in [Instances -> Steps] /\ fate' \in [Instances -> Fates]
      BY <2>3, <2>0, GotoType, EndsType DEF ReadInfo, Fates
    <3> QED
      BY <2>3, <3>1 DEF ReadInfo, TypeOK, Steps, Fates, row, local, hist
  <2>4. ASSUME NEW i \in Instances, ReadOrder(i) PROVE TypeOK'
    <3>1. pc' \in [Instances -> Steps] /\ fate' \in [Instances -> Fates]
      BY <2>4, <2>0, GotoType, EndsType DEF ReadOrder, Fates
    <3>2. intMOSN' \in [Instances -> MOs \cup {NoMO}]
      BY <2>4 DEF ReadOrder, TypeOK
    <3> QED
      BY <2>4, <3>1, <3>2 DEF ReadOrder, TypeOK, Steps, Fates, row, hist
  <2>5. ASSUME NEW i \in Instances, ReadShot(i) PROVE TypeOK'
    <3>1. pc' \in [Instances -> Steps] /\ fate' \in [Instances -> Fates]
      BY <2>5, <2>0, GotoType, EndsType DEF ReadShot, Fates
    <3>2. intShotSN' \in [Instances -> {0, 1}]
      BY <2>5 DEF ReadShot, TypeOK
    <3> QED
      BY <2>5, <3>1, <3>2 DEF ReadShot, TypeOK, Steps, Fates, row, hist
  <2>6. ASSUME NEW i \in Instances, ReadSensors(i) \/ Connect(i) \/ ReadRanges(i)
                                      \/ LeaveLoop(i) \/ Kill(i)
        PROVE TypeOK'
    <3>1. pc' \in [Instances -> Steps] /\ fate' \in [Instances -> Fates]
      BY <2>6, <2>0, GotoType, EndsType
      DEF ReadSensors, Connect, ReadRanges, LeaveLoop, Kill, Fates
    <3>2. UNCHANGED <<row, local, hist, edits>>
      BY <2>6 DEF ReadSensors, Connect, ReadRanges, LeaveLoop, Kill
    <3> QED  BY <3>1, <3>2 DEF TypeOK, Steps, Fates, row, local, hist
  <2>7. ASSUME NEW i \in Instances, Clear(i) PROVE TypeOK'
    <3>1. pc' \in [Instances -> Steps] /\ fate' \in [Instances -> Fates]
      BY <2>7, EndsType DEF Clear, Fates
    <3>2. ModbusPID' \in Instances \cup {NoPID} /\ unwritten' \subseteq Instances
      BY <2>7, UpdateType DEF Clear, ClearedPID
    <3> QED  BY <2>7, <3>1, <3>2 DEF Clear, TypeOK, Steps, Fates, local
  <2>8. ASSUME NEW i \in Instances, Sigint(i) PROVE TypeOK'
    BY <2>8 DEF Sigint, TypeOK, row, hist
  <2>9. CASE EditRow
    BY <2>9 DEF EditRow, TypeOK, local, hist
  <2>10. CASE UNCHANGED vars
    BY <2>10 DEF vars, TypeOK
  <2> QED
    BY <2>1, <2>2, <2>3, <2>4, <2>5, <2>6, <2>7, <2>8, <2>9, <2>10
    DEF Next, Step
<1> QED  BY <1>1, <1>2, PTL DEF Spec

-----------------------------------------------------------------------------
(* The process id in the row.                                              *)

\* Where an instance has registered and not yet cleared the row.
Served == {"info", "order", "shot", "sensors", "connect", "ranges", "loop",
           "clear"}

\* Why CollectorIsNamed holds: two instances that are alive at once both know
\* of it in "overlapped", so that whoever is not in it is the only one that
\* can have touched the row since it registered.
OverlapKnown ==
  \A i, j \in Instances :
    i \in Alive /\ j \in Alive /\ i # j => i \in overlapped
NamedWhileServed ==
  \A i \in Instances : pc[i] \in Served =>
    ModbusPID = i \/ i \in overlapped \cup unwritten

\* The steps of i that go on or end and leave the row alone.
Quiet(i) == \/ ReadInfo(i) \/ ReadOrder(i) \/ ReadShot(i) \/ ReadSensors(i)
            \/ Connect(i) \/ ReadRanges(i) \/ LeaveLoop(i) \/ Kill(i)

\* What a quiet step of i does, to i and to the rest.
LEMMA QuietStep ==
  ASSUME NEW i \in Instances, TypeOK, Quiet(i)
  PROVE  /\ UNCHANGED <<ModbusPID, overlapped, unwritten>>
         /\ \A j \in Instances : j # i => pc'[j] = pc[j] /\ fate'[j] = fate[j]
         /\ pc[i] \in Served \cup {"register"}
         /\ \/ pc[i] \in Served /\ pc'[i] \in Served
            \/ pc'[i] = "ended" /\ fate'[i] \in {"failed", "killed"}
<1> USE DEF Served, Goto, Ends, row, hist
<1>0. pc \in [Instances -> Steps] /\ fate \in [Instances -> Fates]
  BY DEF TypeOK, Steps, Fates
<1>1. CASE ReadInfo(i)     BY <1>0, <1>1 DEF ReadInfo
<1>2. CASE ReadOrder(i)    BY <1>0, <1>2 DEF ReadOrder
<1>3. CASE ReadShot(i)     BY <1>0, <1>3 DEF ReadShot
<1>4. CASE ReadSensors(i)  BY <1>0, <1>4 DEF ReadSensors
<1>5. CASE Connect(i)      BY <1>0, <1>5 DEF Connect
<1>6. CASE ReadRanges(i)   BY <1>0, <1>6 DEF ReadRanges
<1>7. CASE LeaveLoop(i)    BY <1>0, <1>7 DEF LeaveLoop
<1>8. CASE Kill(i)         BY <1>0, <1>8 DEF Kill, Alive, Startup
<1> QED  BY <1>1, <1>2, <1>3, <1>4, <1>5, <1>6, <1>7, <1>8 DEF Quiet

LEMMA AliveMeans ==
  ASSUME NEW i \in Instances
  PROVE  i \in Alive <=> pc[i] \in Served \cup {"register"}
BY DEF Alive, Startup, Served

LEMMA AliveMeansNext ==
  ASSUME NEW i \in Instances
  PROVE  i \in Alive' <=> pc'[i] \in Served \cup {"register"}
BY DEF Alive, Startup, Served

\* Whoever collects is named by the row, for any number of instances, unless
\* its registration failed or another instance was alive beside it.
THEOREM CollectorNamed == Spec => []CollectorIsNamed
<1> DEFINE IInv == TypeOK /\ OverlapKnown /\ NamedWhileServed
<1>1. Init => OverlapKnown /\ NamedWhileServed
  BY DEF Init, OverlapKnown, NamedWhileServed, Alive, Startup, Served
<1>2. IInv /\ TypeOK' /\ [Next]_vars => OverlapKnown' /\ NamedWhileServed'
  <2> SUFFICES ASSUME IInv, TypeOK', [Next]_vars
               PROVE  OverlapKnown' /\ NamedWhileServed'
    OBVIOUS
  <2>0. pc \in [Instances -> Steps] /\ fate \in [Instances -> Fates]
    BY DEF TypeOK, Steps, Fates
  <2>1. ASSUME NEW i \in Instances, Start(i)
        PROVE  OverlapKnown' /\ NamedWhileServed'
    <3>1. /\ pc'[i] = "register" /\ pc[i] = "off"
          /\ \A j \in Instances : j # i => pc'[j] = pc[j]
          /\ UNCHANGED <<ModbusPID, unwritten>>
          /\ overlapped \subseteq overlapped'
          /\ \A j \in Alive : i \in overlapped' /\ j \in overlapped'
      BY <2>0, <2>1 DEF Start, Goto, row
    <3>2. OverlapKnown'
      BY <3>1, AliveMeans, AliveMeansNext DEF OverlapKnown
    <3>3. NamedWhileServed'
      BY <3>1 DEF NamedWhileServed, Served
    <3> QED  BY <3>2, <3>3
  <2>2. ASSUME NEW i \in Instances, Register(i) \/ Clear(i)
        PROVE  OverlapKnown' /\ NamedWhileServed'
    <3>1. /\ \A j \in Instances : j # i => pc'[j] = pc[j]
          /\ pc[i] \in {"register", "clear"}
          /\ pc'[i] = "info" \/ pc'[i] = "ended"
          /\ pc'[i] = "info" => ModbusPID' = i \/ i \in unwritten'
          /\ unwritten \subseteq unwritten' /\ UNCHANGED overlapped
      BY <2>0, <2>2
      DEF Register, Clear, UpdatePID, RegisteredPID, ClearedPID, Goto, Ends
    <3>2. i \in Alive
      BY <3>1, AliveMeans DEF Served
    <3>3. OverlapKnown'
      BY <3>1, <3>2, AliveMeans, AliveMeansNext DEF OverlapKnown
    <3>4. \A j \in Instances : j # i /\ pc'[j] \in Served => j \in overlapped'
      BY <3>1, <3>2, AliveMeans DEF OverlapKnown
    <3>5. NamedWhileServed'
      BY <3>1, <3>4 DEF NamedWhileServed, Served
    <3> QED  BY <3>3, <3>5
  <2>3. ASSUME NEW i \in Instances, Quiet(i)
        PROVE  OverlapKnown' /\ NamedWhileServed'
    <3>1. /\ UNCHANGED <<ModbusPID, overlapped, unwritten>>
          /\ \A j \in Instances : pc'[j] \in Served => pc[j] \in Served
          /\ \A j \in Instances : pc'[j] = "register" => pc[j] = "register"
      BY <2>3, QuietStep DEF Served
    <3>2. OverlapKnown'
      BY <3>1, AliveMeans, AliveMeansNext DEF OverlapKnown
    <3>3. NamedWhileServed'
      BY <3>1 DEF NamedWhileServed
    <3> QED  BY <3>2, <3>3
  <2>4. ASSUME UNCHANGED <<pc, ModbusPID, overlapped, unwritten>>
        PROVE  OverlapKnown' /\ NamedWhileServed'
    BY <2>4 DEF OverlapKnown, NamedWhileServed, Alive
  <2>5. ASSUME NEW i \in Instances, Sigint(i)
        PROVE  UNCHANGED <<pc, ModbusPID, overlapped, unwritten>>
    BY <2>5 DEF Sigint, row, hist
  <2>6. EditRow \/ UNCHANGED vars
          => UNCHANGED <<pc, ModbusPID, overlapped, unwritten>>
    BY DEF EditRow, vars, hist
  <2> QED
    BY <2>1, <2>2, <2>3, <2>4, <2>5, <2>6 DEF Next, Step, Quiet
<1>3. IInv => CollectorIsNamed
  BY DEF NamedWhileServed, Served, CollectorIsNamed
<1> QED  BY <1>1, <1>2, <1>3, TypeCorrect, PTL DEF Spec

\* An instance that was stopped and could clear the row is never named by it
\* again, for any number of instances and whatever overlaps.
THEOREM StaleExplained == Spec => []StaleOnlyAfterFailure
<1>1. Init => StaleOnlyAfterFailure
  BY DEF Init, StaleOnlyAfterFailure
<1>2. TypeOK /\ StaleOnlyAfterFailure /\ [Next]_vars => StaleOnlyAfterFailure'
  <2> SUFFICES ASSUME TypeOK, StaleOnlyAfterFailure, [Next]_vars
               PROVE  StaleOnlyAfterFailure'
    OBVIOUS
  <2>0. pc \in [Instances -> Steps] /\ fate \in [Instances -> Fates]
    BY DEF TypeOK, Steps, Fates
  <2>1. ASSUME NEW i \in Instances, Start(i) PROVE StaleOnlyAfterFailure'
    BY <2>0, <2>1 DEF Start, Goto, row, StaleOnlyAfterFailure
  <2>2. ASSUME NEW i \in Instances, Register(i) PROVE StaleOnlyAfterFailure'
    BY <2>0, <2>2
    DEF Register, UpdatePID, RegisteredPID, Goto, StaleOnlyAfterFailure
  <2>3. ASSUME NEW i \in Instances, Clear(i) PROVE StaleOnlyAfterFailure'
    BY <2>0, <2>3, LifecycleAssumption
    DEF Clear, UpdatePID, ClearedPID, Ends, StaleOnlyAfterFailure
  <2>4. ASSUME NEW i \in Instances, Quiet(i) PROVE StaleOnlyAfterFailure'
    BY <2>4, QuietStep DEF StaleOnlyAfterFailure, Served
  <2>5. ASSUME UNCHANGED <<pc, fate, ModbusPID, unwritten>>
        PROVE  StaleOnlyAfterFailure'
    BY <2>5 DEF StaleOnlyAfterFailure
  <2>6. ASSUME NEW i \in Instances, Sigint(i)
        PROVE  UNCHANGED <<pc, fate, ModbusPID, unwritten>>
    BY <2>6 DEF Sigint, row, hist
  <2>7. EditRow \/ UNCHANGED vars
          => UNCHANGED <<pc, fate, ModbusPID, unwritten>>
    BY DEF EditRow, vars, hist
  <2> QED
    BY <2>1, <2>2, <2>3, <2>4, <2>5, <2>6, <2>7 DEF Next, Step, Quiet
<1> QED  BY <1>1, <1>2, TypeCorrect, PTL DEF Spec

-----------------------------------------------------------------------------
(* What is collected.                                                      *)

\* Past the query for the sensors the order has some: no later step reads
\* the order again, however often the row changes.
Checked == {"connect", "ranges", "loop"}
OrderChecked ==
  \A i \in Instances : pc[i] \in Checked => intMOSN[i] \in SensorMOs

\* It is inductive: the three steps past that query keep the order.
LEMMA OrderAlwaysChecked == Spec => []OrderChecked
<1>1. Init => OrderChecked
  BY DEF Init, OrderChecked, Checked
<1>2. TypeOK /\ OrderChecked /\ [Next]_vars => OrderChecked'
  <2> SUFFICES ASSUME TypeOK, OrderChecked, [Next]_vars PROVE OrderChecked'
    OBVIOUS
  <2>0. /\ pc \in [Instances -> Steps] /\ intMOSN \in [Instances -> MOs \cup {NoMO}]
        /\ {"off", "register", "info", "order", "shot", "sensors", "clear", "ended"}
             \cap Checked = {}
    BY DEF TypeOK, Steps, Checked
  <2>1. ASSUME NEW i \in Instances, intMOSN' = intMOSN,
               \A j \in Instances \ {i} : pc'[j] = pc[j],
               pc'[i] \in Checked => pc[i] \in Checked \/ intMOSN[i] \in SensorMOs
        PROVE  OrderChecked'
    BY <2>1 DEF OrderChecked
  <2>2. ASSUME NEW i \in Instances, ReadSensors(i) PROVE OrderChecked'
    BY <2>0, <2>1, <2>2 DEF ReadSensors, SensorsFound, Goto, Ends, local, Checked
  <2>3. ASSUME NEW i \in Instances, ReadOrder(i) PROVE OrderChecked'
    <3>1. /\ \A j \in Instances \ {i} : pc'[j] = pc[j] /\ intMOSN'[j] = intMOSN[j]
          /\ pc'[i] \notin Checked
      BY <2>0, <2>3 DEF ReadOrder, Goto, Ends, Checked
    <3> QED
      BY <3>1 DEF OrderChecked
  <2>4. ASSUME NEW i \in Instances,
               Start(i) \/ Register(i) \/ ReadInfo(i) \/ ReadShot(i)
        PROVE  OrderChecked'
    BY <2>0, <2>1, <2>4
       DEF Start, Register, ReadInfo, ReadShot, Goto, Ends, local, Checked
  <2>5. ASSUME NEW i \in Instances,
               Connect(i) \/ ReadRanges(i) \/ LeaveLoop(i) \/ Clear(i) \/ Kill(i)
        PROVE  OrderChecked'
    BY <2>0, <2>1, <2>5
       DEF Connect, ReadRanges, LeaveLoop, Clear, Kill, Goto, Ends, local, Checked
  <2>6. CASE UNCHANGED <<pc, intMOSN>>
    BY <2>6 DEF OrderChecked
  <2>7. ASSUME NEW i \in Instances, Sigint(i) PROVE UNCHANGED <<pc, intMOSN>>
    BY <2>7 DEF Sigint
  <2>8. EditRow \/ UNCHANGED vars => UNCHANGED <<pc, intMOSN>>
    BY DEF EditRow, vars, local
  <2> QED
    BY <2>2, <2>3, <2>4, <2>5, <2>6, <2>7, <2>8 DEF Next, Step
<1> QED
  BY <1>1, <1>2, TypeCorrect, PTL DEF Spec

\* No instance ever collects for an order without sensors, for any number of
\* instances, orders and faults, whatever is edited meanwhile.
THEOREM SensorsChecked == Spec => []CollectsForSensors
<1>1. OrderChecked => CollectsForSensors
  BY DEF OrderChecked, CollectsForSensors, Checked
<1> QED
  BY <1>1, OrderAlwaysChecked, PTL

\* What the query for the shot number relies on: the machine's order is not
\* changed between it and the query for the order, and the machine's row has a
\* shot number, neither NULL nor 0, when it is made.
OrderStands ==
  [][\A i \in Instances : pc[i] = "shot" => MOSN' = MOSN]_vars

ShotNumbered == [](\A i \in Instances : pc[i] = "shot" => ShotSN = 1)

\* The order read is still the row's when the shot number is queried, so that
\* past the query only an instance without an order is without a number; the
\* query for the sensors stops that one.
OrderInRow == \A i \in Instances : pc[i] = "shot" => intMOSN[i] = MOSN
ShotFound ==
  \A i \in Instances :
    pc[i] \in Checked \cup {"sensors"} /\ intMOSN[i] # NoMO => intShotSN[i] = 1

\* The program never collects without a shot number, as its message says,
\* provided the order is not changed between the two queries and the row has
\* a shot number at the second.  So these are the only two causes of the
\* contrary, for any number of instances and with queries, updates and the
\* device failing at will.
THEOREM ShotKnown == Spec /\ OrderStands /\ ShotNumbered => []CollectsForShot
<1> DEFINE IInv == OrderInRow /\ ShotFound
           Stands == \A i \in Instances : pc[i] = "shot" => MOSN' = MOSN
           Numbered == \A i \in Instances : pc[i] = "shot" => ShotSN = 1
<1>1. Init => IInv
  BY DEF Init, OrderInRow, ShotFound, Checked
<1>2. TypeOK /\ IInv /\ [Next]_vars /\ [Stands]_vars /\ Numbered => IInv'
  <2> SUFFICES ASSUME TypeOK, IInv, [Next]_vars, [Stands]_vars, Numbered
               PROVE  OrderInRow' /\ ShotFound'
    OBVIOUS
  <2>0. /\ pc \in [Instances -> Steps]
        /\ intMOSN \in [Instances -> MOs \cup {NoMO}]
        /\ intShotSN \in [Instances -> {0, 1}]
        /\ MOSN \in MOs \cup {NoMO}
    BY DEF TypeOK, Steps
  <2> DEFINE Past == Checked \cup {"sensors"}
  <2>1. ASSUME NEW i \in Instances, UNCHANGED <<MOSN, intMOSN, intShotSN>>,
               \A j \in Instances \ {i} : pc'[j] = pc[j],
               pc'[i] # "shot", pc'[i] \in Past => pc[i] \in Past
        PROVE  OrderInRow' /\ ShotFound'
    BY <2>1 DEF OrderInRow, ShotFound
  <2>2. ASSUME NEW i \in Instances,
               Start(i) \/ Register(i) \/ ReadInfo(i) \/ ReadSensors(i)
        PROVE  OrderInRow' /\ ShotFound'
    BY <2>0, <2>1, <2>2
    DEF Start, Register, ReadInfo, ReadSensors, Goto, Ends, row, local, Checked
  <2>3. ASSUME NEW i \in Instances,
               Connect(i) \/ ReadRanges(i) \/ LeaveLoop(i) \/ Clear(i) \/ Kill(i)
        PROVE  OrderInRow' /\ ShotFound'
    BY <2>0, <2>1, <2>3
    DEF Connect, ReadRanges, LeaveLoop, Clear, Kill, Goto, Ends, row, local,
        Checked
  <2>4. ASSUME NEW i \in Instances, ReadOrder(i)
        PROVE  OrderInRow' /\ ShotFound'
    <3>1. /\ UNCHANGED <<MOSN, intShotSN>>
          /\ \A j \in Instances \ {i} : pc'[j] = pc[j] /\ intMOSN'[j] = intMOSN[j]
          /\ pc'[i] \notin Past
          /\ pc'[i] = "shot" => intMOSN'[i] = MOSN
      BY <2>0, <2>4 DEF ReadOrder, Goto, Ends, row, Checked
    <3> QED  BY <3>1 DEF OrderInRow, ShotFound
  <2>5. ASSUME NEW i \in Instances, ReadShot(i)
        PROVE  OrderInRow' /\ ShotFound'
    <3>1. /\ UNCHANGED <<MOSN, intMOSN>> /\ intMOSN[i] = MOSN
          /\ \A j \in Instances \ {i} :
               pc'[j] = pc[j] /\ intShotSN'[j] = intShotSN[j]
          /\ pc'[i] # "shot"
          /\ pc'[i] \in Past /\ MOSN # NoMO => intShotSN'[i] = 1
      BY <2>0, <2>5 DEF ReadShot, Goto, Ends, row, Checked, OrderInRow
    <3> QED  BY <3>1 DEF OrderInRow, ShotFound
  <2>6. CASE EditRow
    <3>1. UNCHANGED <<pc, intMOSN, intShotSN>>
      BY <2>6 DEF EditRow, local
    <3>2. \A i \in Instances : pc[i] = "shot" => MOSN' = MOSN
      BY DEF vars
    <3> QED  BY <3>1, <3>2 DEF OrderInRow, ShotFound
  <2>7. ASSUME UNCHANGED <<pc, MOSN, intMOSN, intShotSN>>
        PROVE  OrderInRow' /\ ShotFound'
    BY <2>7 DEF OrderInRow, ShotFound
  <2>8. ASSUME NEW i \in Instances, Sigint(i)
        PROVE  UNCHANGED <<pc, MOSN, intMOSN, intShotSN>>
    BY <2>8 DEF Sigint, row
  <2>9. UNCHANGED vars => UNCHANGED <<pc, MOSN, intMOSN, intShotSN>>
    BY DEF vars
  <2> QED
    BY <2>2, <2>3, <2>4, <2>5, <2>6, <2>7, <2>8, <2>9 DEF Next, Step
<1>3. OrderChecked /\ ShotFound => CollectsForShot
  <2>1. NoMO \notin SensorMOs
    BY LifecycleAssumption DEF LifecycleAssumption, NoMO
  <2> QED  BY <2>1 DEF OrderChecked, ShotFound, Checked, CollectsForShot
<1> QED
  BY <1>1, <1>2, <1>3, TypeCorrect, OrderAlwaysChecked, PTL
     DEF Spec, OrderStands, ShotNumbered
=============================================================================
