------------------------------ MODULE Lifecycle ------------------------------
(***************************************************************************)
(* The life of INJPRO_MbSDC for one injection machine: register the        *)
(* process id in the machine's database row, read the configuration from   *)
(* the database query by query, connect to the acquisition device, run,    *)
(* and clear the process id at the end.                                    *)
(*                                                                         *)
(* Every step can fail; failures end the program at once or are ignored.   *)
(* Operators change the row meanwhile, kill instances, and nothing keeps   *)
(* them from starting an instance while another is alive.                  *)
(***************************************************************************)
EXTENDS Integers, FiniteSets

CONSTANTS
  Instances,   \* process ids the program may be started with
  MOs,         \* manufacturing orders that may be assigned to the machine
  SensorMOs,   \* those that have sensors mapped to channels
  MaxEdits,    \* bound: changes an operator makes to the row
  Faults       \* which of FaultKinds may happen

(* "kill"    an instance may be killed at any point                         *)
(* "update"  an update of the row's process id may fail                     *)
(* "query"   a query may fail                                               *)
(* "device"  the device may refuse the connection or not answer             *)
FaultKinds == {"kill", "update", "query", "device"}

NoPID == 0    \* NULL in the row
NoMO  == 0    \* no order, and what an unset MOSN holds

ASSUME LifecycleAssumption ==
  /\ Instances \subseteq Nat \ {NoPID}
  /\ MOs \subseteq Nat \ {NoMO}
  /\ SensorMOs \subseteq MOs
  /\ MaxEdits \in Nat
  /\ Faults \subseteq FaultKinds

VARIABLES
  ModbusPID,    \* the row: which instance serves the machine
  MOSN,         \* the row: the order the machine works on
  infoOK,       \* the row: address, version and signal type are usable
  ShotSN,       \* the row: 1 if it has a shot number, 0 if that is NULL or 0
  pc,           \* per instance, the step it is at
  Running,      \* per instance, cleared by SIGINT
  intMOSN,      \* per instance, the order it read
  intShotSN,    \* per instance, 1 if it has a shot number and 0 if not
  fate,         \* history, per instance: how it ended
  overlapped,   \* history: instances that were alive beside another one
  unwritten,    \* history: instances one of whose updates of the row failed
  edits         \* changes to the row so far

row   == <<ModbusPID, MOSN, infoOK, ShotSN>>
local == <<Running, intMOSN, intShotSN>>
hist  == <<overlapped, unwritten>>
vars  == <<ModbusPID, MOSN, infoOK, ShotSN, pc, Running, intMOSN, intShotSN,
           fate, overlapped, unwritten, edits>>

-----------------------------------------------------------------------------
Startup == {"register", "info", "order", "shot", "sensors", "connect", "ranges"}
Alive   == {i \in Instances : pc[i] \in Startup \cup {"loop", "clear"}}

Init ==
  /\ ModbusPID = NoPID
  /\ MOSN \in MOs \cup {NoMO}
  /\ infoOK \in BOOLEAN
  /\ ShotSN \in {0, 1}
  /\ pc = [i \in Instances |-> "off"]
  /\ Running = [i \in Instances |-> 1]
  /\ intMOSN = [i \in Instances |-> NoMO]
  /\ intShotSN = [i \in Instances |-> 0]
  /\ fate = [i \in Instances |-> "none"]
  /\ overlapped = {} /\ unwritten = {}
  /\ edits = 0

-----------------------------------------------------------------------------
(* Steps of instance i.                                                    *)

Goto(i, step) == pc' = [pc EXCEPT ![i] = step] /\ UNCHANGED fate

Ends(i, how) ==
  /\ pc' = [pc EXCEPT ![i] = "ended"]
  /\ fate' = [fate EXCEPT ![i] = how]

May(fault) == fault \in Faults

\* Arguments, configuration file and connection to the database went well.
Start(i) ==
  /\ pc[i] = "off"
  /\ Goto(i, "register")
  /\ overlapped' = IF Alive = {} THEN overlapped
                                 ELSE overlapped \cup Alive \cup {i}
  /\ UNCHANGED <<row, local, unwritten, edits>>

\* db_update_pid(): the row is overwritten, whoever it names; a failure is
\* printed and the program goes on.
UpdatePID(i, pid) ==
  \/ ModbusPID' = pid /\ UNCHANGED unwritten
  \/ /\ May("update")
     /\ unwritten' = unwritten \cup {i}
     /\ UNCHANGED ModbusPID

RegisteredPID_IfFree(i) == IF ModbusPID = NoPID THEN i ELSE ModbusPID
RegisteredPID_Child(i) == i + 1
RegisteredPID(i) == i

Register(i) ==
  /\ pc[i] = "register"
  /\ UpdatePID(i, RegisteredPID(i))
  /\ Goto(i, "info")
  /\ UNCHANGED <<MOSN, infoOK, ShotSN, local, overlapped, edits>>

\* get_Modbus_info_by_IMMSN(): checked, the program ends if unusable.
ReadInfo(i) ==
  /\ pc[i] = "info"
  /\ \/ infoOK /\ Goto(i, "order")
     \/ (~infoOK \/ May("query")) /\ Ends(i, "failed")
  /\ UNCHANGED <<row, local, hist, edits>>

\* get_MOSN_by_IMMSN(): without an order the interface either fails or
\* leaves the number 0.
ReadOrder(i) ==
  /\ pc[i] = "order"
  /\ \/ /\ intMOSN' = [intMOSN EXCEPT ![i] = MOSN]
        /\ Goto(i, "shot")
     \/ /\ MOSN = NoMO \/ May("query")
        /\ Ends(i, "failed")
        /\ UNCHANGED intMOSN
  /\ UNCHANGED <<row, Running, intShotSN, hist, edits>>

\* get_ShotSN_by_IMMSN_MOSN(): a row is found only if the machine still
\* works on that order.  No row leaves the number 0, and so does a row whose
\* ShotSN is NULL or 0; neither is a failure.
ReadShot(i) ==
  /\ pc[i] = "shot"
  /\ \/ /\ intShotSN' = [intShotSN EXCEPT ![i] =
                           IF MOSN = intMOSN[i] /\ MOSN # NoMO THEN ShotSN ELSE 0]
        /\ Goto(i, "sensors")
     \/ /\ May("query") /\ Ends(i, "failed")
        /\ UNCHANGED intShotSN
  /\ UNCHANGED <<row, Running, intMOSN, hist, edits>>

\* get_MOSensorSN_by_MOSN(): order 0 and an order without mapped sensors
\* are failures.
SensorsFound_Any(mo) == TRUE
SensorsFound(mo) == mo # NoMO /\ mo \in SensorMOs

ReadSensors(i) ==
  /\ pc[i] = "sensors"
  /\ \/ SensorsFound(intMOSN[i]) /\ Goto(i, "connect")
     \/ (~SensorsFound(intMOSN[i]) \/ May("query")) /\ Ends(i, "failed")
  /\ UNCHANGED <<row, local, hist, edits>>

\* modbus_new_tcp() and modbus_connect().
Connect(i) ==
  /\ pc[i] = "connect"
  /\ \/ Goto(i, "ranges")
     \/ May("device") /\ Ends(i, "failed")
  /\ UNCHANGED <<row, local, hist, edits>>

\* The type codes give the channels their input ranges.  Whether the device
\* answers makes no difference to what follows: without an answer the loop
\* over it runs zero times.
ReadRanges(i) ==
  /\ pc[i] = "ranges"
  /\ Goto(i, "loop")
  /\ UNCHANGED <<row, local, hist, edits>>

LeavesLoop_Never(i) == FALSE
LeavesLoop(i) == Running[i] = 0

LeaveLoop(i) ==
  /\ pc[i] = "loop" /\ LeavesLoop(i)
  /\ Goto(i, "clear")
  /\ UNCHANGED <<row, local, hist, edits>>

\* The row is cleared whoever it names.
ClearedPID_Kept == ModbusPID
ClearedPID == NoPID

Clear(i) ==
  /\ pc[i] = "clear"
  /\ UpdatePID(i, ClearedPID)
  /\ Ends(i, "stopped")
  /\ UNCHANGED <<MOSN, infoOK, ShotSN, local, overlapped, edits>>

-----------------------------------------------------------------------------
(* What happens to an instance and to the row.                             *)

\* The handler is installed before anything is registered and only clears
\* the flag: a startup under way goes on.
Sigint(i) ==
  /\ i \in Alive /\ Running[i] = 1
  /\ Running' = [Running EXCEPT ![i] = 0]
  /\ UNCHANGED <<row, pc, intMOSN, intShotSN, fate, hist, edits>>

Kill(i) ==
  /\ May("kill") /\ i \in Alive
  /\ Ends(i, "killed")
  /\ UNCHANGED <<row, local, hist, edits>>

EditRow ==
  /\ edits < MaxEdits
  /\ edits' = edits + 1
  /\ MOSN' \in MOs \cup {NoMO}
  /\ infoOK' \in BOOLEAN
  /\ ShotSN' \in {0, 1}
  /\ UNCHANGED <<ModbusPID, pc, local, fate, hist>>

Step(i) == \/ Register(i) \/ ReadInfo(i) \/ ReadOrder(i) \/ ReadShot(i)
           \/ ReadSensors(i) \/ Connect(i) \/ ReadRanges(i)
           \/ LeaveLoop(i) \/ Clear(i)

Next == \/ \E i \in Instances : Start(i) \/ Step(i) \/ Sigint(i) \/ Kill(i)
        \/ EditRow

Spec == Init /\ [][Next]_vars

\* An instance that was started is scheduled; queries and connections
\* succeed or fail.
FairSpec == Spec /\ \A i \in Instances : WF_vars(Step(i))

-----------------------------------------------------------------------------
(* Properties.                                                             *)

TypeOK ==
  /\ ModbusPID \in Instances \cup {NoPID}
  /\ MOSN \in MOs \cup {NoMO} /\ infoOK \in BOOLEAN /\ ShotSN \in {0, 1}
  /\ pc \in [Instances -> {"off", "loop", "clear", "ended"} \cup Startup]
  /\ Running \in [Instances -> {0, 1}]
  /\ intMOSN \in [Instances -> MOs \cup {NoMO}]
  /\ intShotSN \in [Instances -> {0, 1}]
  /\ fate \in [Instances -> {"none", "failed", "stopped", "killed"}]
  /\ overlapped \subseteq Instances /\ unwritten \subseteq Instances
  /\ edits \in Nat

\* A process id outlives its process in the row only if the process was
\* killed, gave up during startup or could not clear the row: whoever is
\* stopped properly is never named afterwards, whatever instances overlap.
StaleOnlyAfterFailure ==
  \A i \in Instances : ModbusPID = i /\ pc[i] = "ended" =>
    fate[i] \in {"failed", "killed"} \/ i \in unwritten

\* An instance that collects data can be found through the row, unless its
\* registration failed or it once ran beside another instance, whose end may
\* have cleared its name.
CollectorIsNamed ==
  \A i \in Instances : pc[i] = "loop" =>
    ModbusPID = i \/ i \in overlapped \cup unwritten

\* No instance collects data for order 0 or for an order without sensors:
\* of the three queries that ought to notice, the last one does.
CollectsForSensors ==
  \A i \in Instances : pc[i] = "loop" => intMOSN[i] \in SensorMOs

\* An instance that was told to stop ends, wherever in its startup it was.
StopsWhenTold ==
  \A i \in Instances : (i \in Alive /\ Running[i] = 0) ~> pc[i] = "ended"

-----------------------------------------------------------------------------
(* What the program's messages say and the code does not do.               *)

\* "No ShotSN available from IMM[%d], ABORT.": the program never reaches its
\* loop without a shot number.
CollectsForShot ==
  \A i \in Instances : pc[i] = "loop" => intShotSN[i] # 0
=============================================================================
