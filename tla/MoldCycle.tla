------------------------------ MODULE MoldCycle ------------------------------
(***************************************************************************)
(* The main loop of INJPRO_MbSDC: follow the mold of one injection machine *)
(* through its cycles, keep the shot number and the time base of the cycle *)
(* under way, tell the OPC UA nodes, and collect sensor data while the     *)
(* mold is closed.                                                         *)
(*                                                                         *)
(* The program polls.  The mold moves on its own, the shot number in the   *)
(* database is written by another program, reads and writes may fail, and  *)
(* the collector may be killed and started again: all of that interleaves  *)
(* with the statements of the loop.                                        *)
(***************************************************************************)
EXTENDS MoldSignal

CONSTANTS
  MmType,          \* mold_signal_type: SingleLoop or MultiLoop
  OpcuaVersionSN,  \* opcua_version_sn: the nodes are written only if it is 1
  StartPhases,     \* where the mold may be when the program starts
  FirstShotSN,     \* the shot number of the first cycle observed
  MaxCycles,       \* bound: cycles the mold goes through
  MaxRestarts,     \* bound: times the collector is killed and started again
  Faults           \* which of FaultKinds may happen

(* "miss"       the mold may pass through a phase between two polls          *)
(* "read"       reading the pins may fail                                    *)
(* "shotlag"    the database may get the next shot number late               *)
(* "shotquery"  the query for the shot number may fail                       *)
(* "opc"        writing a node may fail                                      *)
(* "crash"      the collector may be killed and started again                *)
FaultKinds == {"miss", "read", "shotlag", "shotquery", "opc", "crash"}

ASSUME MoldCycleAssumption ==
  /\ MmType \in LoopTypes
  /\ OpcuaVersionSN \in Nat
  /\ StartPhases \subseteq Phases
  /\ FirstShotSN \in Nat \ {0}
  /\ MaxCycles \in Nat
  /\ MaxRestarts \in Nat
  /\ Faults \subseteq FaultKinds

VARIABLES
  mold,             \* the phase the mold is in
  done,             \* the number of cycles it has completed
  polled,           \* the pins were read since the mold last moved
  dbShotSN,         \* ShotSN of the machine in the database
  opc,              \* the values of the two OPC UA nodes
  pc,               \* where the collector is in its loop
  Running,          \* cleared by SIGINT
  mold_status_now,  \* the status decoded last
  mold_status,      \* the status acted upon last
  isMolding,        \* a closing was seen since the last opened
  intShotSN,        \* the local copy of the shot number
  timestamp_base,   \* the cycle at whose closing the clock was read
  RD_last,          \* the cycle whose readings the dedup table holds
  opcTarget,        \* the values the handler is writing to the nodes
  opcLost,          \* history: nodes whose latest write failed
  row,              \* history: the latest rows sent to the database
  restarts          \* times the collector was started again

machine == <<mold, done, polled>>
nodes   == <<opc, opcTarget, opcLost>>
vars    == <<mold, done, polled, dbShotSN, opc, pc, Running, mold_status_now,
             mold_status, isMolding, intShotSN, timestamp_base, RD_last,
             opcTarget, opcLost, row, restarts>>

-----------------------------------------------------------------------------
NoCycle   == -1               \* a cleared table, or a base never taken
NoRow     == [cycle |-> NoCycle]
NodeNames == {"clamped", "released"}
NodesAt(c, r) == [name \in NodeNames |-> IF name = "clamped" THEN c ELSE r]
NodeValues    == [NodeNames -> {0, 1}]

\* What one call of SensorDataProcess() stores: the cycle and phase it is
\* measured in, the shot number it bears, the base it is timed from, and the
\* cycle whose readings it was compared with.
RowOf(c, p, s, b, a) ==
  [cycle |-> c, phase |-> p, shot |-> s, base |-> b, against |-> a]

\* MO_sensor_data_t keeps the shot number in a uint16_t.
UInt16 == 0..65535
ShotField(sn) == sn % 65536

\* The shot number that belongs to the cycle under way.
TrueShotSN == FirstShotSN + done

Init ==
  /\ mold \in StartPhases
  /\ done = 0
  /\ polled = FALSE
  /\ dbShotSN = FirstShotSN
  /\ opc \in NodeValues \ {NodesAt(1, 1)}
  /\ pc = "poll"
  /\ Running = 1
  /\ mold_status_now = Unknown
  /\ mold_status = Unknown
  /\ isMolding = 0
  /\ intShotSN = dbShotSN
  /\ timestamp_base = NoCycle
  /\ RD_last = NoCycle
  /\ opcTarget = NodesAt(0, 0)
  /\ opcLost = {}
  /\ row = NoRow
  /\ restarts = 0

-----------------------------------------------------------------------------
(* The machine and the program that counts its shots.                      *)

MoldMoves ==
  /\ polled \/ "miss" \in Faults
  /\ done < MaxCycles
  /\ mold' = NextPhase(mold)
  /\ polled' = FALSE
  /\ done' = IF mold = Opening THEN done + 1 ELSE done
  /\ IF "shotlag" \in Faults THEN UNCHANGED dbShotSN
                             ELSE dbShotSN' = FirstShotSN + done'
  /\ UNCHANGED <<nodes, pc, Running, mold_status_now, mold_status, isMolding,
                 intShotSN, timestamp_base, RD_last, row, restarts>>

ShotAdvances ==
  /\ dbShotSN < TrueShotSN
  /\ dbShotSN' = dbShotSN + 1
  /\ UNCHANGED <<machine, nodes, pc, Running, mold_status_now, mold_status,
                 isMolding, intShotSN, timestamp_base, RD_last, row, restarts>>

-----------------------------------------------------------------------------
(* The loop.                                                               *)

\* while (Running == 1): read the pins and decode them.  An unknown status
\* leaves everything as it was and polls again after a delay.
Poll ==
  \E rc \in IF "read" \in Faults THEN {2, -1} ELSE {2} :
    LET bits   == IF rc = -1 THEN LowPins ELSE Pins(MmType, mold)
        status == check_mold_status2(rc, bits, mold_status_now, MmType)
    IN  /\ polled' = (polled \/ rc # -1)
        /\ IF status = Unknown
             THEN UNCHANGED <<pc, mold_status_now>>
             ELSE pc' = "handle" /\ mold_status_now' = status

CheckMold_IgnoresRunning ==
  /\ pc = "poll"
  /\ Poll
  /\ UNCHANGED <<mold, done, dbShotSN, nodes, Running, mold_status, isMolding,
                 intShotSN, timestamp_base, RD_last, row, restarts>>
CheckMold ==
  /\ pc = "poll" /\ Running = 1
  /\ Poll
  /\ UNCHANGED <<mold, done, dbShotSN, nodes, Running, mold_status, isMolding,
                 intShotSN, timestamp_base, RD_last, row, restarts>>

\* The end of a handler that tells the nodes c and r.  Nothing reads the
\* handler's variables while the nodes are written, so it is immaterial that
\* the code assigns some of them before and some after that.
TellNodes_IfRaised(c, r) ==
  /\ opcTarget' = NodesAt(c, r)
  /\ pc' = IF OpcuaVersionSN = 1 /\ c + r > 0 THEN "clamped" ELSE "collect"
  /\ UNCHANGED <<opc, opcLost>>
TellNodes(c, r) ==
  /\ opcTarget' = NodesAt(c, r)
  /\ pc' = IF OpcuaVersionSN = 1 THEN "clamped" ELSE "collect"
  /\ UNCHANGED <<opc, opcLost>>

\* The end of a handler that tells them nothing.
TellNothing == pc' = "collect" /\ UNCHANGED nodes

NextShotSN_Down(sn) == sn - 1
NextShotSN(sn) == sn + 1

Cleared_Kept == RD_last
Cleared == NoCycle

HandleOpened ==
  /\ pc = "handle" /\ mold_status_now = Opened
  /\ IF isMolding = 1
       THEN /\ mold_status' = Opened
            /\ isMolding' = 0
            /\ intShotSN' = NextShotSN(intShotSN)
            /\ RD_last' = Cleared
            /\ TellNodes(0, 1)
       ELSE /\ TellNothing
            /\ UNCHANGED <<mold_status, isMolding, intShotSN, RD_last>>
  /\ UNCHANGED <<machine, dbShotSN, Running, mold_status_now, timestamp_base,
                 row, restarts>>

\* The local shot number gives way to the one in the database; a query that
\* fails leaves the 0 that the variable was initialised with.
QueriedShotSN_Local == {intShotSN}
QueriedShotSN == {dbShotSN} \cup (IF "shotquery" \in Faults THEN {0} ELSE {})

HandleClosing ==
  /\ pc = "handle" /\ mold_status_now = Closing
  /\ intShotSN' \in QueriedShotSN
  /\ timestamp_base' = IF mold_status \in {Opened, Unknown} THEN done
                                                            ELSE timestamp_base
  /\ mold_status' = Closing
  /\ isMolding' = 1
  /\ TellNodes(0, 0)
  /\ UNCHANGED <<machine, dbShotSN, Running, mold_status_now, RD_last, row,
                 restarts>>

HandleOpening ==
  /\ pc = "handle" /\ mold_status_now = Opening
  /\ IF isMolding = 1 THEN mold_status' = Opening /\ TellNodes(0, 0)
                  ELSE TellNothing /\ UNCHANGED mold_status
  /\ UNCHANGED <<machine, dbShotSN, Running, mold_status_now, isMolding,
                 intShotSN, timestamp_base, RD_last, row, restarts>>

\* The nodes are told only when the program saw the mold close.
ClosingSeen_Molding == mold_status = Opening
ClosingSeen == mold_status = Closing

HandleClosed ==
  /\ pc = "handle" /\ mold_status_now = Closed
  /\ IF ClosingSeen THEN TellNodes(1, 0) ELSE TellNothing
  /\ mold_status' = Closed
  /\ UNCHANGED <<machine, dbShotSN, Running, mold_status_now, isMolding,
                 intShotSN, timestamp_base, RD_last, row, restarts>>

\* One node is written; a failure is logged and otherwise ignored.
WriteNode(name, next) ==
  /\ pc = name
  /\ \/ /\ opc' = [opc EXCEPT ![name] = opcTarget[name]]
        /\ opcLost' = opcLost \ {name}
     \/ /\ "opc" \in Faults
        /\ opc' = opc
        /\ opcLost' = opcLost \cup {name}
  /\ pc' = next
  /\ UNCHANGED <<machine, dbShotSN, opcTarget, Running, mold_status_now,
                 mold_status, isMolding, intShotSN, timestamp_base, RD_last,
                 row, restarts>>

WriteClamped  == WriteNode("clamped", "released")
WriteReleased_Continue == WriteNode("released", "poll")
WriteReleased == WriteNode("released", "collect")

\* SensorDataProcess() queries the device at this moment, whatever the mold
\* does now, and stores what it read under the shot number and the base in
\* force; its dedup table then holds readings of this cycle.
Collect ==
  /\ pc = "collect" /\ mold_status = Closed
  /\ row' = RowOf(done, mold, ShotField(intShotSN), timestamp_base, RD_last)
  /\ RD_last' = done
  /\ pc' = "poll"
  /\ UNCHANGED <<machine, dbShotSN, nodes, Running, mold_status_now,
                 mold_status, isMolding, intShotSN, timestamp_base, restarts>>

SkipCollect ==
  /\ pc = "collect" /\ mold_status # Closed
  /\ pc' = "poll"
  /\ UNCHANGED <<machine, dbShotSN, nodes, Running, mold_status_now,
                 mold_status, isMolding, intShotSN, timestamp_base, RD_last,
                 row, restarts>>

Terminate ==
  /\ pc = "poll" /\ Running = 0
  /\ pc' = "exit"
  /\ UNCHANGED <<machine, dbShotSN, nodes, Running, mold_status_now,
                 mold_status, isMolding, intShotSN, timestamp_base, RD_last,
                 row, restarts>>

-----------------------------------------------------------------------------
(* Signals and crashes.                                                    *)

\* SIGINT at any point of the loop: the handler only clears the flag.
Sigint ==
  /\ pc # "exit" /\ Running = 1
  /\ Running' = 0
  /\ UNCHANGED <<machine, dbShotSN, nodes, pc, mold_status_now, mold_status,
                 isMolding, intShotSN, timestamp_base, RD_last, row, restarts>>

\* The collector dies, or had ended, and is started again: every variable
\* of the program starts over, the shot number comes from the database, and
\* the nodes and the mold are where they were.
Restart ==
  /\ "crash" \in Faults
  /\ restarts < MaxRestarts
  /\ restarts' = restarts + 1
  /\ pc' = "poll"
  /\ Running' = 1
  /\ mold_status_now' = Unknown
  /\ mold_status' = Unknown
  /\ isMolding' = 0
  /\ intShotSN' = dbShotSN
  /\ timestamp_base' = NoCycle
  /\ RD_last' = NoCycle
  /\ UNCHANGED <<machine, dbShotSN, nodes, row>>

-----------------------------------------------------------------------------
Handle == HandleOpened \/ HandleClosing \/ HandleOpening \/ HandleClosed

Loop == \/ CheckMold
        \/ Handle
        \/ WriteClamped
        \/ WriteReleased
        \/ Collect
        \/ SkipCollect
        \/ Terminate

Next == MoldMoves \/ ShotAdvances \/ Loop \/ Sigint \/ Restart

Spec == Init /\ [][Next]_vars

\* The collector is scheduled and none of its calls blocks for ever: the
\* device and the database answer or time out.
FairSpec == Spec /\ WF_vars(Loop)

-----------------------------------------------------------------------------
(* Properties.                                                             *)

Rows == [cycle : Nat, phase : Phases, shot : UInt16,
         base : Nat \cup {NoCycle}, against : Nat \cup {NoCycle}]

\* Every variable keeps its type: shot numbers stay natural numbers through
\* local increments, adoptions from the database and failed queries.
TypeOK ==
  /\ mold \in Phases /\ done \in Nat /\ polled \in BOOLEAN
  /\ dbShotSN \in Nat
  /\ opc \in NodeValues /\ opcTarget \in NodeValues
  /\ opcLost \in SUBSET NodeNames
  /\ pc \in {"poll", "handle", "clamped", "released", "collect", "exit"}
  /\ Running \in {0, 1}
  /\ mold_status_now \in Statuses /\ mold_status \in Statuses
  /\ isMolding \in {0, 1}
  /\ intShotSN \in Nat
  /\ timestamp_base \in Nat \cup {NoCycle}
  /\ RD_last \in Nat \cup {NoCycle}
  /\ row \in Rows \cup {NoRow}
  /\ restarts \in Nat

\* The three variables that say where the mold is never contradict each
\* other, whatever fails: while a shot is under way the status acted upon is
\* the status decoded, moving statuses are only ever acted upon during a
\* shot, and after an opened was handled no shot is under way.  So data are
\* collected during a shot only while the last decoded status is closed.
StatusCoherent ==
  /\ mold_status \in {Closing, Opening} => isMolding = 1
  /\ isMolding = 1 => mold_status \in {Closing, Closed, Opening}
  /\ pc # "handle" => (isMolding = 1 => mold_status = mold_status_now)
  /\ pc = "collect" /\ isMolding = 1 /\ mold_status = Closed
       => mold_status_now = Closed

\* The two nodes never say at once that the mold is clamped and released,
\* even between the two writes of a handler, unless a write was lost.
OpcNeverBoth == opc = NodesAt(1, 1) => opcLost # {}

\* Why OpcNeverBoth holds: a node is raised only when the other one is low,
\* or its last write was lost.  The handler of closing lowers "released", so
\* it is low when that of closed raises "clamped"; the handler of opened
\* lowers "clamped" before it raises "released".
LowOrLost(name) == opc[name] = 0 \/ name \in opcLost
OpcOrdered ==
  /\ OpcNeverBoth
  /\ opcTarget["clamped"] = 0 \/ opcTarget["released"] = 0
  /\ pc = "clamped" /\ opcTarget["clamped"] = 1 => LowOrLost("released")
  /\ pc = "released" /\ opcTarget["released"] = 1 => LowOrLost("clamped")
  /\ pc \in NodeNames /\ opcTarget["released"] = 1 => mold_status # Closing
  /\ OpcuaVersionSN = 1 /\ mold_status = Closing /\ pc \notin NodeNames
       => LowOrLost("released")

\* During a shot the local shot number is not ahead of the database's, and
\* at any other time by at most the one increment made at mold opened: data
\* are never stored under a shot that is further in the future than that.
DbFollowsMold == dbShotSN <= TrueShotSN
NeverAheadOfDb ==
  /\ isMolding = 1 => intShotSN <= dbShotSN
  /\ intShotSN <= dbShotSN + 1

\* The shot numbers a row of cycle c may bear: the cycle's own; an earlier one
\* of this run only if the database may count late; and 0 only if the query
\* may fail.  The failure of one cycle's query never shows in another's rows.
ShotsOf(c) ==
  (IF "shotlag" \in Faults THEN FirstShotSN..(FirstShotSN + c) ELSE {FirstShotSN + c})
    \cup (IF "shotquery" \in Faults THEN {0} ELSE {})

\* Every row that is stored bears a number of the cycle it was measured in, is
\* timed from that cycle's own closing, was compared with readings of that
\* cycle only, and was measured after the mold had closed and before it was
\* open again.  The number is that of the row's 16-bit field: from shot 65536
\* on it starts again at 0.
RowsAttributed ==
  row # NoRow =>
    /\ row.shot \in {ShotField(n) : n \in ShotsOf(row.cycle)}
    /\ row.base = row.cycle
    /\ row.against \in {NoCycle, row.cycle}
    /\ row.phase \in {Closed, Opening}

\* No shot goes by without data: when the loop acts upon the opening of the
\* mold it saw close, it has stored a row of that very cycle, though nothing
\* makes the mold wait for the query.
NoShotSkipped ==
  isMolding = 1 /\ mold_status = Opening =>
    /\ row # NoRow
    /\ row.cycle = IF mold = Opening THEN done ELSE done - 1

\* The status decoded is the phase the mold is in, or the one it just left.
DecodeFollowsMold ==
  pc = "handle" => \/ mold = mold_status_now
                   \/ mold = NextPhase(mold_status_now)

\* Between two polls the nodes tell an observer the phase the mold was in at
\* the latest poll: its phase now, or the one it left since.  That holds from
\* the first closing the program sees and unless a write was lost.
NodesFor(p) == NodesAt(IF p = Closed THEN 1 ELSE 0, IF p = Opened THEN 1 ELSE 0)
OpcTracksMold ==
  pc = "poll" /\ OpcuaVersionSN = 1 /\ opcLost = {}
      /\ (isMolding = 1 \/ mold_status = Opened)
    => \E p \in Phases : /\ mold = IF polled THEN p ELSE NextPhase(p)
                         /\ opc = NodesFor(p)

\* Every cycle in which the mold closes is collected: its query is made and its
\* rows are handed on, though node writes and shot number queries fail, unless
\* the operator stops the program.
EveryShotCollected ==
  \A c \in 0..(MaxCycles - 1) :
    (mold = Closed /\ done = c) ~> (row.cycle = c \/ Running = 0)

\* SIGINT ends the program: the flag is seen whatever the loop is doing.
SigintStops == Running = 0 ~> pc = "exit"

-----------------------------------------------------------------------------
(* What the comments say and the code does not do.                         *)

\* "start collect data after mold closed, stop when opening": nothing is
\* measured while the mold is open or still closing.
CollectsOnlyWhileClosed ==
  row # NoRow => row.phase \in {Closed, Opening}

\* The tables above check_mold_status2(): a status is returned only if the
\* pins, at that moment, are as the table says for it; otherwise "0-Unknown".
StatusAgreesWithPins ==
  [][CheckMold /\ pc' = "handle"
       => Pins(MmType, mold_status_now') = Pins(MmType, mold)]_vars
=============================================================================
