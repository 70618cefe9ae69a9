--------------------------- MODULE MoldFollowProofs ---------------------------
(***************************************************************************)
(* What the main loop gets right when it misses no phase: for every shot   *)
(* number, number of cycles and of restarts, the rows it stores belong to  *)
(* the cycle under way, every shot gets one, and the nodes follow the      *)
(* mold.                                                                   *)
(*                                                                         *)
(* The argument: once the loop has told the nodes anything, the status it  *)
(* decoded last is the phase the mold was in at the latest poll, and what  *)
(* the loop keeps for the cycle is that cycle's.                           *)
(***************************************************************************)
EXTENDS MoldCycleProofs

\* Every phase is polled and the pins are read.  On a multi loop the program
\* starts where it can tell the phase: with the mold opened, or opening
\* before that.
PhasesSeen ==
  /\ "miss" \notin Faults /\ "read" \notin Faults
  /\ MmType = MultiLoop =>
       StartPhases \subseteq {Opened, Opening} /\ "crash" \notin Faults

-----------------------------------------------------------------------------
(* The inductive invariant.                                                *)

\* The status decoded last is the phase of the latest poll.
Synced ==
  /\ mold_status_now \in Phases
  /\ mold = IF polled THEN mold_status_now ELSE NextPhase(mold_status_now)

\* Nothing was decoded since the program started.
Fresh ==
  /\ mold_status_now = Unknown /\ pc \in {"poll", "exit"}
  /\ MmType = MultiLoop => mold = Opening \/ (mold = Opened /\ ~polled)

\* A single loop that starts with the mold closed takes it for opened.
TakenForOpened ==
  /\ MmType = SingleLoop /\ mold_status_now = Opened
  /\ mold = IF polled THEN Closed ELSE Opening

\* The nodes have been told something since the program started.
Told == isMolding = 1 \/ mold_status = Opened

\* The cycle that the status decoded last belongs to.
CycleNow ==
  IF mold_status_now = Opened \/ (mold_status_now = Opening /\ ~polled)
    THEN done - 1 ELSE done

\* The database has counted the cycles completed, or may be behind.
DbCounts(n) ==
  dbShotSN \in IF "shotlag" \in Faults THEN FirstShotSN..(FirstShotSN + n)
                                     ELSE {FirstShotSN + n}

Decoded ==
  /\ DbCounts(done)
  /\ Synced \/ (~Told /\ mold_status = Unknown /\ (Fresh \/ TakenForOpened))
  /\ mold_status_now = Closed => isMolding = 1
  /\ mold_status = Closed => isMolding = 1
  /\ pc # "handle" /\ mold_status_now = Closing => isMolding = 1
  /\ Told /\ pc # "handle" => mold_status = mold_status_now
  /\ Told /\ pc = "handle" => mold_status_now \in {mold_status, NextPhase(mold_status)}

Kept ==
  /\ isMolding = 0 => RD_last = NoCycle
  /\ isMolding = 1 =>
       /\ CycleNow \in Nat /\ timestamp_base = CycleNow
       /\ intShotSN \in ShotsOf(CycleNow)
       /\ RD_last \in {NoCycle, CycleNow}

\* The nodes say what the status acted upon says, or are being told so.
Written(name) == opc[name] = NodesFor(mold_status)[name]
Nodes ==
  OpcuaVersionSN = 1 =>
    /\ pc \in NodeNames => Told /\ opcTarget = NodesFor(mold_status)
    /\ opcLost = {} /\ pc \notin NodeNames /\ Told => \A name \in NodeNames : Written(name)
    /\ "clamped" \notin opcLost /\ pc = "released" => Written("clamped")

\* A closed mold that was seen to close is measured before the next poll.
Collected ==
  isMolding = 1
      /\ (mold_status = Opening \/ (mold_status = Closed /\ pc \in {"poll", "handle", "exit"}))
    => row # NoRow /\ row.cycle = CycleNow

Follows == PhasesSeen /\ Decoded /\ Kept /\ Nodes /\ Collected /\ RowsAttributed

-----------------------------------------------------------------------------
LEMMA FollowsInit == Init /\ PhasesSeen => Follows
<1> SUFFICES ASSUME Init, PhasesSeen PROVE Follows
  OBVIOUS
<1> USE MoldCycleAssumption DEF Init, Unknown, Opened, Closing, Closed, Opening
<1>1. Decoded
  BY DEF Decoded, DbCounts, Told, Fresh, PhasesSeen, LoopTypes
<1>2. Kept /\ Nodes /\ Collected /\ RowsAttributed
  BY DEF Kept, Nodes, Collected, Told, NodeNames, RowsAttributed
<1> QED
  BY <1>1, <1>2 DEF Follows

\* What a poll finds: the phase; or, where nothing was decoded before, a
\* closed mold of a single loop taken for opened, or nothing on a multi loop.
LEMMA PollFinds ==
  ASSUME PhasesSeen, TypeOK, Decoded, CheckMold
  PROVE  /\ polled' = TRUE
         /\ \/ /\ pc' = "handle" /\ mold_status_now' = mold
               /\ mold = Closed => Synced
            \/ /\ pc' = "handle" /\ mold_status_now' = Opened /\ mold = Closed
               /\ MmType = SingleLoop /\ mold_status = Unknown /\ ~Told
            \/ /\ pc' = "poll" /\ mold_status_now' = Unknown /\ mold = Opening
               /\ mold_status = Unknown /\ ~Told /\ MmType = MultiLoop
<1> DEFINE status == check_mold_status2(2, Pins(MmType, mold), mold_status_now, MmType)
<1>1. /\ polled' = TRUE
      /\ IF status = Unknown THEN pc' = pc /\ mold_status_now' = mold_status_now
         ELSE pc' = "handle" /\ mold_status_now' = status
  <2>1. "read" \notin Faults
    BY DEF PhasesSeen
  <2>2. PICK rc \in {2} :
          /\ polled' = (polled \/ rc # -1)
          /\ LET bits == IF rc = -1 THEN LowPins ELSE Pins(MmType, mold)
                 st   == check_mold_status2(rc, bits, mold_status_now, MmType)
             IN  IF st = Unknown THEN UNCHANGED <<pc, mold_status_now>>
                 ELSE pc' = "handle" /\ mold_status_now' = st
    BY <2>1 DEF CheckMold, Poll
  <2>3. rc = 2 /\ rc # -1
    OBVIOUS
  <2>4. polled' = TRUE
    BY <2>2, <2>3, Zenon
  <2> QED
    BY <2>2, <2>3, <2>4
<1>2. pc = "poll" /\ MmType \in LoopTypes /\ mold \in Phases
  BY MoldCycleAssumption DEF CheckMold, TypeOK
<1>3. CASE Synced
  <2>1. mold_status_now \in Phases /\ mold \in {mold_status_now, NextPhase(mold_status_now)}
    BY <1>3 DEF Synced
  <2>2. status = mold
    BY <1>2, <2>1, DecodeExact DEF Statuses
  <2>3. mold # Unknown
    BY <1>2 DEF Phases, Unknown, Opened, Closing, Closed, Opening
  <2> QED
    BY <1>1, <1>3, <2>2, <2>3
<1>4. CASE ~Synced
  <2> USE <1>4 DEF Unknown, Opened, Closing, Closed, Opening, SingleLoop, MultiLoop
  <2>1. ~Told /\ mold_status = Unknown /\ (Fresh \/ TakenForOpened)
    BY DEF Decoded
  <2>2. CASE MmType = SingleLoop
    <3>1. mold_status_now \in {Unknown, Opened}
      BY <2>1 DEF Fresh, TakenForOpened
    <3>2. status = IF mold = Closed THEN Opened ELSE mold
      <4>1. status = Decode(Pins(MmType, mold), Closing, Opening, Opened)
        BY <2>2, <3>1 DEF check_mold_status2, SingleLow
      <4>2. /\ Pins(MmType, mold).closing = (IF mold = Closing THEN 1 ELSE 0)
            /\ Pins(MmType, mold).opening = (IF mold = Opening THEN 1 ELSE 0)
        BY <2>2 DEF Pins
      <4> QED
        BY <1>2, <4>1, <4>2 DEF Decode, Phases
    <3> QED
      BY <1>1, <1>2, <2>1, <2>2, <3>2 DEF Phases
  <2>3. CASE MmType = MultiLoop
    <3>1. Fresh /\ mold_status_now = Unknown /\ mold \in {Opening, Opened}
      BY <2>1, <2>3 DEF Fresh, TakenForOpened
    <3>2. status = IF mold = Opened THEN Opened ELSE Unknown
      <4>1. status = Decode(Pins(MmType, mold), Closed, Opened, Unknown)
        BY <2>3, <3>1 DEF check_mold_status2, MultiLow
      <4>2. /\ Pins(MmType, mold).closing = (IF mold = Closed THEN 1 ELSE 0)
            /\ Pins(MmType, mold).opening = (IF mold = Opened THEN 1 ELSE 0)
        BY <2>3 DEF Pins
      <4> QED
        BY <3>1, <4>1, <4>2 DEF Decode
    <3> QED
      BY <1>1, <1>2, <2>1, <2>3, <3>1, <3>2
  <2> QED
    BY <1>2, <2>2, <2>3 DEF LoopTypes
<1> QED
  BY <1>3, <1>4

LEMMA FollowsPoll ==
  ASSUME TypeOK, StatusCoherent, Follows, CheckMold PROVE Follows'
<1> USE DEF Follows, Unknown, Opened, Closing, Closed, Opening
<1>1. /\ pc = "poll" /\ mold' = mold /\ done' = done /\ dbShotSN' = dbShotSN
      /\ opc' = opc /\ opcTarget' = opcTarget /\ opcLost' = opcLost
      /\ mold_status' = mold_status /\ isMolding' = isMolding
      /\ intShotSN' = intShotSN /\ timestamp_base' = timestamp_base
      /\ RD_last' = RD_last /\ row' = row /\ (Told' <=> Told)
  BY DEF CheckMold, nodes, Told
<1>2. mold \in Phases /\ mold_status \in Statuses /\ isMolding \in {0, 1}
  BY DEF TypeOK
<1>3. polled' = TRUE /\ pc' \in {"poll", "handle"}
  BY PollFinds
<1>4. Told => Synced /\ mold_status = mold_status_now
  BY <1>1 DEF Decoded
<1>5. Told => pc' = "handle" /\ mold_status_now' = mold
  BY PollFinds, <1>4
<1>6. Decoded'
  <2>1. DbCounts(done)'
    BY <1>1 DEF Decoded, DbCounts
  <2>2. CASE pc' = "handle" /\ mold_status_now' = mold /\ (mold = Closed => Synced)
    <3>1. Synced'
      BY <1>1, <1>2, <1>3, <2>2 DEF Synced
    <3>2. mold = Closed => isMolding = 1
      BY <1>1, <2>2 DEF Synced, Decoded, NextPhase, Phases
    <3>3. Told => mold \in {mold_status, NextPhase(mold_status)}
      BY <1>4 DEF Synced
    <3> QED
      BY <1>1, <2>1, <2>2, <3>1, <3>2, <3>3 DEF Decoded
  <2>3. CASE /\ pc' = "handle" /\ mold_status_now' = Opened /\ mold = Closed
             /\ MmType = SingleLoop /\ mold_status = Unknown /\ ~Told
    BY <1>1, <1>3, <2>1, <2>3 DEF Decoded, TakenForOpened
  <2>4. CASE /\ pc' = "poll" /\ mold_status_now' = Unknown /\ mold = Opening
             /\ mold_status = Unknown /\ ~Told /\ MmType = MultiLoop
    BY <1>1, <1>3, <2>1, <2>4 DEF Decoded, Fresh
  <2> QED
    BY <2>2, <2>3, <2>4, PollFinds
<1>7. isMolding = 1 => CycleNow' = CycleNow
  <2> SUFFICES ASSUME isMolding = 1 PROVE CycleNow' = CycleNow
    OBVIOUS
  <2>1. mold_status_now \in {Closing, Closed, Opening}
    BY <1>1 DEF StatusCoherent
  <2>2. mold = (IF polled THEN mold_status_now ELSE NextPhase(mold_status_now))
        /\ mold_status_now' = mold
    BY <1>4, <1>5 DEF Synced, Told
  <2> QED
    BY <1>1, <1>3, <2>1, <2>2 DEF CycleNow, NextPhase
<1>8. Kept' /\ Collected'
  BY <1>1, <1>3, <1>7 DEF Kept, Collected
<1>9. Nodes' /\ RowsAttributed'
  BY <1>1, <1>3 DEF Nodes, NodeNames, Written, RowsAttributed
<1> QED
  BY <1>6, <1>8, <1>9 DEF PhasesSeen

LEMMA FollowsMold ==
  ASSUME TypeOK, StatusCoherent, Follows, MoldMoves PROVE Follows'
<1> USE DEF Follows, Unknown, Opened, Closing, Closed, Opening
<1>1. /\ polled /\ ~polled' /\ mold' = NextPhase(mold)
      /\ done' = (IF mold = Opening THEN done + 1 ELSE done)
      /\ dbShotSN' = IF "shotlag" \in Faults THEN dbShotSN ELSE FirstShotSN + done'
      /\ opc' = opc /\ opcTarget' = opcTarget /\ opcLost' = opcLost /\ pc' = pc
      /\ mold_status' = mold_status /\ mold_status_now' = mold_status_now
      /\ isMolding' = isMolding /\ intShotSN' = intShotSN
      /\ timestamp_base' = timestamp_base
      /\ RD_last' = RD_last /\ row' = row /\ (Told' <=> Told)
  BY DEF MoldMoves, nodes, PhasesSeen, Told, TypeOK
<1>2. mold \in Phases /\ isMolding \in {0, 1} /\ done \in Nat
  BY DEF TypeOK
<1>3. Decoded'
  <2>1. Synced => Synced'
    BY <1>1 DEF Synced
  <2>2. Fresh => Fresh'
    BY <1>1 DEF Fresh, NextPhase
  <2>3. TakenForOpened => TakenForOpened'
    BY <1>1 DEF TakenForOpened, NextPhase
  <2>4. DbCounts(done)'
    BY <1>1, <1>2, MoldCycleAssumption DEF Decoded, DbCounts
  <2> QED
    BY <1>1, <2>1, <2>2, <2>3, <2>4 DEF Decoded
<1>4. Kept' /\ Collected'
  <2>1. isMolding = 1 => CycleNow' = CycleNow
    <3> SUFFICES ASSUME isMolding = 1 PROVE CycleNow' = CycleNow
      OBVIOUS
    <3>1. mold_status_now \in Phases /\ mold = mold_status_now
      BY <1>1 DEF Decoded, Synced, Told
    <3> QED
      BY <1>1, <1>2, <3>1 DEF CycleNow
  <2> QED
    BY <1>1, <2>1 DEF Kept, Collected
<1>5. Nodes' /\ RowsAttributed'
  BY <1>1 DEF Nodes, Written, RowsAttributed
<1> QED
  BY <1>3, <1>4, <1>5 DEF PhasesSeen

LEMMA FollowsShot ==
  ASSUME TypeOK, Follows, ShotAdvances PROVE Follows'
<1>1. /\ dbShotSN < FirstShotSN + done /\ dbShotSN' = dbShotSN + 1
      /\ UNCHANGED <<machine, nodes, pc, mold_status_now, mold_status, isMolding,
                     intShotSN, timestamp_base, RD_last, row>>
  BY DEF ShotAdvances, TrueShotSN
<1>2. DbCounts(done)'
  BY <1>1, MoldCycleAssumption DEF Follows, Decoded, DbCounts, TypeOK, machine
<1>3. (Synced' <=> Synced) /\ (Told' <=> Told) /\ (TakenForOpened' <=> TakenForOpened)
      /\ (Fresh' <=> Fresh) /\ CycleNow' = CycleNow
  BY <1>1 DEF Synced, Told, TakenForOpened, Fresh, CycleNow, machine
<1>4. Decoded' /\ Kept' /\ Collected'
  BY <1>1, <1>2, <1>3 DEF Follows, Decoded, Kept, Collected
<1>5. Nodes' /\ RowsAttributed'
  BY <1>1, <1>3 DEF Follows, Nodes, Written, RowsAttributed, nodes
<1> QED
  BY <1>4, <1>5 DEF Follows, PhasesSeen

-----------------------------------------------------------------------------
(* The handlers.                                                           *)

LEMMA FollowsOpened ==
  ASSUME TypeOK, StatusCoherent, Follows, HandleOpened PROVE Follows'
<1> USE DEF Follows, Unknown, Opened, Closing, Closed, Opening
<1>1. /\ pc = "handle" /\ pc' \in {"clamped", "collect"} /\ mold_status_now = Opened
      /\ mold' = mold /\ done' = done /\ polled' = polled /\ dbShotSN' = dbShotSN
      /\ mold_status_now' = mold_status_now /\ timestamp_base' = timestamp_base
      /\ opc' = opc /\ opcLost' = opcLost /\ row' = row
  BY DEF HandleOpened, machine, TellNodes, TellNothing, nodes
<1>2. /\ isMolding \in {0, 1} /\ DbCounts(done)'
      /\ Synced' <=> Synced
  BY <1>1 DEF TypeOK, Synced, Decoded, DbCounts
<1>3. RowsAttributed'
  BY <1>1 DEF RowsAttributed
<1>4. CASE isMolding = 1
  <2>1. mold_status' = Opened /\ isMolding' = 0 /\ RD_last' = NoCycle
    BY <1>4 DEF HandleOpened, Cleared
  <2>2. Synced /\ Told'
    BY <1>4, <2>1 DEF Decoded, Told
  <2>3. Decoded'
    BY <1>1, <1>2, <2>1, <2>2 DEF Decoded
  <2>4. Kept' /\ Collected'
    BY <2>1 DEF Kept, Collected
  <2>5. Nodes'
    <3>1. opcTarget' = NodesFor(Opened)
          /\ pc' = IF OpcuaVersionSN = 1 THEN "clamped" ELSE "collect"
      BY <1>4 DEF HandleOpened, TellNodes, NodesFor
    <3> QED
      BY <2>1, <2>2, <3>1 DEF Nodes, NodeNames
  <2> QED
    BY <1>3, <2>3, <2>4, <2>5 DEF PhasesSeen
<1>5. CASE isMolding = 0
  <2>1. /\ mold_status' = mold_status /\ isMolding' = isMolding
        /\ intShotSN' = intShotSN /\ RD_last' = RD_last
        /\ pc' = "collect" /\ opcTarget' = opcTarget
    BY <1>5 DEF HandleOpened, TellNothing, nodes
  <2>2. Told' <=> Told
    BY <2>1 DEF Told
  <2>3. TakenForOpened' <=> TakenForOpened
    BY <1>1 DEF TakenForOpened
  <2>4. ~Fresh /\ (Told => mold_status = Opened)
    BY <1>1, <1>5 DEF Fresh, Told
  <2>5. Decoded'
    BY <1>1, <1>2, <2>1, <2>2, <2>3, <2>4 DEF Decoded
  <2>6. Kept' /\ Collected'
    BY <1>5, <2>1 DEF Kept, Collected
  <2>7. Nodes'
    BY <1>1, <2>1, <2>2 DEF Nodes, NodeNames, Written
  <2> QED
    BY <1>3, <2>5, <2>6, <2>7 DEF PhasesSeen
<1> QED
  BY <1>2, <1>4, <1>5

LEMMA FollowsClosing ==
  ASSUME TypeOK, StatusCoherent, Follows, HandleClosing PROVE Follows'
<1> USE DEF Follows, Unknown, Opened, Closing, Closed, Opening
<1>1. /\ pc = "handle" /\ mold_status_now = Closing
      /\ mold' = mold /\ done' = done /\ polled' = polled /\ dbShotSN' = dbShotSN
      /\ mold_status_now' = mold_status_now /\ RD_last' = RD_last
      /\ mold_status' = Closing /\ isMolding' = 1
      /\ opc' = opc /\ opcLost' = opcLost /\ row' = row
      /\ opcTarget' = NodesFor(Closing)
      /\ pc' = IF OpcuaVersionSN = 1 THEN "clamped" ELSE "collect"
  BY DEF HandleClosing, machine, TellNodes, NodesFor
<1>2. /\ DbCounts(done)' /\ done \in Nat
      /\ isMolding \in {0, 1} /\ mold_status \in Statuses
      /\ Synced' <=> Synced
  BY <1>1 DEF TypeOK, Synced, Decoded, DbCounts
<1>3. Synced
  BY <1>1 DEF Decoded, Fresh, TakenForOpened
<1>4. Told'
  BY <1>1 DEF Told
<1>5. Decoded'
  BY <1>1, <1>2, <1>3, <1>4 DEF Decoded
<1>6. CycleNow' = done /\ CycleNow = done
  BY <1>1 DEF CycleNow
<1>7. Kept'
  <2>1. intShotSN' \in ShotsOf(done)
    BY <1>1 DEF HandleClosing, QueriedShotSN, Decoded, DbCounts, ShotsOf
  <2>2. timestamp_base' = done
    <3>1. CASE mold_status \in {Opened, Unknown}
      BY <3>1 DEF HandleClosing
    <3>2. CASE mold_status \notin {Opened, Unknown}
      <4>1. isMolding = 1
        BY <1>2, <3>2 DEF StatusCoherent, Decoded, Statuses, Phases
      <4> QED
        BY <1>6, <3>2, <4>1 DEF HandleClosing, Kept
    <3> QED
      BY <3>1, <3>2
  <2>3. RD_last \in {NoCycle, done}
    BY <1>2, <1>6 DEF Kept
  <2> QED
    BY <1>1, <1>2, <1>6, <2>1, <2>2, <2>3 DEF Kept
<1>8. Nodes'
  BY <1>1, <1>4 DEF Nodes, NodeNames
<1>9. Collected' /\ RowsAttributed'
  BY <1>1 DEF Collected, RowsAttributed
<1> QED
  BY <1>5, <1>7, <1>8, <1>9 DEF PhasesSeen

LEMMA FollowsOpening ==
  ASSUME TypeOK, StatusCoherent, Follows, HandleOpening PROVE Follows'
<1> USE DEF Follows, Unknown, Opened, Closing, Closed, Opening
<1>1. /\ pc = "handle" /\ pc' \in {"clamped", "collect"} /\ mold_status_now = Opening
      /\ mold' = mold /\ done' = done /\ polled' = polled /\ dbShotSN' = dbShotSN
      /\ mold_status_now' = mold_status_now /\ timestamp_base' = timestamp_base
      /\ isMolding' = isMolding /\ intShotSN' = intShotSN /\ RD_last' = RD_last
      /\ opc' = opc /\ opcLost' = opcLost /\ row' = row
  BY DEF HandleOpening, machine, TellNodes, TellNothing, nodes
<1>2. /\ isMolding \in {0, 1} /\ DbCounts(done)'
      /\ Synced' <=> Synced
  BY <1>1 DEF TypeOK, Synced, Decoded, DbCounts
<1>3. Synced
  BY <1>1 DEF Decoded, Fresh, TakenForOpened
<1>4. Kept'
  BY <1>1 DEF Kept, CycleNow
<1>5. RowsAttributed'
  BY <1>1 DEF RowsAttributed
<1>6. CASE isMolding = 1
  <2>1. mold_status' = Opening /\ Told'
    BY <1>1, <1>6 DEF HandleOpening, Told
  <2>2. Decoded' /\ Collected'
    <3>1. mold_status \in {Closed, Opening}
      BY <1>1, <1>6 DEF Decoded, Told, NextPhase, TypeOK, Statuses, Phases
    <3> QED
      BY <1>1, <1>2, <1>3, <2>1, <3>1 DEF Decoded, Collected, CycleNow
  <2>3. Nodes'
    <3>1. opcTarget' = NodesFor(Opening)
          /\ pc' = IF OpcuaVersionSN = 1 THEN "clamped" ELSE "collect"
      BY <1>6 DEF HandleOpening, TellNodes, NodesFor
    <3> QED
      BY <2>1, <3>1 DEF Nodes, NodeNames
  <2> QED
    BY <1>4, <1>5, <2>2, <2>3 DEF PhasesSeen
<1>7. CASE isMolding = 0
  <2>1. ~Told
    BY <1>1, <1>7 DEF Decoded, Told, NextPhase
  <2>2. mold_status' = mold_status /\ pc' = "collect" /\ ~Told'
    BY <1>1, <1>7, <2>1 DEF HandleOpening, TellNothing, Told
  <2>3. Decoded' /\ Nodes' /\ Collected'
    BY <1>1, <1>2, <1>3, <1>7, <2>1, <2>2 DEF Decoded, Nodes, NodeNames, Collected
  <2> QED
    BY <1>4, <1>5, <2>3 DEF PhasesSeen
<1> QED
  BY <1>2, <1>6, <1>7

LEMMA FollowsClosed ==
  ASSUME TypeOK, StatusCoherent, Follows, HandleClosed PROVE Follows'
<1> USE DEF Follows, Unknown, Opened, Closing, Closed, Opening
<1>1. /\ pc = "handle" /\ pc' \in {"clamped", "collect"} /\ mold_status_now = Closed
      /\ mold' = mold /\ done' = done /\ polled' = polled /\ dbShotSN' = dbShotSN
      /\ mold_status_now' = mold_status_now /\ timestamp_base' = timestamp_base
      /\ isMolding' = isMolding /\ intShotSN' = intShotSN /\ RD_last' = RD_last
      /\ opc' = opc /\ opcLost' = opcLost /\ row' = row /\ mold_status' = Closed
  BY DEF HandleClosed, machine, TellNodes, TellNothing, nodes
<1>2. /\ DbCounts(done)'
      /\ Synced' <=> Synced
  BY <1>1 DEF Synced, Decoded, DbCounts
<1>3. isMolding = 1 /\ Told /\ Told'
  BY <1>1 DEF Decoded, Told
<1>4. Synced /\ mold_status \in {Closed, Closing}
  BY <1>1, <1>3 DEF Decoded, TypeOK, Statuses, Phases, NextPhase
<1>5. Decoded'
  BY <1>1, <1>2, <1>3, <1>4 DEF Decoded
<1>6. Kept' /\ Collected' /\ RowsAttributed'
  BY <1>1 DEF Kept, Collected, CycleNow, RowsAttributed
<1>7. Nodes'
  <2>1. CASE mold_status = Closing
    <3>1. opcTarget' = NodesFor(Closed)
          /\ pc' = IF OpcuaVersionSN = 1 THEN "clamped" ELSE "collect"
      BY <2>1 DEF HandleClosed, ClosingSeen, TellNodes, NodesFor
    <3> QED
      BY <1>1, <1>3, <3>1 DEF Nodes, NodeNames
  <2>2. CASE mold_status = Closed
    <3>1. pc' = "collect"
      BY <2>2 DEF HandleClosed, ClosingSeen, TellNothing
    <3> QED
      BY <1>1, <1>3, <2>2, <3>1 DEF Nodes, NodeNames, Written
  <2> QED
    BY <1>4, <2>1, <2>2
<1> QED
  BY <1>5, <1>6, <1>7 DEF PhasesSeen

-----------------------------------------------------------------------------
(* The rest of the loop.                                                   *)

\* What Decoded, Kept and Collected say of a step that only moves on in the
\* loop, past the query only if there was one or none was due.
LEMMA FollowsOn ==
  ASSUME Follows,
         UNCHANGED <<machine, dbShotSN, mold_status_now, mold_status, isMolding,
                     intShotSN, timestamp_base>>,
         pc # "handle", pc' # "handle", pc = "poll" => pc' \in {"poll", "exit"},
         pc = "exit" => pc' = "exit",
         RD_last' = RD_last \/ (RD_last' = CycleNow /\ isMolding = 1),
         \/ row' # NoRow /\ row'.cycle = CycleNow
         \/ row' = row /\ (mold_status # Closed \/ pc = "poll" \/ pc' \notin {"poll", "exit"})
         \/ row' = row /\ pc' = pc
  PROVE  Decoded' /\ Kept' /\ Collected'
<1>1. (Synced' <=> Synced) /\ (Told' <=> Told) /\ (TakenForOpened' <=> TakenForOpened)
      /\ CycleNow' = CycleNow /\ (DbCounts(done) => DbCounts(done)')
  BY DEF Synced, Told, TakenForOpened, CycleNow, DbCounts, machine
<1>2. Fresh => Fresh'
  BY DEF Fresh, machine
<1>3. Decoded'
  BY <1>1, <1>2 DEF Follows, Decoded
<1>4. Kept' /\ Collected'
  BY <1>1 DEF Follows, Kept, Collected
<1> QED
  BY <1>3, <1>4

LEMMA FollowsClamped ==
  ASSUME TypeOK, Follows, WriteClamped PROVE Follows'
<1>1. /\ pc = "clamped" /\ pc' = "released"
      /\ UNCHANGED <<machine, dbShotSN, opcTarget, mold_status_now, mold_status,
                     isMolding, intShotSN, timestamp_base, RD_last, row>>
      /\ \/ opc' = [opc EXCEPT !["clamped"] = opcTarget["clamped"]]
         \/ "clamped" \in opcLost'
  BY DEF WriteClamped, WriteNode
<1>2. Decoded' /\ Kept' /\ Collected'
  BY <1>1, FollowsOn
<1>3. Nodes'
  <2>1. "clamped" \notin opcLost' => opc'["clamped"] = opcTarget["clamped"]
    BY <1>1 DEF TypeOK, NodeValues, NodeNames
  <2> QED
    BY <1>1, <2>1 DEF Follows, Nodes, NodeNames, Written, Told
<1> QED
  BY <1>1, <1>2, <1>3 DEF Follows, RowsAttributed, PhasesSeen

LEMMA FollowsReleased ==
  ASSUME TypeOK, Follows, WriteReleased PROVE Follows'
<1>1. /\ pc = "released" /\ pc' = "collect"
      /\ UNCHANGED <<machine, dbShotSN, opcTarget, mold_status_now, mold_status,
                     isMolding, intShotSN, timestamp_base, RD_last, row>>
      /\ \/ /\ opc' = [opc EXCEPT !["released"] = opcTarget["released"]]
            /\ opcLost' = opcLost \ {"released"}
         \/ "released" \in opcLost'
  BY DEF WriteReleased, WriteNode
<1>2. Decoded' /\ Kept' /\ Collected'
  BY <1>1, FollowsOn
<1>3. Nodes'
  <2>1. opcLost' = {} => /\ "clamped" \notin opcLost
                         /\ opc'["released"] = opcTarget["released"]
                         /\ opc'["clamped"] = opc["clamped"]
    BY <1>1 DEF TypeOK, NodeValues, NodeNames
  <2> QED
    BY <1>1, <2>1 DEF Follows, Nodes, NodeNames, Written, Told
<1> QED
  BY <1>1, <1>2, <1>3 DEF Follows, RowsAttributed, PhasesSeen

LEMMA FollowsCollect ==
  ASSUME TypeOK, StatusCoherent, Follows, Collect PROVE Follows'
<1> USE DEF Unknown, Opened, Closing, Closed, Opening
<1>1. /\ pc = "collect" /\ pc' = "poll" /\ mold_status = Closed
      /\ row' = RowOf(done, mold, ShotField(intShotSN), timestamp_base, RD_last)
      /\ RD_last' = done
      /\ UNCHANGED <<machine, dbShotSN, opc, opcTarget, opcLost, mold_status_now,
                     mold_status, isMolding, intShotSN, timestamp_base>>
  BY DEF Collect, nodes
<1>2. isMolding = 1
  BY <1>1 DEF Follows, Decoded
<1>3. mold_status_now = Closed /\ CycleNow = done
  BY <1>1, <1>2 DEF StatusCoherent, CycleNow
<1>4. Decoded' /\ Kept' /\ Collected'
  <2>1. RD_last' = CycleNow /\ row' # NoRow /\ row'.cycle = CycleNow
    BY <1>1, <1>3 DEF RowOf, NoRow, NoCycle, TypeOK
  <2> QED
    BY <1>1, <1>2, <2>1, FollowsOn
<1>5. Nodes'
  BY <1>1 DEF Follows, Nodes, NodeNames, Written, Told
<1>6. RowsAttributed'
  <2>1. /\ intShotSN \in ShotsOf(done)
        /\ timestamp_base = done /\ RD_last \in {NoCycle, done}
    BY <1>2, <1>3 DEF Follows, Kept
  <2>2. mold \in {Closed, Opening}
    BY <1>2, <1>3 DEF Follows, Decoded, Synced, Told, NextPhase
  <2>3. /\ row'.cycle = done /\ row'.phase = mold /\ row'.base = done
        /\ row'.shot \in {ShotField(n) : n \in ShotsOf(done)}
        /\ row'.against = RD_last
    BY <1>1, <2>1 DEF RowOf
  <2> QED
    BY <2>1, <2>2, <2>3 DEF RowsAttributed
<1> QED
  BY <1>4, <1>5, <1>6 DEF Follows, PhasesSeen

LEMMA FollowsOthers ==
  ASSUME TypeOK, Follows, SkipCollect \/ Terminate \/ Sigint \/ UNCHANGED vars
  PROVE  Follows'
<1>1. /\ UNCHANGED <<machine, dbShotSN, opc, opcTarget, opcLost, mold_status_now,
                     mold_status, isMolding, intShotSN, timestamp_base, RD_last, row>>
      /\ \/ pc = "collect" /\ pc' = "poll" /\ mold_status # Closed
         \/ pc = "poll" /\ pc' = "exit"
         \/ pc' = pc
  BY DEF SkipCollect, Terminate, Sigint, vars, nodes, machine
<1>2. Nodes' /\ RowsAttributed'
  BY <1>1 DEF Follows, Nodes, NodeNames, Written, Told, RowsAttributed
<1>3. CASE pc # "handle"
  <2>1. Decoded' /\ Kept' /\ Collected'
    BY <1>1, <1>3, FollowsOn
  <2> QED
    BY <1>2, <2>1 DEF Follows, PhasesSeen
<1>4. CASE pc = "handle"
  <2>1. pc' = pc
    BY <1>1, <1>4
  <2>2. (Synced' <=> Synced) /\ (Told' <=> Told) /\ (TakenForOpened' <=> TakenForOpened)
        /\ (Fresh' <=> Fresh) /\ CycleNow' = CycleNow /\ (DbCounts(done) => DbCounts(done)')
    BY <1>1, <2>1 DEF Synced, Told, TakenForOpened, CycleNow, DbCounts, Fresh, machine
  <2>3. Decoded' /\ Kept' /\ Collected'
    BY <1>1, <2>1, <2>2 DEF Follows, Decoded, Kept, Collected
  <2> QED
    BY <1>2, <2>3 DEF Follows, PhasesSeen
<1> QED
  BY <1>3, <1>4

LEMMA FollowsRestart ==
  ASSUME TypeOK, Follows, Restart PROVE Follows'
<1> USE MoldCycleAssumption DEF Unknown, Opened, Closing, Closed, Opening
<1>1. /\ "crash" \in Faults /\ pc' = "poll" /\ mold_status_now' = Unknown
      /\ mold_status' = Unknown /\ isMolding' = 0 /\ RD_last' = NoCycle
      /\ UNCHANGED <<machine, dbShotSN, opc, opcTarget, opcLost, row>>
  BY DEF Restart, nodes
<1>2. MmType # MultiLoop
  BY <1>1 DEF Follows, PhasesSeen
<1>3. ~Told' /\ Fresh' /\ (DbCounts(done) => DbCounts(done)')
  BY <1>1, <1>2 DEF Told, Fresh, DbCounts, machine
<1>4. Decoded'
  BY <1>1, <1>3 DEF Follows, Decoded
<1>5. Kept' /\ Nodes' /\ Collected' /\ RowsAttributed'
  BY <1>1, <1>3 DEF Follows, Kept, Nodes, NodeNames, Collected, RowsAttributed
<1> QED
  BY <1>4, <1>5 DEF Follows, PhasesSeen

LEMMA FollowsNext ==
  ASSUME TypeOK, StatusCoherent, Follows, [Next]_vars PROVE Follows'
  BY FollowsPoll, FollowsMold, FollowsShot, FollowsOpened, FollowsClosing,
     FollowsOpening, FollowsClosed, FollowsClamped, FollowsReleased,
     FollowsCollect, FollowsOthers, FollowsRestart DEF Next, Loop, Handle

LEMMA AlwaysFollows == Spec /\ PhasesSeen => []Follows
<1>1. TypeOK /\ StatusCoherent /\ Follows /\ [Next]_vars => Follows'
  BY FollowsNext
<1> QED
  BY <1>1, FollowsInit, TypeCorrect, StatusesCohere, PTL DEF Spec

-----------------------------------------------------------------------------
(* The properties.                                                         *)

\* If no phase is missed, every row bears a number of its own cycle (its exact
\* one if the database counts at once and answers), is timed from that cycle's
\* closing and compared with readings of that cycle only, for both types of
\* machine and any shot number, though node writes and queries fail, the
\* database counts late, and the collector of a single loop is killed and
\* started at any moment.
THEOREM RowsBelongToCycle == Spec /\ PhasesSeen => []RowsAttributed
<1>1. Follows => RowsAttributed
  BY DEF Follows
<1> QED
  BY <1>1, AlwaysFollows, PTL

\* If no phase is missed nothing is measured before the mold has closed or
\* after it is open again, whatever the shot numbers do: collect_while_open
\* needs a multi loop that starts on a closed mold.
THEOREM CollectsInside == Spec /\ PhasesSeen => []CollectsOnlyWhileClosed
<1>1. Follows => CollectsOnlyWhileClosed
  BY DEF Follows, RowsAttributed, CollectsOnlyWhileClosed
<1> QED
  BY <1>1, AlwaysFollows, PTL

\* If no phase is missed, every shot that the loop sees close has a row
\* before the loop acts upon its opening.
THEOREM ShotsHaveRows == Spec /\ PhasesSeen => []NoShotSkipped
<1>1. TypeOK /\ Follows => NoShotSkipped
  <2> SUFFICES ASSUME TypeOK, Follows, isMolding = 1, mold_status = Opening
               PROVE  /\ row # NoRow
                      /\ row.cycle = IF mold = Opening THEN done ELSE done - 1
    BY DEF NoShotSkipped
  <2> USE DEF Opened, Closing, Closed, Opening
  <2>1. row # NoRow /\ row.cycle = CycleNow
    BY DEF Follows, Collected
  <2>2. /\ mold = IF polled THEN mold_status_now ELSE NextPhase(mold_status_now)
        /\ mold_status_now \in {Opening, Opened}
    BY DEF Follows, Decoded, Synced, Told, NextPhase
  <2> QED
    BY <2>1, <2>2 DEF CycleNow, NextPhase
<1> QED
  BY <1>1, AlwaysFollows, TypeCorrect, PTL

\* The machine is one of those whose cycle has two spans with both pins low.
OnMultiLoop == MmType = MultiLoop

\* On a multi loop the status decoded is the phase the mold is in or the one
\* it has just left.
THEOREM DecodedIsPhase ==
  Spec /\ PhasesSeen /\ OnMultiLoop => []DecodeFollowsMold
<1>1. Follows /\ OnMultiLoop => DecodeFollowsMold
  BY DEF Follows, OnMultiLoop, Decoded, Fresh, TakenForOpened, Synced,
     DecodeFollowsMold, SingleLoop, MultiLoop
<1>2. OnMultiLoop /\ [Next]_vars => OnMultiLoop'
  BY DEF OnMultiLoop
<1> QED
  BY <1>1, <1>2, AlwaysFollows, PTL DEF Spec

\* On either type of machine that is so from the first closing or opened that
\* the loop acts upon, wherever in a cycle it was started or restarted: the
\* one wrong guess of a single loop, a closed mold taken for an opened one, is
\* put right by the opening that follows.
THEOREM DecodedOnceTold ==
  Spec /\ PhasesSeen => [](Told => DecodeFollowsMold)
<1>1. Follows => (Told => DecodeFollowsMold)
  BY DEF Follows, Decoded, Synced, DecodeFollowsMold
<1> QED
  BY <1>1, AlwaysFollows, PTL

\* Between two polls the nodes say the phase of the latest poll, once the
\* program has seen the mold close and unless a write was lost.
THEOREM NodesTrackMold == Spec /\ PhasesSeen => []OpcTracksMold
<1>1. TypeOK /\ Follows => OpcTracksMold
  <2> SUFFICES ASSUME TypeOK, Follows, pc = "poll", OpcuaVersionSN = 1, opcLost = {}, Told
               PROVE  \E p \in Phases : /\ mold = IF polled THEN p ELSE NextPhase(p)
                                        /\ opc = NodesFor(p)
    BY DEF OpcTracksMold, Told
  <2>1. Synced /\ mold_status = mold_status_now
    BY DEF Follows, Decoded
  <2>2. \A name \in NodeNames : opc[name] = NodesFor(mold_status)[name]
    BY DEF Follows, Nodes, NodeNames, Written
  <2>3. opc = NodesFor(mold_status)
    BY <2>2 DEF TypeOK, NodeValues, NodesFor, NodesAt
  <2> QED
    BY <2>1, <2>3 DEF Synced
<1> QED
  BY <1>1, AlwaysFollows, TypeCorrect, PTL
=============================================================================
