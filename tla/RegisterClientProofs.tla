------------------------- MODULE RegisterClientProofs -------------------------
(***************************************************************************)
(* Proofs about RegisterClient, for any number of clients, words and calls:*)
(* the invariant of the calls, and that each step is one of AtomicSet.     *)
(* RegisterMonitorProofs draws the conclusions for the whole system.       *)
(***************************************************************************)
EXTENDS RegisterClient, TLAPS

\* What is known of a client's call.  Between its read and its write either
\* the cell still differs from the word wanted, or the history says why not.
CallOf(c) ==
  /\ pc[c] = "idle" <=> goal[c] = Idle
  /\ pc[c] \in {"idle", "read"} => ~blind[c]
  /\ blind[c] => goal[c].cell = "coil"
  /\ pc[c] = "write" =>
       cell[goal[c].cell] # goal[c].word \/ disturbed[c] \/ blind[c]
  /\ pc[c] = "write" /\ late[c] # Idle => blind[c]

IClient == ClientTypeOK /\ \A c \in Clients : CallOf(c)

-----------------------------------------------------------------------------
LEMMA GoalsApart == Idle \notin Goals
  BY ClientAssumption DEF Goals

LEMMA InitClient == ClientInit => IClient
  BY ClientAssumption, GoalsApart DEF ClientInit, IClient, ClientTypeOK, CallOf

\* A step of another client, with or without a write, leaves a call sound.
LEMMA OtherCall ==
  ASSUME ClientTypeOK, NEW c \in Clients, NEW d \in Clients, d # c, CallOf(d),
         pc'[d] = pc[d], goal'[d] = goal[d], blind'[d] = blind[d], late'[d] = late[d],
         \/ cell' = cell /\ disturbed'[d] = disturbed[d]
         \/ \E g \in Goals : Write(c, g)
  PROVE  CallOf(d)'
<1>1. goal[d] \in Goals \/ pc[d] = "idle"
  BY DEF ClientTypeOK, CallOf
<1>2. CASE cell' = cell /\ disturbed'[d] = disturbed[d]
  BY <1>2 DEF CallOf
<1>3. ASSUME NEW g \in Goals, Write(c, g)
      PROVE  CallOf(d)'
  <2>1. /\ g.cell \in Cells /\ cell \in [Cells -> Words]
        /\ cell' = [cell EXCEPT ![g.cell] = g.word]
        /\ disturbed'[d] <=> \/ disturbed[d]
                             \/ pc[d] = "write" /\ goal[d].cell = g.cell
                                  /\ cell[g.cell] # g.word
    BY <1>3 DEF Write, Goals, ClientTypeOK
  <2>2. pc[d] = "write" =>
          cell'[goal[d].cell] # goal[d].word \/ disturbed'[d] \/ blind[d]
    <3> SUFFICES ASSUME pc[d] = "write"
                 PROVE  cell'[goal[d].cell] # goal[d].word \/ disturbed'[d] \/ blind[d]
      OBVIOUS
    <3>1. goal[d].cell \in Cells
      BY <1>1 DEF Goals
    <3>2. CASE goal[d].cell = g.cell /\ cell[g.cell] # g.word
      BY <2>1, <3>2
    <3>3. CASE goal[d].cell = g.cell /\ cell[g.cell] = g.word
      BY <2>1, <3>1, <3>3 DEF CallOf
    <3>4. CASE goal[d].cell # g.cell
      BY <2>1, <3>1, <3>4 DEF CallOf
    <3> QED
      BY <3>2, <3>3, <3>4
  <2> QED
    BY <2>2 DEF CallOf
<1> QED
  BY <1>2, <1>3

\* A write keeps the types of what it changes.
LEMMA WriteTyped ==
  ASSUME ClientTypeOK, NEW c \in Clients, NEW g \in Goals, Write(c, g)
  PROVE  cell' \in [Cells -> Words] /\ disturbed' \in [Clients -> BOOLEAN]
  BY DEF ClientTypeOK, Write, Goals

\* A step of client c that leaves every other client alone.
LEMMA OneClient ==
  ASSUME IClient, NEW c \in Clients, ClientTypeOK', CallOf(c)',
         \A d \in Clients \ {c} :
           /\ pc'[d] = pc[d] /\ goal'[d] = goal[d]
           /\ blind'[d] = blind[d] /\ late'[d] = late[d],
         \/ cell' = cell /\ \A d \in Clients \ {c} : disturbed'[d] = disturbed[d]
         \/ \E g \in Goals : Write(c, g)
  PROVE  IClient'
<1>1. ASSUME NEW d \in Clients PROVE CallOf(d)'
  <2>1. CASE d = c
    BY <2>1
  <2>2. CASE d # c
    BY <2>2, OtherCall DEF IClient
  <2> QED
    BY <2>1, <2>2
<1> QED
  BY <1>1 DEF IClient

LEMMA LateWriteStep ==
  ASSUME IClient, NEW c \in Clients, LateWrite(c) PROVE IClient'
<1> USE DEF IClient
<1>1. /\ late[c] \in Goals /\ Write(c, late[c])
      /\ late' = [late EXCEPT ![c] = Idle] /\ calls' = calls /\ pc' = pc
      /\ goal' = goal /\ rc' = rc /\ blind' = blind
  BY DEF LateWrite, client, ClientTypeOK
<1>2. ClientTypeOK'
  BY <1>1, WriteTyped DEF ClientTypeOK
<1>3. late'[c] = Idle
  BY <1>1 DEF ClientTypeOK
<1>4. CallOf(c)'
  BY <1>1, <1>3 DEF CallOf, LateWrite
<1> QED
  BY <1>1, <1>2, <1>4, OneClient DEF ClientTypeOK

LEMMA CallingStep ==
  ASSUME IClient, NEW c \in Clients, NEW op \in Operations, NEW word \in Words,
         Call(c, op, word)
  PROVE  IClient'
<1> USE DEF IClient
<1>1. [cell |-> Target(op), word |-> word] \in Goals
  BY DEF Goals, Target, Cells
<1>2. ClientTypeOK'
  BY <1>1, ClientAssumption DEF Call, device, ClientTypeOK
<1>3. CallOf(c)'
  BY <1>1, GoalsApart DEF Call, device, ClientTypeOK, CallOf
<1> QED
  BY <1>2, <1>3, OneClient DEF Call, device, ClientTypeOK

LEMMA ReadStep ==
  ASSUME IClient, NEW c \in Clients, Read(c) PROVE IClient'
<1> USE DEF IClient
<1>1. goal[c] \in Goals
  BY DEF Read, ClientTypeOK, CallOf
<1>2. ClientTypeOK'
  BY DEF Read, Compare, device, ClientTypeOK
<1>3. CallOf(c)'
  BY <1>1, GoalsApart DEF Read, Compare, Differs, device, ClientTypeOK, CallOf
<1> QED
  BY <1>2, <1>3, OneClient DEF Read, Compare, device, ClientTypeOK

LEMMA ReadFailsStep ==
  ASSUME IClient, NEW c \in Clients, ReadFails(c) PROVE IClient'
<1> USE DEF IClient
<1>1. ClientTypeOK'
  BY DEF ReadFails, Fails, device, ClientTypeOK
<1>2. CallOf(c)'
  BY DEF ReadFails, Fails, device, ClientTypeOK, CallOf
<1> QED
  BY <1>1, <1>2, OneClient DEF ReadFails, Fails, device, ClientTypeOK

LEMMA ReadFailsUnnoticedStep ==
  ASSUME IClient, NEW c \in Clients, ReadFailsUnnoticed(c) PROVE IClient'
<1> USE DEF IClient
<1>1. PICK byte : Compare(c, byte)
  BY DEF ReadFailsUnnoticed
<1>2. ClientTypeOK'
  BY <1>1 DEF ReadFailsUnnoticed, Compare, device, ClientTypeOK
<1>3. CallOf(c)'
  BY <1>1 DEF ReadFailsUnnoticed, Compare, device, ClientTypeOK, CallOf
<1> QED
  BY <1>1, <1>2, <1>3, OneClient DEF ReadFailsUnnoticed, Compare, device, ClientTypeOK

LEMMA WriteSucceedsStep ==
  ASSUME IClient, NEW c \in Clients, WriteSucceeds(c) PROVE IClient'
<1> USE DEF IClient
<1>1. goal[c] \in Goals /\ Write(c, goal[c])
  BY DEF WriteSucceeds, ClientTypeOK, CallOf
<1>2. ClientTypeOK'
  BY <1>1, WriteTyped DEF WriteSucceeds, ClientTypeOK
<1>3. CallOf(c)'
  BY DEF WriteSucceeds, ClientTypeOK, CallOf
<1> QED
  BY <1>1, <1>2, <1>3, OneClient DEF WriteSucceeds, ClientTypeOK

LEMMA WriteFailsStep ==
  ASSUME IClient, NEW c \in Clients, WriteFails(c) PROVE IClient'
<1> USE DEF IClient, AfterFailedWrite
<1>1. goal[c] \in Goals
  BY DEF WriteFails, ClientTypeOK, CallOf
<1>2. \/ Write(c, goal[c]) /\ late' = late
      \/ /\ late' \in [Clients -> Goals \cup {Idle}]
         /\ \A d \in Clients \ {c} : late'[d] = late[d]
         /\ disturbed' = [disturbed EXCEPT ![c] = FALSE]
         /\ cell' = cell
  BY <1>1 DEF WriteFails, ClientTypeOK
<1>3. ClientTypeOK'
  <2>1. cell' \in [Cells -> Words] /\ disturbed' \in [Clients -> BOOLEAN]
        /\ late' \in [Clients -> Goals \cup {Idle}]
    BY <1>1, <1>2, WriteTyped DEF ClientTypeOK
  <2> QED
    BY <2>1 DEF WriteFails, ClientTypeOK
<1>4. CallOf(c)'
  BY DEF WriteFails, ClientTypeOK, CallOf
<1>5. \A d \in Clients \ {c} :
        /\ pc'[d] = pc[d] /\ goal'[d] = goal[d]
        /\ blind'[d] = blind[d] /\ late'[d] = late[d]
  BY <1>2 DEF WriteFails, ClientTypeOK
<1>6. \/ cell' = cell /\ \A d \in Clients \ {c} : disturbed'[d] = disturbed[d]
      \/ \E g \in Goals : Write(c, g)
  BY <1>1, <1>2 DEF ClientTypeOK
<1> QED
  BY <1>3, <1>4, <1>5, <1>6, OneClient

LEMMA ReturnStep ==
  ASSUME IClient, NEW c \in Clients, Return(c) PROVE IClient'
<1> USE DEF IClient
<1>1. ClientTypeOK'
  BY DEF Return, device, ClientTypeOK
<1>2. CallOf(c)'
  BY DEF Return, device, ClientTypeOK, CallOf
<1> QED
  BY <1>1, <1>2, OneClient DEF Return, device, ClientTypeOK

LEMMA ClientSteps == IClient /\ ClientNext => IClient'
  BY CallingStep, LateWriteStep, ReadStep, ReadFailsStep, ReadFailsUnnoticedStep,
     WriteSucceedsStep, WriteFailsStep, ReturnStep DEF ClientNext, CallStep

-----------------------------------------------------------------------------
(* The steps of AtomicSet.                                                 *)

Phases == [c \in Clients |-> Phase(c)]

LEMMA InitAtomic == ClientInit => Atomic!Init
<1> SUFFICES ASSUME ClientInit PROVE Atomic!Init
  OBVIOUS
<1>1. cell \in [Cells -> Words]
  BY ClientAssumption DEF ClientInit
<1>2. Phases = [c \in Clients |-> "called"]
  BY DEF ClientInit, Phases, Phase
<1> QED
  BY <1>1, <1>2 DEF ClientInit, Atomic!Init, Phases

\* The phase of a client depends on that client only.
LEMMA PhaseOf ==
  ASSUME NEW c \in Clients, NEW p,
         \A d \in Clients \ {c} :
           pc'[d] = pc[d] /\ rc'[d] = rc[d] /\ blind'[d] = blind[d],
         Phase(c)' = p
  PROVE  Phases' = [Phases EXCEPT ![c] = p]
  BY DEF Phases, Phase

LEMMA AtomicCall ==
  ASSUME IClient, NEW c \in Clients, NEW op \in Operations, NEW word \in Words,
         Call(c, op, word)
  PROVE  Atomic!Next
<1> DEFINE g == [cell |-> Target(op), word |-> word]
<1>1. g \in Goals
  BY DEF Goals, Target, Cells
<1>2. goal[c] = Idle
  BY DEF IClient, CallOf, Call
<1>3. Phases' = Phases
  BY DEF Call, Phases, Phase, IClient, ClientTypeOK
<1>4. goal' = [goal EXCEPT ![c] = g] /\ cell' = cell /\ late' = late
  BY DEF Call, device
<1> HIDE DEF g
<1>5. Atomic!Call(c, g)
  BY <1>2, <1>3, <1>4 DEF Atomic!Call, Phases
<1> QED
  BY <1>1, <1>5 DEF Atomic!Next, Atomic!Goals, Goals

LEMMA AtomicLate ==
  ASSUME IClient, NEW c \in Clients, LateWrite(c)
  PROVE  Atomic!Next
<1>1. Phases' = Phases
  BY DEF LateWrite, client, Phases, Phase
<1>2. Atomic!Stray(c)
  BY <1>1 DEF LateWrite, Write, client, Atomic!Stray, Phases
<1> QED
  BY <1>2 DEF Atomic!Next

\* A comparison that finds the word already there is the instant at which
\* the call takes effect.
LEMMA AtomicRead ==
  ASSUME IClient, NEW c \in Clients, Read(c)
  PROVE  Atomic!Next \/ UNCHANGED Atomic!vars
<1>1. /\ goal[c] \in Goals /\ goal[c] # Idle /\ pc[c] = "read" /\ ~blind[c]
      /\ cell \in [Cells -> Words]
  BY GoalsApart DEF Read, IClient, ClientTypeOK, CallOf
<1>2. cell' = cell /\ late' = late /\ goal' = goal /\ blind' = blind
  BY DEF Read, device
<1>3. \A d \in Clients \ {c} :
        pc'[d] = pc[d] /\ rc'[d] = rc[d] /\ blind'[d] = blind[d]
  BY DEF Read, Compare, IClient, ClientTypeOK
<1>4. CASE cell[goal[c].cell] # goal[c].word
  <2>1. Phase(c)' = "called" /\ Phase(c) = "called"
    BY <1>1, <1>4 DEF Read, Compare, Differs, Phase, IClient, ClientTypeOK
  <2>2. Phases' = Phases
    BY <1>3, <2>1 DEF Phases, Phase
  <2> QED
    BY <1>2, <2>2 DEF Atomic!vars, Phases
<1>5. CASE cell[goal[c].cell] = goal[c].word
  <2>1. Phase(c)' = "done"
    BY <1>1, <1>2, <1>5 DEF Read, Compare, Differs, Phase, IClient, ClientTypeOK
  <2>2. Phases' = [Phases EXCEPT ![c] = "done"]
    BY <1>3, <2>1, PhaseOf
  <2>3. Phases[c] = "called"
    BY <1>1 DEF Phases, Phase
  <2>4. cell' = [cell EXCEPT ![goal[c].cell] = goal[c].word]
    BY <1>1, <1>2, <1>5 DEF Goals
  <2>5. Atomic!Apply(c)
    BY <1>1, <1>2, <2>2, <2>3, <2>4 DEF Atomic!Apply, Phases
  <2> QED
    BY <2>5 DEF Atomic!Next
<1> QED
  BY <1>4, <1>5

LEMMA AtomicReadFails ==
  ASSUME IClient, NEW c \in Clients, ReadFails(c)
  PROVE  Atomic!Next
<1>1. goal[c] # Idle /\ pc[c] = "read"
  BY DEF ReadFails, IClient, CallOf
<1>2. cell' = cell /\ late' = late /\ goal' = goal
  BY DEF ReadFails, device
<1>3. Phases' = [Phases EXCEPT ![c] = "failed"]
  <2>1. Phase(c)' = "failed"
    BY DEF ReadFails, Fails, Phase, IClient, ClientTypeOK
  <2> QED
    BY <2>1, PhaseOf DEF ReadFails, Fails, IClient, ClientTypeOK
<1>4. Phases[c] = "called"
  BY <1>1 DEF Phases, Phase
<1>5. Atomic!Fail(c)
  BY <1>1, <1>2, <1>3, <1>4 DEF Atomic!Fail, Phases
<1> QED
  BY <1>5 DEF Atomic!Next

\* A coil whose read failed may be taken to hold the word already.
LEMMA AtomicUnnoticed ==
  ASSUME IClient, NEW c \in Clients, ReadFailsUnnoticed(c)
  PROVE  Atomic!Next \/ UNCHANGED Atomic!vars
<1>1. PICK byte : Compare(c, byte)
  BY DEF ReadFailsUnnoticed
<1>2. goal[c] # Idle /\ pc[c] = "read" /\ goal[c].cell = "coil"
  BY DEF ReadFailsUnnoticed, IClient, CallOf
<1>3. cell' = cell /\ late' = late /\ goal' = goal /\ blind'[c]
  BY DEF ReadFailsUnnoticed, device, IClient, ClientTypeOK
<1>4. \A d \in Clients \ {c} :
        pc'[d] = pc[d] /\ rc'[d] = rc[d] /\ blind'[d] = blind[d]
  BY <1>1 DEF ReadFailsUnnoticed, Compare, IClient, ClientTypeOK
<1>5. CASE Differs(byte, goal[c].word)
  <2>1. Phase(c)' = "called" /\ Phase(c) = "called"
    BY <1>1, <1>2, <1>5 DEF Compare, Phase, IClient, ClientTypeOK
  <2>2. Phases' = Phases
    BY <1>4, <2>1 DEF Phases, Phase
  <2> QED
    BY <1>3, <2>2 DEF Atomic!vars, Phases
<1>6. CASE ~Differs(byte, goal[c].word)
  <2>1. Phase(c)' = "assumed"
    BY <1>1, <1>3, <1>6 DEF Compare, Phase, IClient, ClientTypeOK
  <2>2. Phases' = [Phases EXCEPT ![c] = "assumed"]
    BY <1>4, <2>1, PhaseOf
  <2>3. Phases[c] = "called"
    BY <1>2 DEF Phases, Phase
  <2>4. Atomic!Assume(c)
    BY <1>2, <1>3, <2>2, <2>3 DEF Atomic!Assume, Phases
  <2> QED
    BY <2>4 DEF Atomic!Next
<1> QED
  BY <1>5, <1>6

LEMMA AtomicWrite ==
  ASSUME IClient, NEW c \in Clients, WriteSucceeds(c)
  PROVE  Atomic!Next
<1>1. goal[c] # Idle /\ pc[c] = "write"
  BY DEF WriteSucceeds, IClient, CallOf
<1>2. /\ cell' = [cell EXCEPT ![goal[c].cell] = goal[c].word]
      /\ late' = late /\ goal' = goal
  BY DEF WriteSucceeds, Write
<1>3. Phases' = [Phases EXCEPT ![c] = "done"]
  <2>1. Phase(c)' = "done"
    BY DEF WriteSucceeds, Phase, IClient, ClientTypeOK
  <2> QED
    BY <2>1, PhaseOf DEF WriteSucceeds, IClient, ClientTypeOK
<1>4. Phases[c] = "called"
  BY <1>1 DEF Phases, Phase
<1>5. Atomic!Apply(c)
  BY <1>1, <1>2, <1>3, <1>4 DEF Atomic!Apply, Phases
<1> QED
  BY <1>5 DEF Atomic!Next

LEMMA AtomicWriteFails ==
  ASSUME IClient, NEW c \in Clients, WriteFails(c)
  PROVE  Atomic!Next
<1> USE DEF AfterFailedWrite
<1>1. goal[c] # Idle /\ pc[c] = "write" /\ late \in [Clients -> Goals \cup {Idle}]
  BY DEF WriteFails, IClient, ClientTypeOK, CallOf
<1>2. /\ goal' = goal
      /\ \/ cell' = cell /\ late' = late
         \/ cell' = [cell EXCEPT ![goal[c].cell] = goal[c].word] /\ late' = late
         \/ late' = [late EXCEPT ![c] = goal[c]] /\ cell' = cell
  BY <1>1 DEF WriteFails, Write
<1>3. Phases' = [Phases EXCEPT ![c] = "failed"]
  <2>1. Phase(c)' = "failed"
    BY DEF WriteFails, Phase, IClient, ClientTypeOK
  <2> QED
    BY <2>1, PhaseOf DEF WriteFails, IClient, ClientTypeOK
<1>4. Phases[c] = "called"
  BY <1>1 DEF Phases, Phase
<1>5. Atomic!Fail(c)
  BY <1>1, <1>2, <1>3, <1>4 DEF Atomic!Fail, Phases
<1> QED
  BY <1>5 DEF Atomic!Next

LEMMA AtomicReturn ==
  ASSUME IClient, NEW c \in Clients, Return(c)
  PROVE  Atomic!Next
<1>1. goal[c] # Idle /\ pc[c] = "return"
  BY DEF Return, IClient, CallOf
<1>2. cell' = cell /\ late' = late /\ goal' = [goal EXCEPT ![c] = Idle]
  BY DEF Return, device
<1>3. Phases' = [Phases EXCEPT ![c] = "called"]
  <2>1. Phase(c)' = "called"
    BY DEF Return, Phase, IClient, ClientTypeOK
  <2> QED
    BY <2>1, PhaseOf DEF Return, IClient, ClientTypeOK
<1>4. Phases[c] # "called"
  BY <1>1 DEF Phases, Phase
<1>5. Atomic!Return(c)
  BY <1>1, <1>2, <1>3, <1>4 DEF Atomic!Return, Phases
<1> QED
  BY <1>5 DEF Atomic!Next

LEMMA AtomicSteps == IClient /\ ClientNext => Atomic!Next \/ UNCHANGED Atomic!vars
  BY AtomicCall, AtomicLate, AtomicRead, AtomicReadFails, AtomicUnnoticed,
     AtomicWrite, AtomicWriteFails, AtomicReturn DEF ClientNext, CallStep

LEMMA AtomicStutter == UNCHANGED clientVars => UNCHANGED Atomic!vars
  BY DEF clientVars, Atomic!vars, Phase
=============================================================================
