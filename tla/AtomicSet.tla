------------------------------ MODULE AtomicSet ------------------------------
(***************************************************************************)
(* What the functions that set a register or a coil promise their callers, *)
(* whatever other callers do at the same time: a call that succeeds took   *)
(* effect at one instant between its start and its return.  A call that    *)
(* fails may have taken effect, may never do, or may do after its return.  *)
(* Setting a coil may also succeed by assumption, with no effect at all.   *)
(***************************************************************************)
CONSTANTS Clients, Cells, Words, Idle

VARIABLES
  value,   \* what each cell holds
  goal,    \* per client, the cell and word of its call, or Idle
  phase,   \* per client: "called", "done", "assumed" or "failed"
  stray    \* per client, the write of a failed call still to be applied, or Idle

vars == <<value, goal, phase, stray>>

Goals == [cell : Cells, word : Words]

Init ==
  /\ value \in [Cells -> Words]
  /\ goal = [c \in Clients |-> Idle]
  /\ phase = [c \in Clients |-> "called"]
  /\ stray = [c \in Clients |-> Idle]

Call(c, g) ==
  /\ goal[c] = Idle
  /\ goal' = [goal EXCEPT ![c] = g]
  /\ UNCHANGED <<value, phase, stray>>

\* The instant at which the call takes effect.
Apply(c) ==
  /\ goal[c] # Idle /\ phase[c] = "called"
  /\ value' = [value EXCEPT ![goal[c].cell] = goal[c].word]
  /\ phase' = [phase EXCEPT ![c] = "done"]
  /\ UNCHANGED <<goal, stray>>

Assume(c) ==
  /\ goal[c] # Idle /\ phase[c] = "called" /\ goal[c].cell = "coil"
  /\ phase' = [phase EXCEPT ![c] = "assumed"]
  /\ UNCHANGED <<value, goal, stray>>

\* The call fails, before or after it took effect, or with its write still
\* on the way.
Fail(c) ==
  /\ goal[c] # Idle /\ phase[c] = "called"
  /\ phase' = [phase EXCEPT ![c] = "failed"]
  /\ \/ UNCHANGED <<value, stray>>
     \/ value' = [value EXCEPT ![goal[c].cell] = goal[c].word] /\ UNCHANGED stray
     \/ stray' = [stray EXCEPT ![c] = goal[c]] /\ UNCHANGED value
  /\ UNCHANGED goal

Stray(c) ==
  /\ stray[c] # Idle
  /\ value' = [value EXCEPT ![stray[c].cell] = stray[c].word]
  /\ stray' = [stray EXCEPT ![c] = Idle]
  /\ UNCHANGED <<goal, phase>>

Return(c) ==
  /\ goal[c] # Idle /\ phase[c] # "called"
  /\ goal' = [goal EXCEPT ![c] = Idle]
  /\ phase' = [phase EXCEPT ![c] = "called"]
  /\ UNCHANGED <<value, stray>>

Next ==
  \E c \in Clients :
    \/ \E g \in Goals : Call(c, g)
    \/ Apply(c) \/ Assume(c) \/ Fail(c) \/ Stray(c) \/ Return(c)

Spec == Init /\ [][Next]_vars
=============================================================================
