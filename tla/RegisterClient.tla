---------------------------- MODULE RegisterClient ----------------------------
(***************************************************************************)
(* The functions of read_write_DO.c that set a register, the enable status *)
(* of a channel or a coil: read it, compare, and write only if it differs. *)
(* The read and the write are two Modbus commands; any number of clients   *)
(* run these functions against one device at the same time.                *)
(*                                                                         *)
(* A command that fails may have failed on the way to the device or on the *)
(* way back: a failed write may have taken effect, and one that the device *)
(* was slow to take may do so after the call has returned.                 *)
(***************************************************************************)
EXTENDS Integers

CONSTANTS
  Clients,     \* the callers, each with a connection of its own
  Operations,  \* the functions they call
  Words,       \* values of a register; those of a coil are 0 and 1
  MaxCalls,    \* bound: calls made in all
  Unset,       \* any other content of uninitialised memory
  Idle         \* no call, no write under way

Functions == {"set_value_to_register", "set_input_channel_enable_status",
              "set_value_to_coil"}
Cells == {"register", "coil"}

ASSUME ClientAssumption ==
  /\ Operations \subseteq Functions
  /\ {0, 1} \subseteq Words
  /\ MaxCalls \in Nat
  /\ Unset \notin Words
  /\ Idle \notin [cell : Cells, word : Words]

VARIABLES
  cell,        \* the device: what the register and the coil hold
  calls,       \* calls made so far
  pc,          \* per client: "idle", "read", "write" or "return"
  goal,        \* per client: the cell to set and the word wanted
  rc,          \* per client: what the call returns
  late,        \* per client: a failed write the device has yet to apply
  disturbed,   \* history, per client: the cell changed since the call's read
  blind        \* history, per client: the call rests on a read that failed

device == <<cell, late>>
client == <<calls, pc, goal, rc, blind>>
clientVars == <<cell, calls, pc, goal, rc, late, disturbed, blind>>

-----------------------------------------------------------------------------
Goals == [cell : Cells, word : Words]

Target(op) == IF op = "set_value_to_coil" THEN "coil" ELSE "register"

ClientInit ==
  /\ cell \in [Cells -> {0, 1}]
  /\ calls = 0
  /\ pc = [c \in Clients |-> "idle"]
  /\ goal = [c \in Clients |-> Idle]
  /\ rc = [c \in Clients |-> "none"]
  /\ late = [c \in Clients |-> Idle]
  /\ disturbed = [c \in Clients |-> FALSE]
  /\ blind = [c \in Clients |-> FALSE]

\* The device takes a write of client c; the others who have read the cell
\* were disturbed if it changed.
Write(c, g) ==
  /\ cell' = [cell EXCEPT ![g.cell] = g.word]
  /\ disturbed' = [d \in Clients |->
       /\ d # c
       /\ \/ disturbed[d]
          \/ pc[d] = "write" /\ goal[d].cell = g.cell /\ cell[g.cell] # g.word]

LateWrite(c) ==
  /\ late[c] # Idle
  /\ Write(c, late[c])
  /\ late' = [late EXCEPT ![c] = Idle]
  /\ UNCHANGED client

-----------------------------------------------------------------------------
(* One call of one of the three functions.                                 *)

Call(c, op, word) ==
  /\ pc[c] = "idle" /\ calls < MaxCalls
  /\ calls' = calls + 1
  /\ op = "set_value_to_coil" => word \in {0, 1}
  /\ pc' = [pc EXCEPT ![c] = "read"]
  /\ goal' = [goal EXCEPT ![c] = [cell |-> Target(op), word |-> word]]
  /\ UNCHANGED <<device, rc, disturbed, blind>>

Differs_Always(read, word) == TRUE
Differs_Never(read, word) == FALSE
Differs(read, word) == read # word

\* The comparison: write if the word read differs, else return at once.
Compare(c, read) ==
  /\ disturbed' = [disturbed EXCEPT ![c] = FALSE]
  /\ IF Differs(read, goal[c].word)
       THEN pc' = [pc EXCEPT ![c] = "write"] /\ UNCHANGED rc
       ELSE /\ pc' = [pc EXCEPT ![c] = "return"]
            /\ rc' = [rc EXCEPT ![c] = "SUCCESS"]

Fails(c) ==
  /\ pc' = [pc EXCEPT ![c] = "return"]
  /\ rc' = [rc EXCEPT ![c] = "FAILURE"]

\* A connection's requests reach the device in order.
Read(c) ==
  /\ pc[c] = "read" /\ late[c] = Idle
  /\ Compare(c, cell[goal[c].cell])
  /\ UNCHANGED <<device, calls, goal, blind>>

ReadFails(c) ==
  /\ pc[c] = "read" /\ goal[c].cell = "register"
  /\ Fails(c)
  /\ UNCHANGED <<device, calls, goal, disturbed, blind>>

\* The return code of the read of a coil is dropped: the comparison takes
\* whatever the allocated byte held.
ReadFailsUnnoticed(c) ==
  /\ pc[c] = "read" /\ goal[c].cell = "coil"
  /\ \E byte \in {0, 1, Unset} : Compare(c, byte)
  /\ blind' = [blind EXCEPT ![c] = TRUE]
  /\ UNCHANGED <<device, calls, goal>>

WriteSucceeds(c) ==
  /\ pc[c] = "write" /\ late[c] = Idle
  /\ Write(c, goal[c])
  /\ pc' = [pc EXCEPT ![c] = "return"]
  /\ rc' = [rc EXCEPT ![c] = "SUCCESS"]
  /\ blind' = [blind EXCEPT ![c] = FALSE]
  /\ UNCHANGED <<calls, goal, late>>

AfterFailedWrite_Retry == "read"
AfterFailedWrite == "return"

\* The write never arrives, or its answer does not, or it arrives late.
WriteFails(c) ==
  /\ pc[c] = "write"
  /\ \/ late[c] = Idle /\ Write(c, goal[c]) /\ UNCHANGED late
     \/ /\ late' \in {late, [late EXCEPT ![c] = IF @ = Idle THEN goal[c] ELSE @]}
        /\ disturbed' = [disturbed EXCEPT ![c] = FALSE]
        /\ UNCHANGED cell
  /\ pc' = [pc EXCEPT ![c] = AfterFailedWrite]
  /\ rc' = [rc EXCEPT ![c] = "FAILURE"]
  /\ blind' = [blind EXCEPT ![c] = FALSE]
  /\ UNCHANGED <<calls, goal>>

Return(c) ==
  /\ pc[c] = "return"
  /\ pc' = [pc EXCEPT ![c] = "idle"]
  /\ goal' = [goal EXCEPT ![c] = Idle]
  /\ rc' = [rc EXCEPT ![c] = "none"]
  /\ blind' = [blind EXCEPT ![c] = FALSE]
  /\ UNCHANGED <<device, calls, disturbed>>

\* The steps of a call; every command is answered or times out.
CallStep(c) ==
  \/ Read(c) \/ ReadFails(c) \/ ReadFailsUnnoticed(c)
  \/ WriteSucceeds(c) \/ WriteFails(c) \/ Return(c)

ClientNext ==
  \E c \in Clients :
    \/ \E op \in Operations, word \in Words : Call(c, op, word)
    \/ CallStep(c)
    \/ LateWrite(c)

ClientSpec == ClientInit /\ [][ClientNext]_clientVars

-----------------------------------------------------------------------------
(* Properties.                                                             *)

ClientTypeOK ==
  /\ cell \in [Cells -> Words]
  /\ calls \in 0..MaxCalls
  /\ pc \in [Clients -> {"idle", "read", "write", "return"}]
  /\ goal \in [Clients -> Goals \cup {Idle}]
  /\ rc \in [Clients -> {"none", "SUCCESS", "FAILURE"}]
  /\ late \in [Clients -> Goals \cup {Idle}]
  /\ disturbed \in [Clients -> BOOLEAN]
  /\ blind \in [Clients -> BOOLEAN]

\* How far the call of a client is, in the terms of AtomicSet.
Phase(c) ==
  IF pc[c] # "return" THEN "called"
  ELSE IF rc[c] = "FAILURE" THEN "failed"
  ELSE IF blind[c] THEN "assumed" ELSE "done"

Atomic == INSTANCE AtomicSet WITH
  value <- cell, stray <- late, phase <- [c \in Clients |-> Phase(c)]

\* A call that reports success took effect in one instant while it ran, even
\* when other clients write between its read and its write; the exception is
\* a coil whose read failed.  A failed call takes effect at most once more.
ImplementsAtomicSet == Atomic!Spec

\* Nothing is written that the device already holds, except where another
\* client wrote it after the read, or the coil was never read.
WriteNeeded ==
  [][\A c \in Clients :
       pc[c] = "write" /\ pc'[c] = "return" /\ cell[goal[c].cell] = goal[c].word
         => disturbed[c] \/ blind[c]]_clientVars

\* Every call returns, since every command is answered or times out: no
\* other client can make it start over.
CallsReturn ==
  \A c \in Clients : pc[c] = "read" ~> pc[c] = "idle"
=============================================================================
