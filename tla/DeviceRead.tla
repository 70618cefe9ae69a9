----------------------------- MODULE DeviceRead -----------------------------
(***************************************************************************)
(* What do_modbus_command() promises its callers, whatever the connection  *)
(* does: what a command returns is either a failure or a value the device  *)
(* held at some moment between the call and the return.  A command that    *)
(* the function does not know returns nothing of use.                      *)
(***************************************************************************)
EXTENDS Integers

CONSTANTS Fcodes, Failed, Undefined

VARIABLES
  reg,     \* the version of the value in the device
  busy,    \* whether a command is being executed
  fcode,   \* which
  since,   \* the version when it was called
  result   \* of the latest command once it has returned, else Undefined

vars == <<reg, busy, fcode, since, result>>

Init ==
  /\ reg = 0 /\ since = 0
  /\ busy = FALSE
  /\ fcode \in Fcodes
  /\ result \in {0, Undefined}

DeviceChanges ==
  /\ reg' = reg + 1
  /\ UNCHANGED <<busy, fcode, since, result>>

Call ==
  /\ ~busy /\ busy' = TRUE
  /\ fcode' \in Fcodes
  /\ since' = reg
  /\ result' = Undefined
  /\ UNCHANGED reg

Return ==
  /\ busy /\ busy' = FALSE
  /\ result' \in IF fcode = "known" THEN (since..reg) \cup {Failed} ELSE {Undefined}
  /\ UNCHANGED <<reg, fcode, since>>

Next == DeviceChanges \/ Call \/ Return

Spec == Init /\ [][Next]_vars
=============================================================================
