---------------------------- MODULE CircularBuffer ----------------------------
(***************************************************************************)
(* The circular buffer of test.c: an array of BUFFER_SIZE entries and two  *)
(* indices.  One entry always stays free, so that start = end means empty; *)
(* a push on a full buffer gives up the oldest entry.                      *)
(***************************************************************************)
EXTENDS Integers, Sequences

CONSTANTS
  BUFFER_SIZE,  \* entries of the array (50 in the code)
  Entries,      \* what an entry holds
  Unwritten     \* what the array holds before the first push

ASSUME BufferAssumption == BUFFER_SIZE \in Nat /\ BUFFER_SIZE >= 2

VARIABLES start, end, data

buffer == <<start, end, data>>

Index == 0..(BUFFER_SIZE - 1)

\* The successor of an index.
Step_PastEnd(i) == IF i = BUFFER_SIZE THEN 0 ELSE i + 1
Step(i) == (i + 1) % BUFFER_SIZE

\* The buffer lives on the stack of main(): buffer_init sets the indices only.
buffer_init ==
  /\ start = 0 /\ end = 0
  /\ data = [i \in Index |-> Unwritten]

buffer_is_full_Never == FALSE
buffer_is_full == Step(end) = start

buffer_push(v) ==
  /\ start' = IF buffer_is_full THEN Step(start) ELSE start
  /\ data' = [data EXCEPT ![end] = v]
  /\ end' = Step(end)

\* What print_buffer prints: the entries from start up to, not including, end.
Used == IF start <= end THEN end - start ELSE end - start + BUFFER_SIZE

print_buffer == [k \in 1..Used |-> data[(start + k - 1) % BUFFER_SIZE]]

BufferTypeOK ==
  /\ start \in Index /\ end \in Index
  /\ data \in [Index -> Entries \cup {Unwritten}]
=============================================================================
