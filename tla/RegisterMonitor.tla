--------------------------- MODULE RegisterMonitor ---------------------------
(***************************************************************************)
(* The clients of RegisterClient beside a program that polls the register  *)
(* they set.  The repository has two: the loop of read_write_DO.c appends  *)
(* what it reads to a log, that of test.c pushes it on the circular buffer *)
(* and prints the buffer.                                                  *)
(*                                                                         *)
(* The two report a failed read differently: test.c by a result of its     *)
(* own, read_write_DO.c by EXIT_FAILURE in place of the word, which is 1   *)
(* and also a word the register may hold.  The loop that logs cannot tell  *)
(* them apart and logs neither.                                            *)
(***************************************************************************)
EXTENDS RegisterClient, CircularBuffer

ASSUME EntriesAssumption == Entries = Words

VARIABLES
  program,  \* "ring" (test.c) or "log" (read_write_DO.c)
  at,       \* "read" or "store"
  record,   \* the word last read
  opens,    \* whether log.txt can be opened for the line of that word
  lines     \* the latest lines of log.txt, no more than the buffer holds

monitor == <<program, at, record, opens, lines>>
vars == <<clientVars, buffer, monitor>>

EXIT_FAILURE == 1

\* Entries the circular buffer holds; also the bound on "lines".
Capacity == BUFFER_SIZE - 1

\* What the log takes: anything but the number a failed read returns.
Stored_All(word) == TRUE
Stored(word) == word # EXIT_FAILURE

\* The end of log.txt, which only grows: its latest Capacity lines.
LatestLines(all) == IF Len(all) > Capacity THEN Tail(all) ELSE all

-----------------------------------------------------------------------------
Init ==
  /\ ClientInit
  /\ buffer_init
  /\ program \in {"ring", "log"}
  /\ at = "read" /\ record = 0 /\ opens = TRUE /\ lines = <<>>

\* Whether the file will open is decided here and shows when it is written.
ReadValue ==
  /\ at = "read"
  /\ record' = cell["register"]
  /\ opens' \in IF program = "log" THEN BOOLEAN ELSE {TRUE}
  /\ at' = "store"
  /\ UNCHANGED <<clientVars, buffer, program, lines>>

\* In test.c a failed read leaves everything as it was: a stuttering step.
ReadValueFails ==
  /\ at = "read" /\ program = "log"
  /\ record' = EXIT_FAILURE
  /\ at' = "store"
  /\ UNCHANGED <<clientVars, buffer, program, opens, lines>>

Store ==
  /\ at = "store" /\ program = "ring"
  /\ buffer_push(record)
  /\ at' = "read" /\ record' = 0
  /\ UNCHANGED <<clientVars, program, opens, lines>>

\* A file that cannot be opened loses the line; nobody is told.
Log ==
  /\ at = "store" /\ program = "log"
  /\ lines' = IF Stored(record) /\ opens THEN LatestLines(Append(lines, record))
                                         ELSE lines
  /\ at' = "read" /\ record' = 0 /\ opens' = TRUE
  /\ UNCHANGED <<clientVars, buffer, program>>

Next ==
  \/ ClientNext /\ UNCHANGED <<buffer, monitor>>
  \/ ReadValue \/ ReadValueFails \/ Store \/ Log

Spec == Init /\ [][Next]_vars

FairSpec ==
  Spec /\ \A c \in Clients : WF_vars(CallStep(c) /\ UNCHANGED <<buffer, monitor>>)

-----------------------------------------------------------------------------
TypeOK ==
  /\ ClientTypeOK
  /\ BufferTypeOK
  /\ program \in {"ring", "log"}
  /\ at \in {"read", "store"}
  /\ record \in Words
  /\ opens \in BOOLEAN
  /\ lines \in Seq(Words) /\ Len(lines) <= Capacity

-----------------------------------------------------------------------------
(* What is kept, against the promise of SlidingWindow.  A reading is taken *)
(* when the register is read and kept a step later; between the two the    *)
(* promised window has it already.                                         *)

Register == cell["register"]

Slid(kept, word) ==
  IF Len(kept) < Capacity THEN Append(kept, word) ELSE Append(Tail(kept), word)

RingSeen == IF at = "store" THEN Slid(print_buffer, record) ELSE print_buffer
LogSeen  ==
  IF at = "store" /\ record # 1 /\ opens THEN Slid(lines, record) ELSE lines

RingWindow == IF program = "ring" THEN RingSeen ELSE <<>>
LogWindow  == IF program = "log" THEN LogSeen ELSE <<>>

Sampled == INSTANCE SlidingWindow WITH
  Values <- Words, source <- Register, window <- RingWindow

Recorded == INSTANCE SlidingWindow WITH
  Values <- Words, source <- Register, window <- LogWindow

\* The buffer of test.c as printed is the latest successful reads of the
\* register, all of them, oldest first, each a word the register held at one
\* instant while clients write it: no slot is printed before it is written
\* and none after it is given up.
SamplesRegister == Sampled!Spec

\* Every line of the log of read_write_DO.c is a word the register held at one
\* instant, in the order of the reads; a failed read is never logged as a word,
\* and no reading of a word other than 1 is lost while the file can be opened.
\* Of readings of the word 1 it promises nothing: line 69 drops them all, as it
\* does failed reads.
LogTruthful == Recorded!Spec
=============================================================================
