---------------------------- MODULE SensorRecorder ----------------------------
(***************************************************************************)
(* SensorDataProcess(): one query of the acquisition device, the removal   *)
(* of repeated readings, and the insertion of what is left into the        *)
(* database, called again and again while the mold is closed.              *)
(*                                                                         *)
(* A reading equal to the previous one of its channel is not stored, except*)
(* every duplicate_output_time and as the last one before a change.  The   *)
(* table that remembers the previous readings starts out zeroed and is     *)
(* cleared at mold opened; the rows one call decides to store are inserted *)
(* one by one.                                                             *)
(***************************************************************************)
EXTENDS Integers, Sequences, FiniteSets

CONSTANTS
  amount,                 \* registers read by one query, one per channel
  Mapped,                 \* channels that have a sensor (MOSensorSN >= 0)
  Values,                 \* the raw readings
  duplicate_output_time,  \* how long repeated readings may stay unstored
  MaxGap,                 \* bound: time from one query to the next
  MaxSamples,             \* bound: queries in one shot
  Faults                  \* which of "query" and "insert" may fail

Channels == 0..(amount - 1)

ASSUME SensorRecorderAssumption ==
  /\ amount \in Nat
  /\ Mapped \subseteq Channels
  /\ 0 \in Values
  /\ duplicate_output_time \in Nat
  /\ MaxGap \in Nat \ {0}
  /\ MaxSamples \in Nat
  /\ Faults \subseteq {"query", "insert"}

VARIABLES
  pc,        \* "query": about to query; "insert": inserting rows
  RD_last,   \* per channel, the previous reading and since when it repeats
  realdata,  \* rows this call still has to insert
  table,     \* rows of this shot in the database
  samples,   \* history: the readings processed in this shot
  measured,  \* history: which of the samples the device really answered
  lost       \* history: channels of which a row could not be inserted

vars == <<pc, RD_last, realdata, table, samples, measured, lost>>

-----------------------------------------------------------------------------
Cleared_Sentinel == [rdata |-> 0 - 1, isdup |-> 0, time_tick |-> 0, dup_start |-> 0]
Cleared_Unset == [rdata |-> 1, isdup |-> 0, time_tick |-> 0, dup_start |-> 0]
Cleared == [rdata |-> 0, isdup |-> 0, time_tick |-> 0, dup_start |-> 0]

\* A row of channel c, with the reading v of time t.
Row(c, t, v) == [ch |-> c, tick |-> t, val |-> v]

\* The time of the latest query, counted from the closing of the mold.
Now == IF samples = <<>> THEN 0 ELSE samples[Len(samples)].tick

Init ==
  /\ pc = "query"
  /\ RD_last = [c \in Channels |-> Cleared]
  /\ realdata = {}
  /\ table = {}
  /\ samples = <<>>
  /\ measured = {}
  /\ lost = {}

-----------------------------------------------------------------------------
(* Removing repeated readings.  A start of 0 means: not repeating yet.     *)

Repeats(c, v) == RD_last[c].rdata = v

DupStart_Late(c, t) == t
DupStart(c, t) == IF RD_last[c].dup_start = 0 THEN t ELSE RD_last[c].dup_start

Due(c, t) == t - DupStart(c, t) >= duplicate_output_time

\* The table's entry for channel c after it read v at time t.
Remember(c, t, v) ==
  IF Repeats(c, v)
    THEN [ rdata |-> v, isdup |-> 1, time_tick |-> t,
           dup_start |-> IF Due(c, t) THEN t ELSE DupStart(c, t) ]
    ELSE [ rdata |-> v, isdup |-> 0, time_tick |-> t, dup_start |-> 0 ]

\* The latest of a run of repeated readings, which a change makes worth
\* storing.
LastRepeated_Now(c, t) ==
  IF RD_last[c].isdup = 1 THEN {Row(c, t, RD_last[c].rdata)} ELSE {}
LastRepeated_None(c, t) == {}
LastRepeated_Both(c, t) ==
  IF RD_last[c].isdup = 1
    THEN { Row(c, RD_last[c].time_tick, RD_last[c].rdata),
           Row(c, RD_last[c].dup_start, RD_last[c].rdata) } ELSE {}
LastRepeated(c, t) ==
  IF RD_last[c].isdup = 1
    THEN {Row(c, RD_last[c].time_tick, RD_last[c].rdata)} ELSE {}

\* The rows that channel c, reading v at time t, gives rise to.
Emitted(c, t, v) ==
  IF Repeats(c, v)
    THEN IF Due(c, t) THEN {Row(c, t, v)} ELSE {}
    ELSE LastRepeated(c, t) \cup {Row(c, t, v)}

-----------------------------------------------------------------------------
(* One call.  When the query fails the buffer it should have filled is     *)
(* used as malloc() left it: any readings at all.                          *)

Query ==
  /\ pc = "query"
  /\ Len(samples) < MaxSamples
  /\ \E gap \in 1..MaxGap, data \in [Channels -> Values], answered \in BOOLEAN :
       LET t == Now + gap
       IN  /\ answered \/ "query" \in Faults
           /\ samples' = Append(samples, [tick |-> t, data |-> data])
           /\ measured' = IF answered THEN measured \cup {Len(samples) + 1}
                                      ELSE measured
           /\ RD_last' = [c \in Channels |-> IF c \in Mapped
                                               THEN Remember(c, t, data[c])
                                               ELSE RD_last[c]]
           /\ realdata' = UNION {Emitted(c, t, data[c]) : c \in Mapped}
  /\ pc' = "insert"
  /\ UNCHANGED <<table, lost>>

\* realdata is an array: by channel, and the earlier reading first.
First_Latest(r) ==
  \A q \in realdata : r.ch < q.ch \/ (r.ch = q.ch /\ r.tick >= q.tick)
First(r) ==
  \A q \in realdata : r.ch < q.ch \/ (r.ch = q.ch /\ r.tick <= q.tick)

\* A row that cannot be inserted is logged and given up.
Insert ==
  /\ pc = "insert"
  /\ \E r \in realdata :
       /\ First(r)
       /\ realdata' = realdata \ {r}
       /\ \/ table' = table \cup {r} /\ UNCHANGED lost
          \/ /\ "insert" \in Faults
             /\ lost' = lost \cup {r.ch}
             /\ UNCHANGED table
  /\ UNCHANGED <<pc, RD_last, samples, measured>>

Return ==
  /\ pc = "insert" /\ realdata = {}
  /\ pc' = "query"
  /\ UNCHANGED <<RD_last, realdata, table, samples, measured, lost>>

\* Between two calls the main loop sees the mold opened: the table is
\* cleared and the next shot begins.
Reset ==
  /\ pc = "query" /\ samples # <<>>
  /\ RD_last' = [c \in Channels |-> Cleared]
  /\ table' = {} /\ samples' = <<>> /\ measured' = {} /\ lost' = {}
  /\ UNCHANGED <<pc, realdata>>

Next == Query \/ Insert \/ Return \/ Reset

Spec == Init /\ [][Next]_vars

-----------------------------------------------------------------------------
(* Properties.                                                             *)

Rows    == [ch : Channels, tick : Nat, val : Values]
Entries == [rdata : Values, isdup : {0, 1}, time_tick : Nat, dup_start : Nat]
Samples == [tick : Nat, data : [Channels -> Values]]

TypeOK ==
  /\ pc \in {"query", "insert"}
  /\ RD_last \in [Channels -> Entries]
  /\ realdata \subseteq Rows /\ table \subseteq Rows
  /\ samples \in Seq(Samples)
  /\ measured \subseteq DOMAIN samples
  /\ lost \subseteq Channels

\* "an array size for twice the register number will be enough": the rows of
\* one call never overrun realdata.
RowsFit == Cardinality(realdata) <= 2 * amount

\* The row that sample k would be for channel c.
RowAt(c, k) == Row(c, samples[k].tick, samples[k].data[c])

\* Rows stored or about to be.
Log == table \cup realdata

\* A row that is given up spoils its own channel, and no other.
Intact == Mapped \ lost

\* Every row is a reading the device gave, of a mapped channel, at the time
\* it gave it: "query sensor data from DAQ and write them into database".
RowsTruthful ==
  \A r \in Log : \E c \in Mapped, k \in measured : r = RowAt(c, k)

\* Both sides of every change are kept, the first readings of the shot
\* counting as a change from 0: "if data duplicate stops (dup flag == 1, and
\* new data != last data) write RD_last to DB too".
Changes(c) ==
  {k \in 1..(Len(samples) - 1) : samples[k].data[c] # samples[k + 1].data[c]}
EdgesKept ==
  \A c \in Intact :
    /\ \A k \in Changes(c) : RowAt(c, k) \in Log /\ RowAt(c, k + 1) \in Log
    /\ samples # <<>> => \/ samples[1].data[c] = 0
                         \/ RowAt(c, 1) \in Log

\* At every moment, in the middle of an insertion too, whoever joins the
\* stored rows of a channel by straight lines gets every reading in between
\* exactly: between two neighbouring rows there is no sample, or all samples
\* from one to the other have the same value.
StoredAt(c) == {k \in DOMAIN samples : RowAt(c, k) \in table}
InterpolationExact ==
  \A c \in Intact : \A i, j \in StoredAt(c) :
    i < j /\ StoredAt(c) \cap ((i + 1)..(j - 1)) = {}
      => \/ j = i + 1
         \/ \A k \in i..j : samples[k].data[c] = samples[i].data[c]

\* Between two calls nothing is lost: every reading of the shot is that of
\* the channel's latest row at or before it, and 0 if there is none.  Whoever
\* has the database has the readings, the latest ones included.
ReadingsRecoverable ==
  pc = "query" =>
    \A c \in Intact : \A k \in DOMAIN samples :
      \/ samples[k].data[c] = 0 /\ \A j \in StoredAt(c) : j > k
      \/ \E j \in StoredAt(c) :
           /\ j <= k /\ \A i \in StoredAt(c) : i <= k => i <= j
           /\ samples[k].data[c] = samples[j].data[c]

\* "write the duplicated data to DB in a configurable time period": between
\* two calls the latest row of a channel is younger than the period plus one
\* gap between queries, however long a reading repeats.
HeartbeatInTime ==
  pc = "query" /\ samples # <<>> =>
    \A c \in Intact :
      \/ \E k \in StoredAt(c) :
           Now - samples[k].tick < duplicate_output_time + MaxGap
      \/ Now - samples[1].tick < duplicate_output_time
=============================================================================
