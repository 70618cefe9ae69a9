------------------------- MODULE SensorRecorderProofs -------------------------
(***************************************************************************)
(* Theorems about SensorRecorder, for any number of channels, any readings *)
(* and any period: type correctness, the size of realdata, that no false   *)
(* reading gets into the database and no change of a reading is kept out   *)
(* of it, and that the rows stored determine every reading and keep the    *)
(* period.                                                                 *)
(***************************************************************************)
EXTENDS SensorRecorder, TLAPS, FiniteSetTheorems, SequenceTheorems

-----------------------------------------------------------------------------
(* Type correctness.                                                       *)

LEMMA RowType ==
  ASSUME NEW c \in Channels, NEW t \in Nat, NEW v \in Values
  PROVE  Row(c, t, v) \in Rows
BY DEF Row, Rows

LEMMA ClearedType == Cleared \in Entries
BY SensorRecorderAssumption DEF Cleared, Entries

LEMMA NowType ==
  ASSUME TypeOK
  PROVE  Now \in Nat
<1>1. samples # <<>> => Len(samples) \in DOMAIN samples
  BY DEF TypeOK
<1>2. samples # <<>> => samples[Len(samples)] \in Samples
  BY <1>1 DEF TypeOK
<1> QED  BY <1>2 DEF Now, Samples

\* What a channel remembers of a reading, and what it stores.
LEMMA RememberType ==
  ASSUME TypeOK, NEW c \in Channels, NEW t \in Nat, NEW v \in Values
  PROVE  Remember(c, t, v) \in Entries
BY DEF TypeOK, Remember, DupStart, Entries

LEMMA EmittedType ==
  ASSUME TypeOK, NEW c \in Channels, NEW t \in Nat, NEW v \in Values
  PROVE  Emitted(c, t, v) \subseteq Rows
<1>1. RD_last[c].time_tick \in Nat /\ RD_last[c].rdata \in Values
  BY DEF TypeOK, Entries
<1> QED  BY <1>1, RowType DEF Emitted, LastRepeated

\* The types of a recorder that appends the sample of time t.
LEMMA QueryType ==
  ASSUME TypeOK, NEW gap \in 1..MaxGap, NEW data \in [Channels -> Values]
  PROVE  /\ Now + gap \in Nat
         /\ [tick |-> Now + gap, data |-> data] \in Samples
         /\ \A c \in Channels : data[c] \in Values
<1>1. gap \in Nat
  BY SensorRecorderAssumption
<1> QED  BY <1>1, NowType DEF Samples

\* Every variable keeps its type, whatever the device answers or fails to.
THEOREM TypeCorrect == Spec => []TypeOK
<1>1. Init => TypeOK
  BY ClearedType DEF Init, TypeOK
<1>2. TypeOK /\ [Next]_vars => TypeOK'
  <2> SUFFICES ASSUME TypeOK, [Next]_vars PROVE TypeOK'
    OBVIOUS
  <2>1. CASE Query
    <3>1. PICK gap \in 1..MaxGap, data \in [Channels -> Values], answered \in BOOLEAN :
            LET t == Now + gap
            IN  /\ samples' = Append(samples, [tick |-> t, data |-> data])
                /\ measured' = IF answered THEN measured \cup {Len(samples) + 1}
                                           ELSE measured
                /\ RD_last' = [c \in Channels |-> IF c \in Mapped
                                                    THEN Remember(c, t, data[c])
                                                    ELSE RD_last[c]]
                /\ realdata' = UNION {Emitted(c, t, data[c]) : c \in Mapped}
      BY <2>1 DEF Query
    <3> DEFINE t == Now + gap
    <3>2. /\ t \in Nat /\ [tick |-> t, data |-> data] \in Samples
          /\ \A c \in Channels : data[c] \in Values
      BY QueryType
    <3>3. /\ samples' \in Seq(Samples)
          /\ DOMAIN samples' = 1..(Len(samples) + 1)
          /\ DOMAIN samples = 1..Len(samples)
          /\ Len(samples) \in Nat
      <4>1. samples \in Seq(Samples)
        BY DEF TypeOK
      <4> QED  BY <4>1, <3>1, <3>2, AppendProperties
    <3>4. measured' \subseteq DOMAIN samples'
      BY <3>1, <3>3 DEF TypeOK
    <3>5. RD_last' \in [Channels -> Entries]
      BY <3>1, <3>2, RememberType DEF TypeOK
    <3>6. realdata' \subseteq Rows
      BY <3>1, <3>2, EmittedType, SensorRecorderAssumption
    <3> QED  BY <2>1, <3>3, <3>4, <3>5, <3>6 DEF Query, TypeOK
  <2>2. CASE Insert
    BY <2>2 DEF Insert, TypeOK, Rows
  <2>3. CASE Return
    BY <2>3 DEF Return, TypeOK
  <2>4. CASE Reset
    BY <2>4, ClearedType DEF Reset, TypeOK
  <2>5. CASE UNCHANGED vars
    BY <2>5 DEF vars, TypeOK
  <2> QED  BY <2>1, <2>2, <2>3, <2>4, <2>5 DEF Next
<1> QED  BY <1>1, <1>2, PTL DEF Spec

-----------------------------------------------------------------------------
(* What the table of previous readings knows.                              *)

\* The table holds the latest sample of every mapped channel, or is cleared
\* before the first; and a call has inserted or given up all its rows before
\* the next one starts.
TableMatches ==
  \A c \in Mapped :
    /\ samples = <<>> => RD_last[c] = Cleared
    /\ samples # <<>> => /\ RD_last[c].rdata = samples[Len(samples)].data[c]
                         /\ RD_last[c].time_tick = Now
Delivered == pc = "query" => realdata = {}

\* A query of data at time t, in terms of the samples' positions.
QueriedAt(t, data) ==
  /\ t \in Nat /\ Now < t /\ t <= Now + MaxGap
  /\ data \in [Channels -> Values]
  /\ samples' # <<>> /\ Len(samples') = Len(samples) + 1
  /\ \A k \in 1..Len(samples) : samples'[k] = samples[k]
  /\ samples'[Len(samples) + 1] = [tick |-> t, data |-> data]
  /\ \A c \in Mapped : RD_last'[c] = Remember(c, t, data[c])
  /\ realdata' = UNION {Emitted(c, t, data[c]) : c \in Mapped}
  /\ UNCHANGED <<table, lost>>
  /\ pc = "query"
  /\ "query" \notin Faults => measured' = measured \cup {Len(samples) + 1}

LEMMA QueryStep ==
  ASSUME TypeOK, Query
  PROVE  \E t, data : QueriedAt(t, data)
<1>1. PICK gap \in 1..MaxGap, data \in [Channels -> Values], answered \in BOOLEAN :
        LET t == Now + gap
        IN  /\ answered \/ "query" \in Faults
            /\ samples' = Append(samples, [tick |-> t, data |-> data])
            /\ measured' = IF answered THEN measured \cup {Len(samples) + 1}
                                       ELSE measured
            /\ RD_last' = [c \in Channels |-> IF c \in Mapped
                                                THEN Remember(c, t, data[c])
                                                ELSE RD_last[c]]
            /\ realdata' = UNION {Emitted(c, t, data[c]) : c \in Mapped}
  BY DEF Query
<1> DEFINE t == Now + gap
<1>2. t \in Nat /\ [tick |-> t, data |-> data] \in Samples
  BY QueryType
<1>3. Now < t /\ t <= Now + MaxGap
  BY NowType, SensorRecorderAssumption
<1>4. samples \in Seq(Samples)
  BY DEF TypeOK
<1>5. /\ samples' # <<>> /\ Len(samples') = Len(samples) + 1
      /\ \A k \in 1..Len(samples) : samples'[k] = samples[k]
      /\ samples'[Len(samples) + 1] = [tick |-> t, data |-> data]
  BY <1>1, <1>2, <1>4, AppendProperties
<1>6. \A c \in Mapped : RD_last'[c] = Remember(c, t, data[c])
  BY <1>1, SensorRecorderAssumption
<1>7. "query" \notin Faults => measured' = measured \cup {Len(samples) + 1}
  BY <1>1
<1>8. UNCHANGED <<table, lost>> /\ pc = "query"
  BY DEF Query
<1>9. realdata' = UNION {Emitted(c, t, data[c]) : c \in Mapped}
  BY <1>1
<1>10. QueriedAt(t, data)
  BY <1>2, <1>3, <1>5, <1>6, <1>7, <1>8, <1>9 DEF QueriedAt
<1> QED  BY <1>10

LEMMA Remembered ==
  \A c, t, v : /\ Remember(c, t, v).rdata = v
               /\ Remember(c, t, v).time_tick = t
               /\ Remember(c, t, v).isdup = IF Repeats(c, v) THEN 1 ELSE 0
<1> TAKE c, t, v
<1>1. CASE Repeats(c, v)   BY <1>1 DEF Remember
<1>2. CASE ~Repeats(c, v)  BY <1>2 DEF Remember
<1> QED  BY <1>1, <1>2

LEMMA NowNext ==
  ASSUME TypeOK, NEW t, NEW data, QueriedAt(t, data)
  PROVE  Now' = t
<1>1. Len(samples) \in Nat
  BY DEF TypeOK
<1> QED  BY <1>1 DEF QueriedAt, Now

LEMMA TableStep ==
  ASSUME TypeOK, TableMatches, [Next]_vars
  PROVE  TableMatches'
<1>1. CASE Query
  <2>1. PICK t, data : QueriedAt(t, data)
    BY <1>1, QueryStep
  <2>2. \A c \in Mapped : /\ RD_last'[c].rdata = data[c]
                          /\ RD_last'[c].time_tick = t
    BY <2>1, Remembered DEF QueriedAt
  <2>3. Now' = t
    BY <2>1, NowNext
  <2>4. samples' # <<>> /\ samples'[Len(samples')] = [tick |-> t, data |-> data]
    BY <2>1 DEF QueriedAt
  <2>5. samples'[Len(samples')].data = data
    BY <2>4
  <2> QED  BY <2>2, <2>3, <2>4, <2>5 DEF TableMatches
<1>2. CASE Insert
  BY <1>2 DEF Insert, TableMatches, Now
<1>3. CASE Return
  BY <1>3 DEF Return, TableMatches, Now
<1>4. CASE Reset
  <2>1. samples' = <<>> /\ \A c \in Mapped : RD_last'[c] = Cleared
    BY <1>4, SensorRecorderAssumption DEF Reset
  <2> QED  BY <2>1 DEF TableMatches
<1>5. CASE UNCHANGED vars
  BY <1>5 DEF vars, TableMatches, Now
<1> QED  BY <1>1, <1>2, <1>3, <1>4, <1>5 DEF Next

LEMMA DeliveredStep ==
  ASSUME Delivered, [Next]_vars
  PROVE  Delivered'
BY DEF Delivered, Next, Query, Insert, Return, Reset, vars

LEMMA TableSound == Spec => [](TypeOK /\ TableMatches /\ Delivered)
<1>1. Init => TableMatches /\ Delivered
  BY SensorRecorderAssumption DEF Init, TableMatches, Delivered
<1> QED  BY <1>1, TableStep, DeliveredStep, TypeCorrect, PTL DEF Spec

-----------------------------------------------------------------------------
(* The size of realdata.                                                   *)

\* At most one of a channel's pending rows is of the latest query, and at
\* most one is not.
TwoPerChannel ==
  \A r, q \in realdata : r.ch = q.ch /\ (r.tick = Now <=> q.tick = Now) => r = q

LEMMA TwoPerChannelFits ==
  ASSUME TypeOK, TwoPerChannel
  PROVE  RowsFit
<1> DEFINE slot(r) == 2 * r.ch + (IF r.tick = Now THEN 1 ELSE 0)
           f == [r \in realdata |-> slot(r)]
<1>1. \A r \in realdata : r.ch \in 0..(amount - 1)
  BY DEF TypeOK, Rows, Channels
<1>2. \A r \in realdata : slot(r) \in 0..(2 * amount - 1)
  BY <1>1, SensorRecorderAssumption
<1>3. \A r, q \in realdata : slot(r) = slot(q) => r = q
  <2> SUFFICES ASSUME NEW r \in realdata, NEW q \in realdata, slot(r) = slot(q)
               PROVE  r.ch = q.ch /\ (r.tick = Now <=> q.tick = Now)
    BY DEF TwoPerChannel
  <2>1. \A a, b \in Int : 2 * a + 1 # 2 * b /\ (2 * a = 2 * b => a = b)
    OBVIOUS
  <2>2. r.ch \in Int /\ q.ch \in Int
    BY <1>1
  <2> QED  BY <2>1, <2>2
<1>4. f \in Injection(realdata, 0..(2 * amount - 1))
  BY <1>2, <1>3 DEF Injection, IsInjective
<1>5. /\ IsFiniteSet(0..(2 * amount - 1))
      /\ Cardinality(0..(2 * amount - 1)) = 2 * amount
  BY FS_Interval, SensorRecorderAssumption
<1>6. Cardinality(realdata) <= Cardinality(0..(2 * amount - 1))
  BY <1>4, <1>5, FS_Injection
<1> QED  BY <1>5, <1>6 DEF RowsFit

LEMMA TwoPerChannelStep ==
  ASSUME TypeOK, TableMatches, Delivered, TwoPerChannel, [Next]_vars
  PROVE  TwoPerChannel'
<1>1. CASE Query
  <2>1. PICK t, data : QueriedAt(t, data)
    BY <1>1, QueryStep
  <2>2. Now' = t /\ Now < t /\ t \in Nat
    BY <2>1, NowNext DEF QueriedAt
  <2>3. \A c \in Mapped : RD_last[c].isdup = 1 => RD_last[c].time_tick # t
    <3> SUFFICES ASSUME NEW c \in Mapped, RD_last[c].isdup = 1
                 PROVE  RD_last[c].time_tick # t
      OBVIOUS
    <3>1. samples # <<>>
      BY DEF TableMatches, Cleared
    <3> QED  BY <3>1, <2>2, NowType DEF TableMatches
  <2>4. \A c \in Mapped : \A r \in Emitted(c, t, data[c]) :
          /\ r.ch = c
          /\ r = Row(c, t, data[c])
               \/ (r.tick # t /\ r = Row(c, RD_last[c].time_tick, RD_last[c].rdata))
    BY <2>3 DEF Emitted, LastRepeated, Row
  <2>5. \A c \in Mapped : Row(c, t, data[c]).tick = t
    BY DEF Row
  <2>6. \A r \in realdata' : r.ch \in Mapped /\ r \in Emitted(r.ch, t, data[r.ch])
    BY <2>1, <2>4 DEF QueriedAt
  <2> QED  BY <2>2, <2>4, <2>5, <2>6 DEF TwoPerChannel
<1>2. CASE Insert
  <2>1. realdata' \subseteq realdata /\ Now' = Now
    BY <1>2 DEF Insert, Now
  <2> QED  BY <2>1 DEF TwoPerChannel
<1>3. CASE Return
  BY <1>3 DEF Return, TwoPerChannel, Now
<1>4. CASE Reset
  <2>1. realdata' = {}
    BY <1>4 DEF Reset, Delivered
  <2> QED  BY <2>1 DEF TwoPerChannel
<1>5. CASE UNCHANGED vars
  BY <1>5 DEF vars, TwoPerChannel, Now
<1> QED  BY <1>1, <1>2, <1>3, <1>4, <1>5 DEF Next

\* The array of 2 * amount rows is never overrun, for any number of channels.
THEOREM RowsAlwaysFit == Spec => []RowsFit
<1>1. Init => TwoPerChannel
  BY DEF Init, TwoPerChannel
<1> QED
  BY <1>1, TwoPerChannelStep, TwoPerChannelFits, TableSound, PTL DEF Spec

-----------------------------------------------------------------------------
(* Changes.                                                                *)

\* Unless a reading is remembered as a repeat, it is kept as a row.
LatestKept ==
  \A c \in Intact : samples # <<>> /\ RD_last[c].isdup = 0
                     => RowAt(c, Len(samples)) \in Log

EdgesInv == EdgesKept /\ LatestKept

LEMMA EdgesQuery ==
  ASSUME TypeOK, TableMatches, Delivered, EdgesInv, Query
  PROVE  EdgesInv'
<1> PICK t, data : QueriedAt(t, data)
  BY QueryStep
<1> PICK n : n = Len(samples)
  OBVIOUS
<1>1. n \in Nat /\ Len(samples') = n + 1 /\ Intact' = Intact
  BY DEF TypeOK, QueriedAt, Intact
<1>2. \A c, k : k \in 1..n => RowAt(c, k)' = RowAt(c, k)
  BY DEF QueriedAt, RowAt
<1>3. \A c : RowAt(c, n + 1)' = Row(c, t, data[c])
  BY DEF QueriedAt, RowAt
<1>4. Log \subseteq Log'
  BY DEF Log, Delivered, QueriedAt
<1>5. \A c \in Mapped : Emitted(c, t, data[c]) \subseteq Log'
  BY DEF Log, QueriedAt
<1>6. \A c \in Mapped : RD_last'[c].isdup = 0 => ~Repeats(c, data[c])
  BY Remembered DEF QueriedAt
<1>7. \A c \in Mapped : ~Repeats(c, data[c]) => RowAt(c, n + 1)' \in Log'
  BY <1>3, <1>5 DEF Emitted
<1>8. \A c \in Mapped : samples # <<>> =>
        /\ Repeats(c, data[c]) <=> samples[n].data[c] = data[c]
        /\ RowAt(c, n) = Row(c, RD_last[c].time_tick, RD_last[c].rdata)
  BY DEF TableMatches, Repeats, RowAt, Now
<1>9. \A c \in Intact : samples # <<>> /\ ~Repeats(c, data[c]) =>
        RowAt(c, n) \in Log'
  <2> SUFFICES ASSUME NEW c \in Intact, samples # <<>>, ~Repeats(c, data[c])
               PROVE  RowAt(c, n) \in Log'
    OBVIOUS
  <2>1. c \in Mapped /\ RD_last[c].isdup \in {0, 1}
    BY SensorRecorderAssumption DEF Intact, TypeOK, Entries
  <2>2. CASE RD_last[c].isdup = 1
    <3>1. RowAt(c, n) \in Emitted(c, t, data[c])
      BY <2>1, <2>2, <1>8 DEF Emitted, LastRepeated
    <3> QED  BY <3>1, <2>1, <1>5
  <2>3. CASE RD_last[c].isdup = 0
    BY <2>3, <1>4 DEF EdgesInv, LatestKept
  <2> QED  BY <2>1, <2>2, <2>3
<1>10. LatestKept'
  BY <1>1, <1>6, <1>7 DEF LatestKept, Intact
<1>11. EdgesKept'
  <2> SUFFICES ASSUME NEW c \in Intact
               PROVE  /\ \A k \in Changes(c)' : /\ RowAt(c, k)' \in Log'
                                                /\ RowAt(c, k + 1)' \in Log'
                      /\ \/ samples'[1].data[c] = 0
                         \/ RowAt(c, 1)' \in Log'
    BY <1>1 DEF EdgesKept
  <2>0. c \in Mapped
    BY DEF Intact
  <2>1. ASSUME NEW k \in Changes(c)'
        PROVE  RowAt(c, k)' \in Log' /\ RowAt(c, k + 1)' \in Log'
    <3>1. k \in 1..n /\ samples'[k].data[c] # samples'[k + 1].data[c]
      BY <1>1 DEF Changes
    <3>2. CASE k = n
      <4>1. /\ samples # <<>> /\ samples'[k] = samples[n]
            /\ samples'[k + 1].data[c] = data[c]
        BY <3>1, <3>2 DEF QueriedAt
      <4>2. ~Repeats(c, data[c])
        BY <4>1, <3>1, <1>8, <2>0
      <4> QED  BY <4>1, <4>2, <3>1, <3>2, <1>2, <1>7, <1>9, <2>0
    <3>3. CASE k # n
      <4>1. k \in 1..(n - 1) /\ k + 1 \in 1..n
        BY <1>1, <3>1, <3>3
      <4>2. k \in Changes(c)
        BY <4>1, <3>1 DEF QueriedAt, Changes
      <4>3. RowAt(c, k) \in Log /\ RowAt(c, k + 1) \in Log
        BY <4>2 DEF EdgesInv, EdgesKept
      <4> QED  BY <4>1, <4>3, <3>1, <1>2, <1>4
    <3> QED  BY <3>2, <3>3
  <2>2. samples'[1].data[c] = 0 \/ RowAt(c, 1)' \in Log'
    <3>1. CASE samples = <<>>
      <4>1. n = 0 /\ samples'[1].data[c] = data[c]
        BY <3>1 DEF QueriedAt
      <4>2. Repeats(c, data[c]) <=> data[c] = 0
        BY <3>1, <2>0 DEF TableMatches, Repeats, Cleared
      <4> QED  BY <4>1, <4>2, <1>7, <2>0
    <3>2. CASE samples # <<>>
      <4>1. 1 \in 1..n /\ samples'[1] = samples[1]
        BY <3>2 DEF QueriedAt, TypeOK
      <4>2. samples[1].data[c] = 0 \/ RowAt(c, 1) \in Log
        BY <3>2 DEF EdgesInv, EdgesKept
      <4> QED  BY <4>1, <4>2, <1>2, <1>4
    <3> QED  BY <3>1, <3>2
  <2> QED  BY <2>1, <2>2
<1> QED  BY <1>10, <1>11 DEF EdgesInv

LEMMA EdgesInsert ==
  ASSUME TypeOK, EdgesInv, Insert
  PROVE  EdgesInv'
<1> PICK r \in realdata :
      /\ realdata' = realdata \ {r}
      /\ \/ table' = table \cup {r} /\ lost' = lost
         \/ table' = table /\ lost' = lost \cup {r.ch}
  BY DEF Insert
<1>1. UNCHANGED <<samples, RD_last>>
  BY DEF Insert
<1>2. Intact' \subseteq Intact
  BY DEF Intact
<1>3. \A c, k : RowAt(c, k)' = RowAt(c, k) /\ RowAt(c, k).ch = c
  BY <1>1 DEF RowAt, Row
<1>4. \A c \in Intact' : \A k : RowAt(c, k) \in Log => RowAt(c, k) \in Log'
  BY <1>3 DEF Log, Intact
<1>5. LatestKept'
  BY <1>1, <1>2, <1>3, <1>4 DEF EdgesInv, LatestKept
<1>6. \A c : Changes(c)' = Changes(c)
  BY <1>1 DEF Changes
<1>7. EdgesKept'
  BY <1>1, <1>2, <1>3, <1>4, <1>6 DEF EdgesInv, EdgesKept
<1> QED  BY <1>5, <1>7 DEF EdgesInv

LEMMA EdgesSound == Spec => []EdgesInv
<1>1. Init => EdgesInv
  BY DEF Init, EdgesInv, EdgesKept, LatestKept, Changes
<1>2. TypeOK /\ TableMatches /\ Delivered /\ EdgesInv /\ [Next]_vars => EdgesInv'
  <2> SUFFICES ASSUME TypeOK, TableMatches, Delivered, EdgesInv, [Next]_vars
               PROVE  EdgesInv'
    OBVIOUS
  <2>1. CASE Query   BY <2>1, EdgesQuery
  <2>2. CASE Insert  BY <2>2, EdgesInsert
  <2>3. CASE Reset
    BY <2>3 DEF Reset, EdgesInv, EdgesKept, LatestKept, Changes
  <2>4. CASE Return \/ UNCHANGED vars
    <3>1. UNCHANGED <<RD_last, realdata, table, samples, lost>>
      BY <2>4 DEF Return, vars
    <3> QED
      BY <3>1 DEF EdgesInv, EdgesKept, LatestKept, Changes, Log, RowAt, Intact
  <2> QED  BY <2>1, <2>2, <2>3, <2>4 DEF Next
<1> QED  BY <1>1, <1>2, TableSound, PTL DEF Spec

\* Both sides of every change of every intact channel are stored or about to
\* be, for any number of channels, samples and values, and whatever time
\* passes between two queries.
THEOREM EdgesAlwaysKept == Spec => []EdgesKept
<1>1. EdgesInv => EdgesKept
  BY DEF EdgesInv
<1> QED  BY <1>1, EdgesSound, PTL

-----------------------------------------------------------------------------
(* Times, and the samples of which a row is kept.                          *)

\* The samples of channel c whose row is stored or about to be.
LogAt(c) == {k \in 1..Len(samples) : RowAt(c, k) \in Log}

Ascending ==
  \A i, j \in 1..Len(samples) : i < j => samples[i].tick < samples[j].tick

\* No row is of the future, and a channel's rows enter the database in the
\* order of their times.
InOrder ==
  /\ \A q \in Log : q.tick <= Now
  /\ \A q \in table, r \in realdata : q.ch = r.ch => q.tick <= r.tick

TimeInv == Ascending /\ InOrder

LEMMA SampleType ==
  ASSUME TypeOK, NEW k \in 1..Len(samples)
  PROVE  samples[k].tick \in Nat
<1>1. samples[k] \in Samples
  BY DEF TypeOK
<1> QED  BY <1>1 DEF Samples

LEMMA LatestIsNow ==
  ASSUME TypeOK, Ascending, NEW k \in 1..Len(samples)
  PROVE  /\ samples[k].tick <= Now
         /\ samples[k].tick = Now => k = Len(samples)
<1>1. Len(samples) \in Nat /\ samples # <<>> /\ Len(samples) \in 1..Len(samples)
  BY DEF TypeOK
<1>2. Now = samples[Len(samples)].tick /\ samples[k].tick \in Nat /\ Now \in Nat
  BY <1>1, SampleType, NowType DEF Now
<1>3. k # Len(samples) => samples[k].tick < Now
  BY <1>1, <1>2 DEF Ascending
<1> QED  BY <1>1, <1>2, <1>3

\* What a query may make a channel store: the reading itself, and the latest
\* one before it if that was a repeat.
LEMMA EmittedWhen ==
  ASSUME TypeOK, TableMatches, NEW c \in Mapped, NEW t, NEW v,
         NEW r \in Emitted(c, t, v)
  PROVE  /\ r.ch = c
         /\ \/ r.tick = t
            \/ samples # <<>> /\ ~Repeats(c, v) /\ r.tick = Now
<1>1. CASE r = Row(c, t, v)
  BY <1>1 DEF Row
<1>2. CASE r # Row(c, t, v)
  <2>1. /\ ~Repeats(c, v) /\ RD_last[c].isdup = 1
        /\ r = Row(c, RD_last[c].time_tick, RD_last[c].rdata)
    BY <1>2 DEF Emitted, LastRepeated
  <2>2. samples # <<>>
    BY <2>1 DEF TableMatches, Cleared
  <2> QED  BY <2>1, <2>2 DEF TableMatches, Row
<1> QED  BY <1>1, <1>2

LEMMA TimeStep ==
  ASSUME TypeOK, TypeOK', TableMatches, Delivered, TimeInv, [Next]_vars
  PROVE  TimeInv'
<1>1. CASE Query
  <2> PICK t, data : QueriedAt(t, data)
    BY <1>1, QueryStep
  <2> PICK n : n = Len(samples)
    OBVIOUS
  <2>1. /\ n \in Nat /\ Len(samples') = n + 1 /\ Now' = t
        /\ Now \in Nat /\ t \in Nat /\ Now < t
    BY NowNext, NowType DEF TypeOK, QueriedAt
  <2>2. \A k \in 1..n : samples'[k] = samples[k] /\ samples[k].tick < t
    <3>1. \A k \in 1..n : samples[k].tick <= Now /\ samples[k].tick \in Nat
      BY LatestIsNow, SampleType DEF TimeInv
    <3> QED  BY <2>1, <3>1 DEF QueriedAt
  <2>3. samples'[n + 1].tick = t
    BY DEF QueriedAt
  <2>4. Ascending'
    <3> SUFFICES ASSUME NEW i \in 1..(n + 1), NEW j \in 1..(n + 1), i < j
                 PROVE  samples'[i].tick < samples'[j].tick
      BY <2>1 DEF Ascending
    <3>1. i \in 1..n
      BY <2>1
    <3>2. CASE j = n + 1
      BY <3>1, <3>2, <2>2, <2>3
    <3>3. CASE j # n + 1
      <4>1. j \in 1..n
        BY <3>3, <2>1
      <4> QED  BY <3>1, <4>1, <2>2 DEF TimeInv, Ascending
    <3> QED  BY <3>2, <3>3
  <2>5. \A q \in table : q.tick \in Nat /\ q.tick <= Now
    BY DEF TimeInv, InOrder, Log, TypeOK, Rows
  <2>6. \A r \in realdata' : r.tick = t \/ r.tick = Now
    BY EmittedWhen DEF QueriedAt
  <2>7. InOrder'
    BY <2>1, <2>5, <2>6 DEF InOrder, Log, QueriedAt
  <2> QED  BY <2>4, <2>7 DEF TimeInv
<1>2. CASE Insert
  <2>1. PICK r \in realdata :
          /\ First(r) /\ realdata' = realdata \ {r}
          /\ table' = table \cup {r} \/ table' = table
    BY <1>2 DEF Insert
  <2>2. Log' \subseteq Log /\ samples' = samples /\ Now' = Now
    BY <1>2, <2>1 DEF Insert, Log, Now
  <2>3. \A q \in realdata : q.ch = r.ch => r.tick <= q.tick
    BY <2>1 DEF First, TypeOK, Rows, Channels
  <2>4. InOrder'
    BY <2>1, <2>2, <2>3 DEF TimeInv, InOrder
  <2> QED  BY <2>2, <2>4 DEF TimeInv, Ascending
<1>3. CASE Reset
  <2>1. samples' = <<>> /\ Log' = {} /\ table' = {}
    BY <1>3 DEF Reset, Delivered, Log
  <2> QED  BY <2>1 DEF TimeInv, Ascending, InOrder
<1>4. CASE Return \/ UNCHANGED vars
  <2>1. UNCHANGED <<samples, table, realdata>>
    BY <1>4 DEF Return, vars
  <2> QED  BY <2>1 DEF TimeInv, Ascending, InOrder, Log, Now
<1> QED  BY <1>1, <1>2, <1>3, <1>4 DEF Next

LEMMA TimeSound == Spec => []TimeInv
<1>1. Init => TimeInv
  BY DEF Init, TimeInv, Ascending, InOrder, Log
<1> QED  BY <1>1, TimeStep, TableSound, PTL DEF Spec

\* How a query extends a channel's samples with a row: a repeated reading can
\* only add itself; any other adds itself and, unless it is the first, makes
\* sure of the reading before it.
LEMMA LogGrows ==
  ASSUME TypeOK, TableMatches, Delivered, LatestKept, Ascending,
         NEW t, NEW data, QueriedAt(t, data),
         NEW c \in Intact, NEW n, n = Len(samples)
  PROVE  /\ LogAt(c) \subseteq LogAt(c)'
         /\ LogAt(c)' \subseteq LogAt(c) \cup {n, n + 1}
         /\ Repeats(c, data[c]) => LogAt(c)' \subseteq LogAt(c) \cup {n + 1}
         /\ ~Repeats(c, data[c]) => /\ n + 1 \in LogAt(c)'
                                    /\ n # 0 => n \in LogAt(c)'
<1>1. n \in Nat /\ Len(samples') = n + 1 /\ c \in Mapped
  BY DEF TypeOK, QueriedAt, Intact
<1>2. \A k \in 1..n : RowAt(c, k)' = RowAt(c, k)
  BY DEF QueriedAt, RowAt
<1>3. RowAt(c, n + 1)' = Row(c, t, data[c])
  BY DEF QueriedAt, RowAt
<1>4. Log = table /\ table \subseteq Log' /\ Log' = table \cup realdata'
  BY DEF Log, Delivered, QueriedAt
<1>5. Emitted(c, t, data[c]) \subseteq Log'
  BY <1>1 DEF Log, QueriedAt
<1>6. LogAt(c) \subseteq LogAt(c)'
  BY <1>1, <1>2, <1>4 DEF LogAt
<1>7. ASSUME NEW k \in LogAt(c)', k \notin LogAt(c), k # n + 1
      PROVE  k = n /\ ~Repeats(c, data[c])
  <2>1. k \in 1..n /\ RowAt(c, k) \in realdata'
    BY <1>1, <1>2, <1>4, <1>7 DEF LogAt
  <2>2. PICK d \in Mapped : RowAt(c, k) \in Emitted(d, t, data[d])
    BY <2>1 DEF QueriedAt
  <2>3. RowAt(c, k).ch = c /\ RowAt(c, k).tick = samples[k].tick
    BY DEF RowAt, Row
  <2>4. d = c /\ (samples[k].tick = t \/ (samples[k].tick = Now /\ ~Repeats(c, data[c])))
    BY <2>2, <2>3, EmittedWhen
  <2>5. samples[k].tick <= Now /\ samples[k].tick \in Nat
    BY <2>1, LatestIsNow, SampleType
  <2>6. samples[k].tick # t
    BY <2>5, NowType DEF QueriedAt
  <2> QED  BY <2>1, <2>4, <2>6, LatestIsNow
<1>8. ASSUME ~Repeats(c, data[c])
      PROVE  n + 1 \in LogAt(c)' /\ (n # 0 => n \in LogAt(c)')
  <2>1. n + 1 \in LogAt(c)'
    BY <1>1, <1>3, <1>5, <1>8 DEF Emitted, LogAt
  <2>2. ASSUME n # 0
        PROVE  n \in LogAt(c)'
    <3>1. n \in 1..n /\ samples # <<>> /\ RD_last[c].isdup \in {0, 1}
      BY <1>1, <2>2, SensorRecorderAssumption DEF TypeOK, Entries
    <3>2. CASE RD_last[c].isdup = 0
      <4>1. n \in LogAt(c)
        BY <3>1, <3>2 DEF LatestKept, LogAt
      <4> QED  BY <4>1, <1>6
    <3>3. CASE RD_last[c].isdup = 1
      <4>1. RowAt(c, n) = Row(c, RD_last[c].time_tick, RD_last[c].rdata)
        BY <3>1, <1>1 DEF TableMatches, RowAt, Now
      <4>2. RowAt(c, n)' \in Log'
        BY <4>1, <3>1, <3>3, <1>2, <1>5, <1>8 DEF Emitted, LastRepeated
      <4> QED  BY <4>2, <3>1, <1>1 DEF LogAt
    <3> QED  BY <3>1, <3>2, <3>3
  <2> QED  BY <2>1, <2>2
<1> QED  BY <1>6, <1>7, <1>8

\* Inserting a row, or giving it up, leaves the samples with a row as they
\* are for every channel that stays intact.
LEMMA LogKept ==
  ASSUME Insert
  PROVE  /\ Intact' \subseteq Intact
         /\ \A c \in Intact' : LogAt(c)' = LogAt(c)
<1> PICK r \in realdata :
      /\ realdata' = realdata \ {r}
      /\ \/ table' = table \cup {r} /\ lost' = lost
         \/ table' = table /\ lost' = lost \cup {r.ch}
  BY DEF Insert
<1>1. samples' = samples /\ Intact' \subseteq Intact
  BY DEF Insert, Intact
<1>2. \A c, k : RowAt(c, k)' = RowAt(c, k) /\ RowAt(c, k).ch = c
  BY <1>1 DEF RowAt, Row
<1>3. \A c \in Intact' : \A k : RowAt(c, k) \in Log <=> RowAt(c, k) \in Log'
  BY <1>2 DEF Log, Intact
<1> QED  BY <1>1, <1>2, <1>3 DEF LogAt

-----------------------------------------------------------------------------
(* What the rows leave out.                                                *)

\* Channel c reads the same from sample i to sample j.
Same(c, i, j) == \A k \in i..j : samples[k].data[c] = samples[i].data[c]

\* After its latest row a channel only repeats that row; without a row it has
\* read nothing but the 0 that the cleared table stands for.
TailKnown ==
  \A c \in Intact :
    \/ LogAt(c) = {} /\ \A k \in 1..Len(samples) : samples[k].data[c] = 0
    \/ \E last \in LogAt(c) :
         /\ \A k \in LogAt(c) : k <= last
         /\ Same(c, last, Len(samples))

\* Between two neighbouring rows a channel only repeats the first of them.
LogExact ==
  \A c \in Intact : \A i, j \in LogAt(c) :
    i < j /\ LogAt(c) \cap ((i + 1)..(j - 1)) = {} => j = i + 1 \/ Same(c, i, j)

GapsInv == TailKnown /\ LogExact

\* A query in terms of the readings of one channel.
LEMMA ReadingsGrow ==
  ASSUME TypeOK, TableMatches, NEW t, NEW data, QueriedAt(t, data),
         NEW c \in Intact, NEW n, n = Len(samples)
  PROVE  /\ n \in Nat /\ Len(samples') = n + 1 /\ Intact' = Intact
         /\ \A k \in 1..n : samples'[k].data[c] = samples[k].data[c]
         /\ samples'[n + 1].data[c] = data[c]
         /\ n = 0 => (Repeats(c, data[c]) <=> data[c] = 0)
         /\ n # 0 => (Repeats(c, data[c]) <=> data[c] = samples[n].data[c])
<1>1. /\ n \in Nat /\ Len(samples') = n + 1 /\ Intact' = Intact
      /\ \A k \in 1..n : samples'[k].data[c] = samples[k].data[c]
      /\ samples'[n + 1].data[c] = data[c]
  BY DEF TypeOK, QueriedAt, Intact
<1>2. c \in Mapped /\ (n = 0 <=> samples = <<>>)
  BY DEF Intact, TypeOK
<1>3. n = 0 => (Repeats(c, data[c]) <=> data[c] = 0)
  BY <1>2 DEF TableMatches, Repeats, Cleared
<1>4. n # 0 => (Repeats(c, data[c]) <=> data[c] = samples[n].data[c])
  BY <1>2 DEF TableMatches, Repeats
<1> QED  BY <1>1, <1>3, <1>4

LEMMA GapsQuery ==
  ASSUME TypeOK, TableMatches, Delivered, LatestKept, Ascending, GapsInv, Query
  PROVE  GapsInv'
<1> PICK t, data : QueriedAt(t, data)
  BY QueryStep
<1> PICK n : n = Len(samples)
  OBVIOUS
<1>1. n \in Nat /\ Len(samples') = n + 1 /\ Intact' = Intact
  BY DEF TypeOK, QueriedAt, Intact
<1>2. ASSUME NEW c \in Intact
      PROVE  /\ \A k \in 1..n : samples'[k].data[c] = samples[k].data[c]
             /\ samples'[n + 1].data[c] = data[c]
             /\ n = 0 => (Repeats(c, data[c]) <=> data[c] = 0)
             /\ n # 0 => (Repeats(c, data[c]) <=> data[c] = samples[n].data[c])
             /\ LogAt(c) \subseteq 1..n /\ LogAt(c)' \subseteq 1..(n + 1)
             /\ LogAt(c) \subseteq LogAt(c)'
             /\ LogAt(c)' \subseteq LogAt(c) \cup {n, n + 1}
             /\ Repeats(c, data[c]) => LogAt(c)' \subseteq LogAt(c) \cup {n + 1}
             /\ ~Repeats(c, data[c]) => /\ n + 1 \in LogAt(c)'
                                        /\ n # 0 => n \in LogAt(c)'
  <2>1. LogAt(c) \subseteq 1..n /\ LogAt(c)' \subseteq 1..(n + 1)
    BY <1>1 DEF LogAt
  <2>2. /\ LogAt(c) \subseteq LogAt(c)'
        /\ LogAt(c)' \subseteq LogAt(c) \cup {n, n + 1}
        /\ Repeats(c, data[c]) => LogAt(c)' \subseteq LogAt(c) \cup {n + 1}
        /\ ~Repeats(c, data[c]) => /\ n + 1 \in LogAt(c)'
                                   /\ n # 0 => n \in LogAt(c)'
    BY LogGrows
  <2>3. /\ \A k \in 1..n : samples'[k].data[c] = samples[k].data[c]
        /\ samples'[n + 1].data[c] = data[c]
        /\ n = 0 => (Repeats(c, data[c]) <=> data[c] = 0)
        /\ n # 0 => (Repeats(c, data[c]) <=> data[c] = samples[n].data[c])
    BY ReadingsGrow
  <2> QED  BY <2>1, <2>2, <2>3
<1>3. ASSUME NEW c \in Intact, NEW i \in 1..n, NEW j \in 1..n, Same(c, i, j)
      PROVE  Same(c, i, j)'
  BY <1>2, <1>3 DEF Same
<1>4. ASSUME NEW c \in Intact, NEW i \in 1..n, Same(c, i, n), Repeats(c, data[c])
      PROVE  Same(c, i, n + 1)'
  <2>1. data[c] = samples[n].data[c] /\ samples[n].data[c] = samples[i].data[c]
    BY <1>1, <1>2, <1>4 DEF Same
  <2>2. ASSUME NEW k \in i..(n + 1)
        PROVE  samples'[k].data[c] = samples[i].data[c]
    <3>1. CASE k = n + 1
      BY <3>1, <2>1, <1>2
    <3>2. CASE k # n + 1
      <4>1. k \in i..n /\ k \in 1..n
        BY <3>2, <1>1
      <4> QED  BY <4>1, <1>2, <1>4 DEF Same
    <3> QED  BY <3>1, <3>2
  <2> QED  BY <2>2, <1>2 DEF Same
<1>5. TailKnown'
  <2> SUFFICES ASSUME NEW c \in Intact
               PROVE  \/ /\ LogAt(c)' = {}
                         /\ \A k \in 1..(n + 1) : samples'[k].data[c] = 0
                      \/ \E last \in LogAt(c)' :
                           /\ \A k \in LogAt(c)' : k <= last
                           /\ Same(c, last, n + 1)'
    BY <1>1 DEF TailKnown, Same
  <2>1. CASE n + 1 \in LogAt(c)'
    <3>1. Same(c, n + 1, n + 1)'
      BY <1>1 DEF Same
    <3>2. \A k \in LogAt(c)' : k <= n + 1
      BY <1>1, <1>2
    <3> QED  BY <2>1, <3>1, <3>2
  <2>2. CASE n + 1 \notin LogAt(c)'
    <3>1. Repeats(c, data[c]) /\ LogAt(c)' = LogAt(c)
      BY <1>2, <2>2
    <3>2. CASE LogAt(c) = {} /\ \A k \in 1..n : samples[k].data[c] = 0
      <4>1. data[c] = 0
        BY <3>1, <3>2, <1>1, <1>2
      <4>2. ASSUME NEW k \in 1..(n + 1)
            PROVE  samples'[k].data[c] = 0
        <5>1. k = n + 1 \/ k \in 1..n
          BY <1>1
        <5> QED  BY <5>1, <4>1, <3>2, <1>2
      <4> QED  BY <3>1, <3>2, <4>2
    <3>3. CASE \E last \in LogAt(c) : /\ \A k \in LogAt(c) : k <= last
                                      /\ Same(c, last, n)
      <4>1. PICK last \in LogAt(c) : /\ \A k \in LogAt(c) : k <= last
                                     /\ Same(c, last, n)
        BY <3>3
      <4>2. Same(c, last, n + 1)'
        BY <4>1, <3>1, <1>2, <1>4
      <4> QED  BY <4>1, <4>2, <3>1
    <3> QED  BY <3>2, <3>3 DEF GapsInv, TailKnown
  <2> QED  BY <2>1, <2>2
<1>6. ASSUME NEW c \in Intact, NEW i \in LogAt(c),
             \A k \in LogAt(c) : ~(i < k)
      PROVE  Same(c, i, n)
  <2>1. PICK last \in LogAt(c) : /\ \A k \in LogAt(c) : k <= last
                                 /\ Same(c, last, n)
    BY DEF GapsInv, TailKnown
  <2>2. last = i
    BY <2>1, <1>1, <1>2, <1>6
  <2> QED  BY <2>1, <2>2
<1>7. LogExact'
  <2> SUFFICES ASSUME NEW c \in Intact, NEW i \in LogAt(c)', NEW j \in LogAt(c)',
                      i < j, LogAt(c)' \cap ((i + 1)..(j - 1)) = {}
               PROVE  j = i + 1 \/ Same(c, i, j)'
    BY <1>1 DEF LogExact
  <2>0. /\ i \in 1..(n + 1) /\ j \in 1..(n + 1) /\ i \in 1..n
        /\ \A k \in LogAt(c)' : k \in 1..(n + 1) /\ ~(i < k /\ k < j)
    BY <1>1, <1>2
  <2>1. CASE j \in LogAt(c)
    <3>1. j \in 1..n /\ i \in LogAt(c)
      BY <2>0, <2>1, <1>1, <1>2
    <3>2. LogAt(c) \cap ((i + 1)..(j - 1)) = {}
      BY <1>2
    <3>3. j = i + 1 \/ Same(c, i, j)
      BY <2>1, <3>1, <3>2 DEF GapsInv, LogExact
    <3> QED  BY <2>0, <3>1, <3>3, <1>3
  <2>2. CASE j \notin LogAt(c) /\ j = n
    <3>1. i \in LogAt(c)
      BY <2>0, <2>2, <1>1, <1>2
    <3>2. \A k \in LogAt(c) : ~(i < k)
      BY <2>0, <2>2, <1>1, <1>2
    <3>3. Same(c, i, n)
      BY <3>1, <3>2, <1>6
    <3> QED  BY <2>0, <2>2, <3>3, <1>1, <1>3
  <2>3. CASE j = n + 1
    <3>1. CASE i = n
      BY <2>3, <3>1
    <3>2. CASE i # n
      <4>1. i < n /\ i \in LogAt(c) /\ n # 0
        BY <2>0, <3>2, <1>1, <1>2
      <4>2. n \notin LogAt(c)'
        BY <2>0, <2>3, <4>1, <1>1
      <4>3. Repeats(c, data[c])
        BY <4>1, <4>2, <1>2
      <4>4. \A k \in LogAt(c) : ~(i < k)
        BY <2>0, <2>3, <1>1, <1>2
      <4>5. Same(c, i, n)
        BY <4>1, <4>4, <1>6
      <4> QED  BY <2>0, <2>3, <4>3, <4>5, <1>4
    <3> QED  BY <3>1, <3>2
  <2> QED  BY <2>1, <2>2, <2>3, <1>2
<1> QED  BY <1>5, <1>7 DEF GapsInv

LEMMA GapsStep ==
  ASSUME TypeOK, TableMatches, Delivered, EdgesInv, TimeInv, GapsInv, [Next]_vars
  PROVE  GapsInv'
<1>1. CASE Query
  BY <1>1, GapsQuery DEF EdgesInv, TimeInv
<1>2. CASE Insert
  <2>1. samples' = samples /\ Intact' \subseteq Intact
    BY <1>2, LogKept DEF Insert
  <2>2. \A c \in Intact' : LogAt(c)' = LogAt(c)
    BY <1>2, LogKept
  <2>3. \A c, i, j : Same(c, i, j)' <=> Same(c, i, j)
    BY <2>1 DEF Same
  <2>4. TailKnown'
    BY <2>1, <2>2, <2>3 DEF GapsInv, TailKnown
  <2>5. LogExact'
    BY <2>1, <2>2, <2>3 DEF GapsInv, LogExact
  <2> QED  BY <2>4, <2>5 DEF GapsInv
<1>3. CASE Reset
  <2>1. samples' = <<>>
    BY <1>3 DEF Reset
  <2>2. \A c : LogAt(c)' = {}
    BY <2>1 DEF LogAt
  <2> QED  BY <2>1, <2>2 DEF GapsInv, TailKnown, LogExact
<1>4. CASE Return \/ UNCHANGED vars
  <2>1. UNCHANGED <<samples, table, realdata, lost>>
    BY <1>4 DEF Return, vars
  <2>2. Intact' = Intact /\ \A c : LogAt(c)' = LogAt(c)
    BY <2>1 DEF Intact, LogAt, RowAt, Log
  <2>3. \A c, i, j : Same(c, i, j)' <=> Same(c, i, j)
    BY <2>1 DEF Same
  <2> QED  BY <2>1, <2>2, <2>3 DEF GapsInv, TailKnown, LogExact
<1> QED  BY <1>1, <1>2, <1>3, <1>4 DEF Next

LEMMA GapsSound == Spec => []GapsInv
<1>1. Init => GapsInv
  BY DEF Init, GapsInv, TailKnown, LogExact, LogAt
<1> QED
  BY <1>1, GapsStep, TableSound, EdgesSound, TimeSound, PTL DEF Spec

\* In the middle of an insertion the rows already in the database are the
\* earlier ones, so what lies between two of them is between them in Log too.
LEMMA GapsGiveInterpolation ==
  ASSUME TypeOK, TimeInv, GapsInv
  PROVE  InterpolationExact
<1> SUFFICES ASSUME NEW c \in Intact,
                    NEW i \in StoredAt(c), NEW j \in StoredAt(c),
                    i < j, StoredAt(c) \cap ((i + 1)..(j - 1)) = {}
             PROVE  j = i + 1 \/ \A k \in i..j : samples[k].data[c] = samples[i].data[c]
  BY DEF InterpolationExact
<1>1. DOMAIN samples = 1..Len(samples) /\ StoredAt(c) \subseteq LogAt(c)
  BY DEF TypeOK, StoredAt, LogAt, Log
<1>2. LogAt(c) \cap ((i + 1)..(j - 1)) = {}
  <2> SUFFICES ASSUME NEW k \in LogAt(c), k \in (i + 1)..(j - 1)
               PROVE  FALSE
    OBVIOUS
  <2>1. k \in 1..Len(samples) /\ j \in 1..Len(samples) /\ k < j
    BY <1>1 DEF StoredAt, LogAt
  <2>2. RowAt(c, k) \in realdata /\ RowAt(c, j) \in table
    BY <1>1 DEF LogAt, StoredAt, Log
  <2>3. RowAt(c, j).ch = RowAt(c, k).ch
    BY DEF RowAt, Row
  <2>4. RowAt(c, j).tick <= RowAt(c, k).tick
    BY <2>2, <2>3 DEF TimeInv, InOrder
  <2>5. samples[j].tick <= samples[k].tick
    BY <2>4 DEF RowAt, Row
  <2>6. samples[k].tick < samples[j].tick
    BY <2>1 DEF TimeInv, Ascending
  <2> QED  BY <2>1, <2>5, <2>6, SampleType
<1> QED  BY <1>1, <1>2 DEF GapsInv, LogExact, Same

\* Whoever joins the stored rows of an intact channel by straight lines gets
\* every reading in between, at every moment of every shot.
THEOREM InterpolationAlwaysExact == Spec => []InterpolationExact
BY GapsGiveInterpolation, TableSound, TimeSound, GapsSound, PTL

-----------------------------------------------------------------------------
(* Recovering the readings.                                                *)

\* Sample k of channel c is told by its latest row at or before k.
ToldBy(c, k) ==
  \/ samples[k].data[c] = 0 /\ \A j \in LogAt(c) : j > k
  \/ \E j \in LogAt(c) : /\ j <= k /\ \A i \in LogAt(c) : i <= k => i <= j
                         /\ samples[k].data[c] = samples[j].data[c]
AllTold == \A c \in Intact : \A k \in 1..Len(samples) : ToldBy(c, k)

LEMMA ToldQuery ==
  ASSUME TypeOK, TableMatches, Delivered, LatestKept, Ascending, AllTold, Query
  PROVE  AllTold'
<1> PICK t, data : QueriedAt(t, data)
  BY QueryStep
<1> PICK n : n = Len(samples)
  OBVIOUS
<1>1. n \in Nat /\ Len(samples') = n + 1 /\ Intact' = Intact
  BY DEF TypeOK, QueriedAt, Intact
<1> SUFFICES ASSUME NEW c \in Intact, NEW k \in 1..(n + 1)
             PROVE  ToldBy(c, k)'
  BY <1>1 DEF AllTold
<1>2. /\ \A i \in 1..n : samples'[i].data[c] = samples[i].data[c]
      /\ samples'[n + 1].data[c] = data[c]
      /\ n = 0 => (Repeats(c, data[c]) <=> data[c] = 0)
      /\ n # 0 => (Repeats(c, data[c]) <=> data[c] = samples[n].data[c])
  BY ReadingsGrow
<1>3. /\ LogAt(c) \subseteq 1..n /\ LogAt(c)' \subseteq 1..(n + 1)
      /\ LogAt(c) \subseteq LogAt(c)'
      /\ LogAt(c)' \subseteq LogAt(c) \cup {n, n + 1}
      /\ Repeats(c, data[c]) => LogAt(c)' \subseteq LogAt(c) \cup {n + 1}
      /\ ~Repeats(c, data[c]) => n + 1 \in LogAt(c)'
  <2>1. LogAt(c) \subseteq 1..n /\ LogAt(c)' \subseteq 1..(n + 1)
    BY <1>1 DEF LogAt
  <2> QED  BY <2>1, LogGrows
<1>4. CASE k \in LogAt(c)'
  <2>1. \A i \in LogAt(c)' : i <= k => i <= k
    OBVIOUS
  <2> QED  BY <1>1, <1>4, <2>1 DEF ToldBy
<1>5. CASE k \notin LogAt(c)' /\ k # n + 1
  <2>1. k \in 1..n /\ \A i \in LogAt(c)' : i <= k => i \in LogAt(c)
    BY <1>1, <1>3, <1>5
  <2>2. ToldBy(c, k)
    BY <2>1 DEF AllTold
  <2>3. CASE samples[k].data[c] = 0 /\ \A j \in LogAt(c) : j > k
    <3>1. \A j \in LogAt(c)' : j > k
      BY <1>1, <1>3, <2>1, <2>3
    <3> QED  BY <3>1, <2>1, <2>3, <1>2 DEF ToldBy
  <2>4. CASE \E j \in LogAt(c) :
               /\ j <= k /\ \A i \in LogAt(c) : i <= k => i <= j
               /\ samples[k].data[c] = samples[j].data[c]
    BY <1>2, <1>3, <2>1, <2>4 DEF ToldBy
  <2> QED  BY <2>2, <2>3, <2>4 DEF ToldBy
<1>6. CASE k \notin LogAt(c)' /\ k = n + 1
  <2>1. Repeats(c, data[c]) /\ LogAt(c)' = LogAt(c)
    BY <1>3, <1>6
  <2>2. CASE n = 0
    <3>1. LogAt(c)' = {} /\ samples'[k].data[c] = 0
      BY <2>1, <2>2, <1>2, <1>3, <1>6
    <3> QED  BY <3>1 DEF ToldBy
  <2>3. CASE n # 0
    <3>1. n \in 1..n /\ samples'[k].data[c] = samples[n].data[c] /\ ToldBy(c, n)
      BY <1>1, <1>2, <1>6, <2>1, <2>3 DEF AllTold
    <3>2. \A i \in LogAt(c) : i <= k /\ i <= n
      BY <1>1, <1>3, <1>6
    <3>3. CASE samples[n].data[c] = 0 /\ \A j \in LogAt(c) : j > n
      <4>1. LogAt(c)' = {}
        BY <1>1, <2>1, <3>2, <3>3, <1>3
      <4> QED  BY <4>1, <3>1, <3>3 DEF ToldBy
    <3>4. CASE \E j \in LogAt(c) :
                 /\ j <= n /\ \A i \in LogAt(c) : i <= n => i <= j
                 /\ samples[n].data[c] = samples[j].data[c]
      BY <1>2, <1>3, <2>1, <3>1, <3>2, <3>4 DEF ToldBy
    <3> QED  BY <3>1, <3>3, <3>4 DEF ToldBy
  <2> QED  BY <2>2, <2>3
<1> QED  BY <1>4, <1>5, <1>6

LEMMA ToldStep ==
  ASSUME TypeOK, TableMatches, Delivered, EdgesInv, TimeInv, AllTold, [Next]_vars
  PROVE  AllTold'
<1>1. CASE Query
  BY <1>1, ToldQuery DEF EdgesInv, TimeInv
<1>2. CASE Insert
  <2>1. samples' = samples /\ Intact' \subseteq Intact
    BY <1>2, LogKept DEF Insert
  <2>2. \A c \in Intact' : LogAt(c)' = LogAt(c)
    BY <1>2, LogKept
  <2> QED  BY <2>1, <2>2 DEF AllTold, ToldBy
<1>3. CASE Reset
  <2>1. Len(samples') = 0
    BY <1>3 DEF Reset
  <2> QED  BY <2>1 DEF AllTold
<1>4. CASE Return \/ UNCHANGED vars
  <2>1. UNCHANGED <<samples, table, realdata, lost>>
    BY <1>4 DEF Return, vars
  <2>2. Intact' = Intact /\ \A c : LogAt(c)' = LogAt(c)
    BY <2>1 DEF Intact, LogAt, RowAt, Log
  <2> QED  BY <2>1, <2>2 DEF AllTold, ToldBy
<1> QED  BY <1>1, <1>2, <1>3, <1>4 DEF Next

\* Between two calls every reading of an intact channel can be had from its
\* rows: it is that of the latest row at or before it, or 0 if there is none.
THEOREM NothingLost == Spec => []ReadingsRecoverable
<1>1. Init => AllTold
  BY DEF Init, AllTold
<1>2. Spec => []AllTold
  BY <1>1, ToldStep, TableSound, EdgesSound, TimeSound, PTL DEF Spec
<1>3. TypeOK /\ Delivered /\ AllTold => ReadingsRecoverable
  <2> SUFFICES ASSUME TypeOK, Delivered, AllTold, pc = "query",
                      NEW c \in Intact, NEW k \in DOMAIN samples
               PROVE  \/ samples[k].data[c] = 0 /\ \A j \in StoredAt(c) : j > k
                      \/ \E j \in StoredAt(c) :
                           /\ j <= k /\ \A i \in StoredAt(c) : i <= k => i <= j
                           /\ samples[k].data[c] = samples[j].data[c]
    BY DEF ReadingsRecoverable
  <2>1. DOMAIN samples = 1..Len(samples) /\ StoredAt(c) = LogAt(c)
    BY DEF TypeOK, StoredAt, LogAt, Log, Delivered
  <2>2. ToldBy(c, k)
    BY <2>1 DEF AllTold
  <2> QED  BY <2>1, <2>2 DEF ToldBy
<1> QED  BY <1>2, <1>3, TableSound, PTL

-----------------------------------------------------------------------------
(* The heartbeat.                                                          *)

\* A run of repeats is counted from its first reading or from its latest
\* row, and when the period is over the reading itself is kept.
Beats ==
  \A c \in Intact : samples # <<>> =>
    IF RD_last[c].isdup = 0
      THEN RD_last[c].dup_start = 0
      ELSE /\ RD_last[c].dup_start # 0
           /\ \/ RD_last[c].dup_start = samples[1].tick
              \/ \E k \in LogAt(c) :
                   RD_last[c].dup_start - samples[k].tick <= MaxGap
           /\ \/ Now - RD_last[c].dup_start < duplicate_output_time
              \/ Len(samples) \in LogAt(c)

LEMMA BeatsQuery ==
  ASSUME TypeOK, TableMatches, Delivered, LatestKept, Ascending, Beats, Query
  PROVE  Beats'
<1> PICK t, data : QueriedAt(t, data)
  BY QueryStep
<1> PICK n : n = Len(samples)
  OBVIOUS
<1> SUFFICES ASSUME NEW c \in Intact
             PROVE  IF RD_last'[c].isdup = 0
                      THEN RD_last'[c].dup_start = 0
                      ELSE /\ RD_last'[c].dup_start # 0
                           /\ \/ RD_last'[c].dup_start = samples'[1].tick
                              \/ \E k \in LogAt(c)' :
                                   RD_last'[c].dup_start - samples'[k].tick <= MaxGap
                           /\ \/ Now' - RD_last'[c].dup_start < duplicate_output_time
                              \/ Len(samples') \in LogAt(c)'
  BY DEF Beats, Intact, QueriedAt
<1>1. /\ n \in Nat /\ Len(samples') = n + 1 /\ Now' = t
      /\ Now \in Nat /\ t \in Nat /\ Now < t /\ t <= Now + MaxGap
      /\ c \in Mapped /\ c \in Channels
  BY NowNext, NowType, SensorRecorderAssumption DEF TypeOK, QueriedAt, Intact
<1>2. /\ \A k \in 1..n : samples'[k] = samples[k]
      /\ samples'[n + 1].tick = t /\ RowAt(c, n + 1)' = Row(c, t, data[c])
      /\ RD_last'[c] = Remember(c, t, data[c])
      /\ Emitted(c, t, data[c]) \subseteq Log'
  BY <1>1 DEF QueriedAt, RowAt, Log
<1>3. LogAt(c) \subseteq LogAt(c)' /\ LogAt(c) \subseteq 1..n
  BY LogGrows DEF LogAt
<1>4. CASE ~Repeats(c, data[c])
  BY <1>2, <1>4 DEF Remember
<1>5. CASE Repeats(c, data[c])
  <2> DEFINE start == DupStart(c, t)
  <2>1. /\ RD_last'[c].isdup = 1
        /\ RD_last'[c].dup_start = IF Due(c, t) THEN t ELSE start
    BY <1>2, <1>5 DEF Remember
  <2>2. RD_last[c].dup_start \in Nat /\ start \in Nat /\ start # 0
    BY <1>1 DEF TypeOK, Entries, DupStart
  <2>3. CASE Due(c, t)
    <3>1. n + 1 \in LogAt(c)'
      BY <1>1, <1>2, <1>5, <2>3 DEF Emitted, LogAt
    <3>2. RD_last'[c].dup_start - samples'[n + 1].tick <= MaxGap
      BY <1>1, <1>2, <2>1, <2>3, SensorRecorderAssumption
    <3> QED  BY <1>1, <2>1, <2>3, <3>1, <3>2
  <2>4. CASE ~Due(c, t)
    <3>1. Now' - RD_last'[c].dup_start < duplicate_output_time
      BY <1>1, <2>1, <2>2, <2>4, SensorRecorderAssumption DEF Due
    <3>2. \/ start = samples'[1].tick
          \/ \E k \in LogAt(c)' : start - samples'[k].tick <= MaxGap
      <4>1. CASE samples = <<>>
        <5>1. n = 0 /\ RD_last[c].dup_start = 0
          BY <4>1, <1>1 DEF TableMatches, Cleared
        <5> QED  BY <5>1, <1>2 DEF DupStart
      <4>2. CASE samples # <<>> /\ RD_last[c].dup_start = 0
        <5>1. RD_last[c].isdup = 0
          BY <4>2, SensorRecorderAssumption DEF Beats
        <5>2. n \in LogAt(c) /\ samples[n].tick = Now
          BY <4>2, <5>1, <1>1 DEF LatestKept, LogAt, Now, TypeOK
        <5>3. start - samples'[n].tick <= MaxGap
          BY <4>2, <5>2, <1>1, <1>2, <1>3, SensorRecorderAssumption DEF DupStart
        <5> QED  BY <5>2, <5>3, <1>3
      <4>3. CASE samples # <<>> /\ RD_last[c].dup_start # 0
        <5>1. start = RD_last[c].dup_start
          BY <4>3 DEF DupStart
        <5>2. \/ start = samples[1].tick
              \/ \E k \in LogAt(c) : start - samples[k].tick <= MaxGap
          BY <4>3, <5>1 DEF Beats
        <5>3. samples'[1] = samples[1]
          BY <4>3, <1>2 DEF TypeOK
        <5> QED  BY <5>2, <5>3, <1>2, <1>3
      <4> QED  BY <4>1, <4>2, <4>3
    <3> QED  BY <2>1, <2>2, <2>4, <3>1, <3>2
  <2> QED  BY <2>3, <2>4
<1> QED  BY <1>4, <1>5

LEMMA BeatsStep ==
  ASSUME TypeOK, TableMatches, Delivered, EdgesInv, TimeInv, Beats, [Next]_vars
  PROVE  Beats'
<1>1. CASE Query
  BY <1>1, BeatsQuery DEF EdgesInv, TimeInv
<1>2. CASE Insert
  <2>1. UNCHANGED <<samples, RD_last, Now>>
    BY <1>2 DEF Insert, Now
  <2> QED  BY <1>2, <2>1, LogKept DEF Beats
<1>3. CASE Reset
  BY <1>3 DEF Reset, Beats
<1>4. CASE Return \/ UNCHANGED vars
  <2>1. UNCHANGED <<samples, RD_last, table, realdata, lost>>
    BY <1>4 DEF Return, vars
  <2>2. Intact' = Intact /\ Now' = Now /\ \A c : LogAt(c)' = LogAt(c)
    BY <2>1 DEF Intact, Now, LogAt, RowAt, Log
  <2> QED  BY <2>1, <2>2 DEF Beats
<1> QED  BY <1>1, <1>2, <1>3, <1>4 DEF Next

LEMMA BeatsGiveHeartbeat ==
  ASSUME TypeOK, Delivered, LatestKept, Beats
  PROVE  HeartbeatInTime
<1> SUFFICES ASSUME pc = "query", samples # <<>>, NEW c \in Intact
             PROVE  \/ \E k \in StoredAt(c) :
                         Now - samples[k].tick < duplicate_output_time + MaxGap
                    \/ Now - samples[1].tick < duplicate_output_time
  BY DEF HeartbeatInTime
<1>1. /\ StoredAt(c) = LogAt(c) /\ LogAt(c) \subseteq 1..Len(samples)
  BY DEF TypeOK, StoredAt, LogAt, Log, Delivered
<1>2. /\ Now \in Nat /\ samples[Len(samples)].tick = Now
      /\ c \in Channels /\ RD_last[c].dup_start \in Nat /\ RD_last[c].isdup \in {0, 1}
  BY NowType, SensorRecorderAssumption DEF Now, Intact, TypeOK, Entries
<1>3. CASE Len(samples) \in LogAt(c)
  BY <1>1, <1>2, <1>3, SensorRecorderAssumption
<1>4. CASE Len(samples) \notin LogAt(c)
  <2>1. Len(samples) \in 1..Len(samples)
    BY DEF TypeOK
  <2>2. RD_last[c].isdup = 1
    BY <1>2, <1>4, <2>1 DEF LatestKept, LogAt
  <2>3. Now - RD_last[c].dup_start < duplicate_output_time
    BY <2>2, <1>4 DEF Beats
  <2>4. CASE RD_last[c].dup_start = samples[1].tick
    BY <2>3, <2>4
  <2>5. CASE \E k \in LogAt(c) : RD_last[c].dup_start - samples[k].tick <= MaxGap
    <3>1. PICK k \in LogAt(c) : RD_last[c].dup_start - samples[k].tick <= MaxGap
      BY <2>5
    <3>2. samples[k].tick \in Nat
      BY <1>1, SampleType
    <3>3. Now - samples[k].tick < duplicate_output_time + MaxGap
      BY <1>2, <2>3, <3>1, <3>2, SensorRecorderAssumption
    <3> QED  BY <3>1, <3>3, <1>1
  <2> QED  BY <2>2, <2>4, <2>5 DEF Beats
<1> QED  BY <1>3, <1>4

\* However long a reading repeats, the latest row of an intact channel is
\* between two calls never older than the period plus one gap.
THEOREM HeartbeatAlwaysInTime == Spec => []HeartbeatInTime
<1>1. Init => Beats
  BY DEF Init, Beats
<1>2. EdgesInv => LatestKept
  BY DEF EdgesInv
<1>3. Spec => []Beats
  BY <1>1, BeatsStep, TableSound, EdgesSound, TimeSound, PTL DEF Spec
<1> QED  BY <1>2, <1>3, BeatsGiveHeartbeat, TableSound, EdgesSound, PTL

-----------------------------------------------------------------------------
(* Truth.                                                                  *)

\* While the device answers, every sample is measured and every row is one.
TruthInv == measured = 1..Len(samples) /\ RowsTruthful

LEMMA TruthQuery ==
  ASSUME "query" \notin Faults, TypeOK, TableMatches, Delivered, TruthInv, Query
  PROVE  TruthInv'
<1> PICK t, data : QueriedAt(t, data)
  BY QueryStep
<1> PICK n : n = Len(samples)
  OBVIOUS
<1>1. n \in Nat /\ Len(samples') = n + 1 /\ measured = 1..n
  BY DEF TypeOK, QueriedAt, TruthInv
<1>2. measured' = 1..(n + 1)
  <2>1. measured' = measured \cup {n + 1}
    BY DEF QueriedAt
  <2> QED  BY <1>1, <2>1
<1>3. \A c, k : k \in 1..n => RowAt(c, k)' = RowAt(c, k)
  BY DEF QueriedAt, RowAt
<1>4. \A c : RowAt(c, n + 1)' = Row(c, t, data[c])
  BY DEF QueriedAt, RowAt
<1>5. ASSUME NEW r \in table
      PROVE  \E c \in Mapped, k \in 1..(n + 1) : r = RowAt(c, k)'
  <2>1. PICK c \in Mapped, k \in 1..n : r = RowAt(c, k)
    BY <1>1 DEF TruthInv, RowsTruthful, Log
  <2>2. k \in 1..(n + 1)
    BY <1>1
  <2> QED  BY <2>1, <2>2, <1>3
<1>6. ASSUME NEW c \in Mapped, NEW r \in Emitted(c, t, data[c])
      PROVE  \E k \in 1..(n + 1) : r = RowAt(c, k)'
  <2>1. CASE r = Row(c, t, data[c])
    <3>1. n + 1 \in 1..(n + 1)
      BY <1>1
    <3> QED  BY <2>1, <3>1, <1>4
  <2>2. CASE r # Row(c, t, data[c])
    <3>1. RD_last[c].isdup = 1 /\ r = Row(c, RD_last[c].time_tick, RD_last[c].rdata)
      BY <2>2 DEF Emitted, LastRepeated
    <3>2. samples # <<>>
      BY <3>1 DEF TableMatches, Cleared
    <3>3. r = RowAt(c, n)
      BY <3>1, <3>2 DEF TableMatches, RowAt, Now
    <3>4. n \in 1..n /\ n \in 1..(n + 1)
      BY <3>2, <1>1 DEF TypeOK
    <3> QED  BY <3>3, <3>4, <1>3
  <2> QED  BY <2>1, <2>2
<1>7. Log' = table \cup UNION {Emitted(c, t, data[c]) : c \in Mapped}
  BY DEF QueriedAt, Log
<1>8. \A r \in Log' : \E c \in Mapped, k \in measured' : r = RowAt(c, k)'
  BY <1>2, <1>5, <1>6, <1>7
<1> QED  BY <1>1, <1>2, <1>8 DEF TruthInv, RowsTruthful

\* As long as the device answers its queries, every stored row is a reading
\* of a mapped channel with the time it was read at: neither the removal of
\* repeats nor a failed insertion makes up or misplaces one.
THEOREM RowsAlwaysTruthful ==
  ASSUME "query" \notin Faults
  PROVE  Spec => []RowsTruthful
<1>1. Init => TruthInv
  BY DEF Init, TruthInv, RowsTruthful, Log
<1>2. TypeOK /\ TableMatches /\ Delivered /\ TruthInv /\ [Next]_vars => TruthInv'
  <2> SUFFICES ASSUME TypeOK, TableMatches, Delivered, TruthInv, [Next]_vars
               PROVE  TruthInv'
    OBVIOUS
  <2>1. CASE Query  BY <2>1, TruthQuery
  <2>2. CASE Insert
    <3>1. UNCHANGED <<samples, measured>> /\ Log' \subseteq Log
      BY <2>2 DEF Insert, Log
    <3> QED  BY <3>1 DEF TruthInv, RowsTruthful, RowAt
  <2>3. CASE Reset
    BY <2>3 DEF Reset, Delivered, TruthInv, RowsTruthful, Log
  <2>4. CASE Return \/ UNCHANGED vars
    <3>1. UNCHANGED <<realdata, table, samples, measured>>
      BY <2>4 DEF Return, vars
    <3> QED  BY <3>1 DEF TruthInv, RowsTruthful, Log, RowAt
  <2> QED  BY <2>1, <2>2, <2>3, <2>4 DEF Next
<1>3. TruthInv => RowsTruthful
  BY DEF TruthInv
<1> QED  BY <1>1, <1>2, <1>3, TableSound, PTL DEF Spec
=============================================================================
