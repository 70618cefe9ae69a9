-------------------------- MODULE DaqChannelsProofs --------------------------
(***************************************************************************)
(* Proofs about DaqChannels and the arithmetic of TimeTick, for every size *)
(* of the table, every list, every clock and every resolution.             *)
(***************************************************************************)
EXTENDS DaqChannels, TLAPS

-----------------------------------------------------------------------------
(* The time tick.                                                          *)

LEMMA NanosBounded ==
  ASSUME NEW b \in Timespec, NEW t \in Timespec
  PROVE  /\ Nanos(b, t) \in Nat /\ Nanos(b, t) < NANO
         /\ Seconds(b, t) \in Int
         /\ NANO * (t.tv_sec - b.tv_sec) + (t.tv_nsec - b.tv_nsec)
              = NANO * Seconds(b, t) + Nanos(b, t)
  BY DEF Timespec, Nanos, Seconds, Borrows, NANO

\* Rounding errs by half a millisecond at most, and keeps the order.
LEMMA RoundedNear ==
  ASSUME NEW n \in Nat, n < NANO
  PROVE  /\ Rounded(n) \in Nat /\ Rounded(n) <= 1000
         /\ MILLI * Rounded(n) - n <= MILLI \div 2
         /\ n - MILLI * Rounded(n) <= MILLI \div 2
  BY DEF Rounded, MILLI, NANO

LEMMA RoundedMonotone ==
  ASSUME NEW n \in Nat, NEW m \in Nat, n <= m
  PROVE  Rounded(n) <= Rounded(m)
  BY DEF Rounded, MILLI

\* The carry into the seconds leaves the number of milliseconds as it is.
LEMMA TickIsSum ==
  ASSUME NEW b \in Timespec, NEW t \in Timespec
  PROVE  generate_timetick(b, t) = 1000 * Seconds(b, t) + Rounded(Nanos(b, t))
<1>1. /\ Rounded(Nanos(b, t)) \in Nat /\ Rounded(Nanos(b, t)) <= 1000
      /\ Seconds(b, t) \in Int
  BY NanosBounded, RoundedNear
<1> QED
  BY <1>1 DEF generate_timetick, Carried

\* The tick is the elapsed time, to the nearest millisecond.
LEMMA TickNear ==
  ASSUME NEW b \in Timespec, NEW t \in Timespec
  PROVE  LET ms == generate_timetick(b, t) - 1000 * (t.tv_sec - b.tv_sec)
             ns == t.tv_nsec - b.tv_nsec
         IN  /\ generate_timetick(b, t) \in Int
             /\ ms * MILLI - ns <= MILLI \div 2
             /\ ns - ms * MILLI <= MILLI \div 2
<1> DEFINE n == Nanos(b, t)
           s == Seconds(b, t)
<1>1. /\ n \in Nat /\ n < NANO /\ s \in Int
      /\ NANO * (t.tv_sec - b.tv_sec) + (t.tv_nsec - b.tv_nsec) = NANO * s + n
  BY NanosBounded
<1>2. /\ Rounded(n) \in Nat
      /\ MILLI * Rounded(n) - n <= MILLI \div 2
      /\ n - MILLI * Rounded(n) <= MILLI \div 2
  BY <1>1, RoundedNear
<1>3. generate_timetick(b, t) = 1000 * s + Rounded(n)
  BY TickIsSum
<1>4. t.tv_sec \in Int /\ b.tv_sec \in Int /\ t.tv_nsec \in Int /\ b.tv_nsec \in Int
  BY DEF Timespec
<1> HIDE DEF n, s
<1> QED
  BY <1>1, <1>2, <1>3, <1>4 DEF NANO, MILLI

\* A later reading of the clock never has a smaller tick.
LEMMA TickMonotone ==
  ASSUME NEW b \in Timespec, NEW t \in Timespec, NEW u \in Timespec, AtOrBefore(t, u)
  PROVE  generate_timetick(b, t) <= generate_timetick(b, u)
<1>1. /\ Nanos(b, t) \in Nat /\ Nanos(b, t) < NANO /\ Seconds(b, t) \in Int
      /\ Nanos(b, u) \in Nat /\ Nanos(b, u) < NANO /\ Seconds(b, u) \in Int
  BY NanosBounded
<1>2. /\ Rounded(Nanos(b, t)) \in Nat /\ Rounded(Nanos(b, t)) <= 1000
      /\ Rounded(Nanos(b, u)) \in Nat /\ Rounded(Nanos(b, u)) <= 1000
  BY <1>1, RoundedNear
<1>3. \/ Seconds(b, t) < Seconds(b, u)
      \/ Seconds(b, t) = Seconds(b, u) /\ Nanos(b, t) <= Nanos(b, u)
  BY DEF AtOrBefore, Timespec, Seconds, Nanos, Borrows, NANO
<1>4. Nanos(b, t) <= Nanos(b, u) => Rounded(Nanos(b, t)) <= Rounded(Nanos(b, u))
  BY <1>1, RoundedMonotone
<1> QED
  BY <1>1, <1>2, <1>3, <1>4, TickIsSum
-----------------------------------------------------------------------------
(* The inductive invariant.                                                *)

Mapped == pc \in {"codes", "run", "ended"}

\* What the list alone put into an entry.
FromList ==
  \A i \in Channels :
    i < at =>
      /\ listing[i + 1].ch # Absent => daq_channel[i].channel_seqno = listing[i + 1].ch
      /\ listing[i + 1].of # Absent => daq_channel[i].output_factor = listing[i + 1].of

FromDatabase ==
  \A i \in Channels :
    IF Mapped /\ SensorsOn(mapping, i) # {}
      THEN daq_channel[i].MOSensorSN \in SensorsOn(mapping, i)
      ELSE daq_channel[i].MOSensorSN = IF i < at THEN -1 ELSE 0

FromDevice ==
  \A i \in Registers :
    daq_channel[i].range =
      IF code = <<>> THEN NoRange ELSE typecode_to_input_range(code[i])

\* An index that will be carried over is one of the table.
Carries ==
  /\ pc = "list" /\ at < Len(listing) /\ (at = 0 \/ listing[at + 1].ch = Absent)
       => intval \in Channels
  /\ \A i \in Channels : daq_channel[i].channel_seqno \in Channels

RowsNow ==
  \/ raw = <<>> /\ rows = {}
  \/ /\ pc = "run" /\ raw \in [Registers -> Raws]
     /\ rows = {RowOf(i, raw[i], generate_timetick(base, now)) :
                   i \in {r \in Registers : Collected(r)}}

Tables ==
  /\ daq_channel \in [Channels -> Entries]
  /\ pc \in {"list", "sensors", "codes", "run", "ended"}
  /\ listing \in Listings \cup {<<>>} /\ at \in 0..Len(listing) /\ intval \in Int
  /\ base \in Timespec /\ now \in Timespec
  /\ pc # "list" => at = Len(listing)
  /\ pc # "run" => code = <<>> /\ raw = <<>>

IInv == Tables /\ FromList /\ FromDatabase /\ FromDevice /\ Carries /\ RowsNow
-----------------------------------------------------------------------------
LEMMA SensorNumbers ==
  /\ \A s \in Sensors : s \in Nat /\ s # 0
  /\ Absent \notin Sensors
<1>1. Sensors \subseteq Nat \ {0} /\ Absent \notin Int
  BY ChannelsAssumption
<1>2. \A s \in Sensors : s \in Nat /\ s # 0
  BY <1>1
<1>3. \A s \in Sensors : s \in Int
  BY <1>2
<1> QED
  BY <1>1, <1>2, <1>3, Zenon

LEMMA RawNumbers == \A v \in Raws : v \in Int
<1>1. \A v \in 0..resolution : v \in Int
  BY ChannelsAssumption
<1> QED
  BY <1>1, ChannelsAssumption

\* Every code but 0104 is given the range that util.h documents.
LEMMA RangesDocumented ==
  ASSUME NEW c \in InputCodes, c # "0104"
  PROVE  typecode_to_input_range(c) = InputRange[c]
  BY DEF typecode_to_input_range

LEMMA InputRangeType ==
  ASSUME NEW c \in InputCodes
  PROVE  InputRange[c] \in [upper : Int, lower : Int]
<1>1. c \in {"0103", "0104", "0105", "0106", "0140", "0142", "0143"}
      => InputRange[c] \in [upper : Int, lower : Int]
  BY DEF InputRange, Range
<1>2. c \in {"0145", "0147", "0148", "0181", "1080", "1082"}
      => InputRange[c] \in [upper : Int, lower : Int]
  BY DEF InputRange, Range
<1> QED
  BY <1>1, <1>2 DEF InputCodes

LEMMA RangeType ==
  ASSUME NEW c
  PROVE  typecode_to_input_range(c) \in [upper : Int, lower : Int]
<1>1. CASE c \notin InputCodes
  <2>1. c # "0104"
    BY <1>1 DEF InputCodes
  <2>2. typecode_to_input_range(c) = NoRange
    BY <1>1, <2>1 DEF typecode_to_input_range
  <2> QED
    BY <2>2 DEF Range, NoRange
<1>2. CASE c \in InputCodes /\ c = "0104"
  BY <1>2, InputRangeType DEF typecode_to_input_range, Range
<1>3. CASE c \in InputCodes /\ c # "0104"
  BY <1>3, InputRangeType, RangesDocumented
<1> QED
  BY <1>1, <1>2, <1>3

\* A list that is read, entry by entry.
LEMMA ListType ==
  ASSUME NEW list \in Listings \cup {<<>>}
  PROVE  /\ Len(list) \in Nat /\ Len(list) <= TableSize
         /\ \A k \in 1..Len(list) :
              /\ list[k].ch = Absent \/ list[k].ch \in Channels
              /\ list[k].of = Absent \/ list[k].of \in Int
         /\ \A k \in 2..Len(list) :
              list[k].ch = Absent =>
                list[k - 1].of = Absent \/ list[k - 1].of \in Channels
<1>1. CASE list = <<>>
  BY <1>1, ChannelsAssumption
<1>2. CASE list \in Listings
  <2> DEFINE E == [ch : Channels \cup {Absent}, of : Int \cup {Absent}]
  <2>1. list \in Seq(E)
    BY <1>2, ListingsAssumption
  <2>2. \A k \in 1..Len(list) : list[k] \in E
    <3> HIDE DEF E
    <3> QED
      BY <2>1
  <2>3. \A k \in 2..Len(list) :
          list[k].ch = Absent => list[k - 1].of \in Channels \cup {Absent}
    BY <1>2, ListingsAssumption
  <2>4. Len(list) \in Nat /\ Len(list) <= TableSize
    BY <1>2, <2>1, ListingsAssumption
  <2> QED
    BY <2>2, <2>3, <2>4
<1> QED
  BY <1>1, <1>2

LEMMA InitIInv == Init => IInv
<1> SUFFICES ASSUME Init PROVE IInv
  OBVIOUS
<1> USE ChannelsAssumption DEF Init, Cleared
<1>1. Tables
  <2>1. NoRange \in [upper : Int, lower : Int]
    BY DEF NoRange, Range
  <2>2. base \in Timespec
    BY DEF Timespec, NANO
  <2>3. Len(listing) \in Nat
    BY ListType
  <2> QED
    BY <2>1, <2>2, <2>3 DEF Tables, Entries, Channels
<1>2. FromList /\ FromDatabase /\ FromDevice
  BY DEF FromList, FromDatabase, FromDevice, Mapped, Channels, Registers
<1>3. Carries
  BY DEF Carries, Channels
<1>4. RowsNow
  BY DEF RowsNow
<1> QED
  BY <1>1, <1>2, <1>3, <1>4 DEF IInv

\* The next entry of the list.
LEMMA EntryStep == IInv /\ load_DAQ_channel_entry => IInv'
<1> SUFFICES ASSUME IInv, load_DAQ_channel_entry PROVE IInv'
  OBVIOUS
<1> USE DEF IInv, load_DAQ_channel_entry
<1> DEFINE entry == listing[at + 1]
           seqno == Looked(entry.ch, intval)
           of    == Looked(entry.of, seqno)
<1>1. /\ listing \in Listings \cup {<<>>} /\ at \in Nat /\ at < Len(listing)
      /\ Len(listing) \in Nat /\ Len(listing) <= TableSize
      /\ at \in Channels /\ pc = "list" /\ code = <<>>
      /\ daq_channel \in [Channels -> Entries]
  BY ListType, ChannelsAssumption DEF Tables, Channels
<1>2. seqno \in Channels /\ seqno \in Int
  BY <1>1, ListType DEF Carries, Looked, Channels
<1>3. of \in Int /\ (entry.of # Absent => of = entry.of) /\ (entry.of = Absent => of = seqno)
  BY <1>1, <1>2, ListType DEF Looked
<1>4. entry.ch # Absent => seqno = entry.ch
  BY DEF Looked
<1>5. /\ daq_channel' = [daq_channel EXCEPT ![at] =
            [@ EXCEPT !.channel_seqno = seqno, !.output_factor = of, !.MOSensorSN = -1]]
      /\ intval' = of /\ at' = at + 1
      /\ pc' = pc /\ listing' = listing /\ mapping' = mapping /\ code' = code
      /\ base' = base /\ now' = now /\ raw' = raw /\ rows' = rows
  BY DEF reading
<1>6. entry = listing[at + 1]
  OBVIOUS
<1> HIDE DEF entry, seqno, of, load_DAQ_channel_entry
<1>7. /\ daq_channel' \in [Channels -> Entries]
      /\ \A i \in Channels : i # at => daq_channel'[i] = daq_channel[i]
      /\ daq_channel'[at].channel_seqno = seqno
      /\ daq_channel'[at].output_factor = of
      /\ daq_channel'[at].MOSensorSN = -1
      /\ daq_channel'[at].range = daq_channel[at].range
  BY <1>1, <1>2, <1>3, <1>5 DEF Entries
<1>8. Tables'
  BY <1>1, <1>3, <1>5, <1>7 DEF Tables
<1>9. FromList'
  BY <1>1, <1>3, <1>4, <1>5, <1>6, <1>7 DEF FromList, Channels
<1>10. FromDatabase'
  <2> SUFFICES ASSUME NEW i \in Channels
               PROVE  daq_channel'[i].MOSensorSN = IF i < at' THEN -1 ELSE 0
    BY <1>1, <1>5 DEF FromDatabase, Mapped
  <2>1. CASE i = at
    BY <2>1, <1>1, <1>5, <1>7
  <2>2. CASE i # at
    BY <2>2, <1>1, <1>5, <1>7 DEF FromDatabase, Mapped, Channels
  <2> QED
    BY <2>1, <2>2
<1>11. FromDevice'
  BY <1>1, <1>5, <1>7, ChannelsAssumption DEF FromDevice, Channels, Registers
<1>12. Carries'
  <2>1. \A i \in Channels : daq_channel'[i].channel_seqno \in Channels
    BY <1>2, <1>7 DEF Carries
  <2>2. at + 1 < Len(listing) /\ listing[at + 2].ch = Absent => of \in Channels
    <3> SUFFICES ASSUME at + 1 < Len(listing), listing[at + 2].ch = Absent
                 PROVE  of \in Channels
      OBVIOUS
    <3>1. at + 2 \in 2..Len(listing) /\ (at + 2) - 1 = at + 1
      BY <1>1
    <3>2. entry.of = Absent \/ entry.of \in Channels
      BY <1>1, <1>6, <3>1, ListType
    <3> QED
      BY <3>2, <1>2, <1>3
  <2>3. (at + 1) + 1 = at + 2 /\ at + 1 # 0
    BY <1>1
  <2> QED
    BY <2>1, <2>2, <2>3, <1>5 DEF Carries
<1>13. RowsNow'
  BY <1>1, <1>5 DEF RowsNow, Tables
<1> QED
  BY <1>8, <1>9, <1>10, <1>11, <1>12, <1>13 DEF IInv
\* The end of the list, or a file that cannot be read.
LEMMA ListEnds == IInv /\ (ListDone \/ FileUnreadable) => IInv'
<1> SUFFICES ASSUME IInv, ListDone \/ FileUnreadable PROVE IInv'
  OBVIOUS
<1> USE DEF IInv
<1>1. /\ pc = "list" /\ pc' = "sensors" /\ intval' = 0 /\ at' = at
      /\ daq_channel' = daq_channel /\ mapping' = mapping /\ code' = code
      /\ base' = base /\ now' = now /\ raw' = raw /\ rows' = rows
      /\ \/ listing' = listing /\ at = Len(listing)
         \/ listing' = <<>> /\ at = 0
  BY DEF ListDone, FileUnreadable, reading
<1>2. Tables'
  BY <1>1 DEF Tables
<1>3. FromList'
  BY <1>1 DEF FromList, Channels
<1>4. FromDatabase' /\ FromDevice'
  BY <1>1 DEF FromDatabase, FromDevice, Mapped
<1>5. Carries' /\ RowsNow'
  BY <1>1 DEF Carries, RowsNow, Tables
<1> QED
  BY <1>2, <1>3, <1>4, <1>5

LEMMA MappingStep == IInv /\ get_MOSensorSN_by_MOSN => IInv'
<1> SUFFICES ASSUME IInv, get_MOSensorSN_by_MOSN PROVE IInv'
  OBVIOUS
<1> USE DEF IInv
<1>1. PICK db \in [Sensors -> Channels \cup {Absent}],
           latest \in [Channels -> Sensors \cup {Absent}] :
        /\ \A i \in Channels :
             latest[i] \in IF SensorsOn(db, i) = {} THEN {Absent} ELSE SensorsOn(db, i)
        /\ mapping' = db
        /\ daq_channel' = [i \in Channels |->
             IF latest[i] = Absent THEN daq_channel[i]
             ELSE [daq_channel[i] EXCEPT !.MOSensorSN = latest[i]]]
        /\ pc' \in {"ended", "codes"}
  BY DEF get_MOSensorSN_by_MOSN
<1>2. /\ pc = "sensors" /\ at' = at /\ listing' = listing /\ intval' = intval
      /\ code' = code /\ code = <<>> /\ raw = <<>>
      /\ base' = base /\ now' = now /\ raw' = raw /\ rows' = rows
      /\ daq_channel \in [Channels -> Entries]
  BY DEF get_MOSensorSN_by_MOSN, reading, Tables
<1>3. \A i \in Channels :
        /\ SensorsOn(db, i) \subseteq Sensors
        /\ SensorsOn(db, i) = {} => daq_channel'[i] = daq_channel[i]
        /\ SensorsOn(db, i) # {} =>
             /\ latest[i] \in SensorsOn(db, i)
             /\ daq_channel'[i] = [daq_channel[i] EXCEPT !.MOSensorSN = latest[i]]
  <2> SUFFICES ASSUME NEW i \in Channels
               PROVE  /\ SensorsOn(db, i) \subseteq Sensors
                      /\ SensorsOn(db, i) = {} => daq_channel'[i] = daq_channel[i]
                      /\ SensorsOn(db, i) # {} =>
                           /\ latest[i] \in SensorsOn(db, i)
                           /\ daq_channel'[i] = [daq_channel[i] EXCEPT !.MOSensorSN = latest[i]]
    OBVIOUS
  <2>1. SensorsOn(db, i) \subseteq Sensors
    BY DEF SensorsOn
  <2>2. Absent \notin Sensors
    BY SensorNumbers
  <2>3. daq_channel'[i] = IF latest[i] = Absent THEN daq_channel[i]
                          ELSE [daq_channel[i] EXCEPT !.MOSensorSN = latest[i]]
    BY <1>1
  <2>4. latest[i] \in IF SensorsOn(db, i) = {} THEN {Absent} ELSE SensorsOn(db, i)
    BY <1>1
  <2> QED
    BY <2>1, <2>2, <2>3, <2>4
<1>4. \A i \in Channels :
        /\ daq_channel'[i] \in Entries
        /\ daq_channel'[i].channel_seqno = daq_channel[i].channel_seqno
        /\ daq_channel'[i].output_factor = daq_channel[i].output_factor
        /\ daq_channel'[i].range = daq_channel[i].range
        /\ IF SensorsOn(db, i) = {}
             THEN daq_channel'[i].MOSensorSN = daq_channel[i].MOSensorSN
             ELSE daq_channel'[i].MOSensorSN \in SensorsOn(db, i)
  <2> SUFFICES ASSUME NEW i \in Channels
               PROVE  /\ daq_channel'[i] \in Entries
                      /\ daq_channel'[i].channel_seqno = daq_channel[i].channel_seqno
                      /\ daq_channel'[i].output_factor = daq_channel[i].output_factor
                      /\ daq_channel'[i].range = daq_channel[i].range
                      /\ IF SensorsOn(db, i) = {}
                           THEN daq_channel'[i].MOSensorSN = daq_channel[i].MOSensorSN
                           ELSE daq_channel'[i].MOSensorSN \in SensorsOn(db, i)
    OBVIOUS
  <2>1. daq_channel[i] \in Entries
    BY <1>2
  <2>2. CASE SensorsOn(db, i) = {}
    BY <2>1, <2>2, <1>3
  <2>3. CASE SensorsOn(db, i) # {}
    <3>1. daq_channel'[i] = [daq_channel[i] EXCEPT !.MOSensorSN = latest[i]]
      BY <2>3, <1>3
    <3>2. latest[i] \in SensorsOn(db, i) /\ latest[i] \in Sensors
      BY <2>3, <1>3
    <3> QED
      BY <2>1, <2>3, <3>1, <3>2 DEF Entries
  <2> QED
    BY <2>2, <2>3
<1>5. Tables'
  <2>1. daq_channel' \in [Channels -> Entries]
    <3> DEFINE E(i) == IF latest[i] = Absent THEN daq_channel[i]
                       ELSE [daq_channel[i] EXCEPT !.MOSensorSN = latest[i]]
    <3>1. daq_channel' = [i \in Channels |-> E(i)]
      BY <1>1
    <3>2. \A i \in Channels : E(i) = daq_channel'[i]
      BY <3>1
    <3> HIDE DEF E
    <3>3. \A i \in Channels : E(i) \in Entries
      BY <3>2, <1>4
    <3> QED
      BY <3>1, <3>3
  <2> QED
    BY <2>1, <1>1, <1>2 DEF Tables
<1>6. FromList'
  BY <1>2, <1>4 DEF FromList
<1>7. FromDatabase'
  <2>1. Mapped'
    BY <1>1 DEF Mapped
  <2>2. \A i \in Channels : SensorsOn(mapping, i)' = SensorsOn(db, i)
    BY <1>1 DEF SensorsOn
  <2>3. ~Mapped
    BY <1>2 DEF Mapped
  <2>4. \A i \in Channels : daq_channel[i].MOSensorSN = IF i < at THEN -1 ELSE 0
    BY <2>3 DEF FromDatabase
  <2> QED
    BY <2>1, <2>2, <2>4, <1>2, <1>4 DEF FromDatabase
<1>8. FromDevice'
  BY <1>2, <1>4, ChannelsAssumption DEF FromDevice, Registers, Channels
<1>9. Carries' /\ RowsNow'
  BY <1>1, <1>2, <1>4 DEF Carries, RowsNow
<1> QED
  BY <1>5, <1>6, <1>7, <1>8, <1>9

LEMMA CodesStep == IInv /\ ReadTypeCodes => IInv'
<1> SUFFICES ASSUME IInv, ReadTypeCodes PROVE IInv'
  OBVIOUS
<1> USE DEF IInv
<1>1. /\ pc = "codes" /\ pc' = "run" /\ at' = at /\ listing' = listing
      /\ intval' = intval /\ mapping' = mapping /\ code = <<>> /\ raw = <<>>
      /\ base' = base /\ now' = now /\ raw' = raw /\ rows' = rows
      /\ daq_channel \in [Channels -> Entries]
  BY DEF ReadTypeCodes, reading, Tables
<1>2. \A i \in Channels :
        /\ daq_channel'[i] \in Entries
        /\ daq_channel'[i].channel_seqno = daq_channel[i].channel_seqno
        /\ daq_channel'[i].output_factor = daq_channel[i].output_factor
        /\ daq_channel'[i].MOSensorSN = daq_channel[i].MOSensorSN
        /\ i \in Registers =>
             daq_channel'[i].range =
               IF code' = <<>> THEN NoRange ELSE typecode_to_input_range(code'[i])
  <2>1. CASE UNCHANGED <<daq_channel, code>>
    BY <2>1, <1>1 DEF FromDevice
  <2>2. ASSUME NEW cs \in [Registers -> Codes], code' = cs,
               daq_channel' = [i \in Channels |->
                 IF i \in Registers
                   THEN [daq_channel[i] EXCEPT !.range = typecode_to_input_range(cs[i])]
                   ELSE daq_channel[i]]
        PROVE  \A i \in Channels :
                 /\ daq_channel'[i] \in Entries
                 /\ daq_channel'[i].channel_seqno = daq_channel[i].channel_seqno
                 /\ daq_channel'[i].output_factor = daq_channel[i].output_factor
                 /\ daq_channel'[i].MOSensorSN = daq_channel[i].MOSensorSN
                 /\ i \in Registers =>
                      daq_channel'[i].range =
                        IF code' = <<>> THEN NoRange ELSE typecode_to_input_range(code'[i])
    <3>1. code' # <<>>
      <4>1. 0 \in DOMAIN cs
        BY ChannelsAssumption DEF Registers
      <4> QED
        BY <4>1, <2>2
    <3> SUFFICES ASSUME NEW i \in Channels
                 PROVE  /\ daq_channel'[i] \in Entries
                        /\ daq_channel'[i].channel_seqno = daq_channel[i].channel_seqno
                        /\ daq_channel'[i].output_factor = daq_channel[i].output_factor
                        /\ daq_channel'[i].MOSensorSN = daq_channel[i].MOSensorSN
                        /\ i \in Registers =>
                             daq_channel'[i].range = typecode_to_input_range(code'[i])
      BY <3>1
    <3>2. typecode_to_input_range(cs[i]) \in [upper : Int, lower : Int]
      BY RangeType
    <3>3. daq_channel[i] \in Entries
      BY <1>1
    <3>4. CASE i \in Registers
      <4>1. daq_channel'[i] = [daq_channel[i] EXCEPT !.range = typecode_to_input_range(cs[i])]
        BY <2>2, <3>4
      <4> QED
        BY <4>1, <2>2, <3>2, <3>3 DEF Entries
    <3>5. CASE i \notin Registers
      BY <2>2, <3>3, <3>5
    <3> QED
      BY <3>4, <3>5
  <2> QED
    BY <2>1, <2>2 DEF ReadTypeCodes
<1>3. Tables'
  <2>1. daq_channel' = [i \in Channels |-> daq_channel'[i]]
    <3>1. CASE UNCHANGED <<daq_channel, code>>
      BY <3>1, <1>1
    <3>2. ASSUME NEW F(_), daq_channel' = [i \in Channels |-> F(i)]
          PROVE  daq_channel' = [i \in Channels |-> daq_channel'[i]]
      BY <3>2
    <3> QED
      BY <3>1, <3>2 DEF ReadTypeCodes
  <2>2. daq_channel' \in [Channels -> Entries]
    BY <2>1, <1>2
  <2> QED
    BY <2>2, <1>1 DEF Tables
<1>4. FromList' /\ FromDatabase'
  BY <1>1, <1>2 DEF FromList, FromDatabase, Mapped
<1>5. FromDevice'
  BY <1>2, ChannelsAssumption DEF FromDevice, Registers, Channels
<1>6. Carries' /\ RowsNow'
  BY <1>1, <1>2 DEF Carries, RowsNow
<1> QED
  BY <1>3, <1>4, <1>5, <1>6

LEMMA OpensStep == IInv /\ TakeBase => IInv'
<1> SUFFICES ASSUME IInv, TakeBase PROVE IInv'
  OBVIOUS
<1> USE DEF IInv
<1>1. /\ pc = "run" /\ pc' = pc /\ listing' = listing /\ at' = at /\ intval' = intval
      /\ daq_channel' = daq_channel /\ mapping' = mapping /\ code' = code
      /\ base' \in Timespec /\ now' \in Timespec /\ raw' = <<>> /\ rows' = {}
  BY ChannelsAssumption DEF TakeBase, boot
<1>2. Tables'
  BY <1>1 DEF Tables
<1>3. FromList' /\ FromDevice'
  BY <1>1 DEF FromList, FromDevice
<1>4. FromDatabase'
  BY <1>1 DEF FromDatabase, Mapped, SensorsOn
<1>5. Carries' /\ RowsNow'
  BY <1>1 DEF Carries, RowsNow
<1> QED
  BY <1>2, <1>3, <1>4, <1>5

LEMMA ReadingStep == IInv /\ SensorDataProcess => IInv'
<1> SUFFICES ASSUME IInv, SensorDataProcess PROVE IInv'
  OBVIOUS
<1> USE DEF IInv
<1>1. PICK values \in [Registers -> Raws], t \in Times :
        /\ raw' = values /\ now' = t
        /\ rows' = {RowOf(i, values[i], generate_timetick(base, t)) :
                      i \in {r \in Registers : Collected(r)}}
  BY DEF SensorDataProcess
<1>2. /\ pc = "run" /\ pc' = pc /\ listing' = listing /\ at' = at /\ intval' = intval
      /\ daq_channel' = daq_channel /\ mapping' = mapping /\ code' = code
      /\ base' = base /\ now' \in Timespec
  BY <1>1, ChannelsAssumption DEF SensorDataProcess, boot
<1>3. Tables'
  BY <1>2 DEF Tables
<1>4. FromList' /\ FromDevice'
  BY <1>2 DEF FromList, FromDevice
<1>5. FromDatabase'
  BY <1>2 DEF FromDatabase, Mapped, SensorsOn
<1>6. Carries'
  BY <1>2 DEF Carries
<1>7. RowsNow'
  <2>1. rows' = {RowOf(i, raw[i], generate_timetick(base, now)) :
                   i \in {r \in Registers : Collected(r)}}'
    BY <1>1, <1>2 DEF RowOf, chd_raw_real_conversion, ConversionIndex, Collected,
       generate_timetick, Carried, Seconds, Nanos, Rounded, Borrows
  <2> QED
    BY <2>1, <1>1, <1>2 DEF RowsNow
<1> QED
  BY <1>3, <1>4, <1>5, <1>6, <1>7

LEMMA StepIInv == IInv /\ [Next]_vars => IInv'
<1>1. IInv /\ UNCHANGED vars => IInv'
  BY DEF IInv, Tables, FromList, FromDatabase, FromDevice, Carries, RowsNow, vars,
     Mapped, SensorsOn, RowOf, chd_raw_real_conversion, ConversionIndex, Collected,
     generate_timetick, Carried, Seconds, Nanos, Rounded, Borrows
<1> QED
  BY <1>1, EntryStep, ListEnds, MappingStep, CodesStep, OpensStep, ReadingStep
     DEF Next

LEMMA Inductive == Spec => []IInv
  BY InitIInv, StepIInv, PTL DEF Spec

-----------------------------------------------------------------------------
(* The properties.                                                         *)

\* What a row is made of.
LEMMA RowFacts ==
  ASSUME IInv, NEW r \in rows
  PROVE  /\ pc = "run" /\ raw \in [Registers -> Raws]
         /\ r.register \in Registers /\ r.register \in Channels
         /\ daq_channel[r.register].MOSensorSN >= 0
         /\ r.sensor = daq_channel[r.register].MOSensorSN
         /\ r.tick = generate_timetick(base, now)
         /\ r.value = chd_raw_real_conversion(raw[r.register],
                                              daq_channel[r.register].channel_seqno)
  BY ChannelsAssumption
     DEF IInv, RowsNow, RowOf, Collected, ConversionIndex, Registers, Channels

\* The factor is that of the channel the file numbers so.
LEMMA ValueType ==
  ASSUME IInv, NEW i \in Channels, NEW v \in Int
  PROVE  LET range  == daq_channel[i].range
             factor == daq_channel[i].output_factor
         IN  /\ range.upper \in Int /\ range.lower \in Int /\ factor \in Int
             /\ chd_raw_real_conversion(v, i) \in Int
             /\ chd_raw_real_conversion(v, i)
                  = factor * (range.lower * (resolution - v) + range.upper * v)
<1> DEFINE u == daq_channel[i].range.upper
           l == daq_channel[i].range.lower
           f == daq_channel[i].output_factor
<1>1. u \in Int /\ l \in Int /\ f \in Int /\ resolution \in Int
  BY ChannelsAssumption DEF IInv, Tables, Entries
<1>2. chd_raw_real_conversion(v, i) = (v * (u - l) + resolution * l) * f
  BY DEF chd_raw_real_conversion
<1> HIDE DEF u, l, f
<1>3. /\ v * (u - l) = u * v - l * v /\ v * (u - l) \in Int
      /\ resolution * l = l * resolution /\ l * resolution \in Int
      /\ l * (resolution - v) = l * resolution - l * v
      /\ l * v \in Int /\ u * v \in Int
  BY <1>1
<1>4. v * (u - l) + resolution * l = l * (resolution - v) + u * v
  BY <1>3
<1>5. (l * (resolution - v) + u * v) \in Int
  BY <1>3
<1>6. ASSUME NEW a \in Int PROVE a * f = f * a /\ a * f \in Int
  BY <1>1
<1>7. /\ chd_raw_real_conversion(v, i) = f * (l * (resolution - v) + u * v)
      /\ chd_raw_real_conversion(v, i) \in Int
  BY <1>2, <1>4, <1>5, <1>6
<1> QED
  BY <1>1, <1>7 DEF u, l, f

\* Every variable keeps its type, whatever the list, the database and the
\* device answer: no index leaves the table and no row an undefined sensor.
THEOREM ChannelsTyped == Spec => []TypeOK
<1>1. IInv => TypeOK
  <2> SUFFICES ASSUME IInv PROVE TypeOK
    OBVIOUS
  <2>1. ASSUME NEW r \in rows
        PROVE  r.sensor \in Int /\ r.tick \in Int /\ r.value \in Int
    <3>1. /\ r.register \in Channels /\ r.tick = generate_timetick(base, now)
          /\ r.sensor = daq_channel[r.register].MOSensorSN
          /\ raw[r.register] \in Raws
          /\ r.value = chd_raw_real_conversion(raw[r.register],
                                               daq_channel[r.register].channel_seqno)
      BY RowFacts
    <3>2. daq_channel[r.register].MOSensorSN \in Int
      BY <3>1, SensorNumbers DEF IInv, Tables, Entries
    <3>3. daq_channel[r.register].channel_seqno \in Channels
      BY <3>1 DEF IInv, Carries
    <3>4. raw[r.register] \in Int
      BY <3>1, RawNumbers
    <3>5. r.value \in Int
      BY <3>1, <3>3, <3>4, ValueType
    <3>6. base \in Timespec /\ now \in Timespec
      BY DEF IInv, Tables
    <3> QED
      BY <3>1, <3>2, <3>5, <3>6, TickNear
  <2> QED
    BY <2>1 DEF IInv, Tables, TypeOK
<1> QED
  BY <1>1, Inductive, PTL

\* The sensor of a row is one the database puts on the row's register; only
\* a register that the file does not list gets rows of sensor 0.
THEOREM SensorsMatchMapping == Spec => []RowsFollowMapping
<1>1. IInv => RowsFollowMapping
  <2> SUFFICES ASSUME IInv, raw # <<>>
               PROVE  /\ \A r \in rows :
                           IF SensorsOn(mapping, r.register) # {}
                             THEN r.sensor \in SensorsOn(mapping, r.register)
                             ELSE r.sensor = 0 /\ r.register >= Listed
                      /\ \A i \in Registers :
                           SensorsOn(mapping, i) # {} => \E r \in rows : r.register = i
    BY DEF RowsFollowMapping
  <2>1. Mapped /\ at \in Int
    BY DEF IInv, RowsNow, Mapped, Tables
  <2>2. ASSUME NEW r \in rows
        PROVE  IF SensorsOn(mapping, r.register) # {}
                 THEN r.sensor \in SensorsOn(mapping, r.register)
                 ELSE r.sensor = 0 /\ r.register >= Listed
    <3>1. /\ r.register \in Channels /\ r.register \in Int
          /\ r.sensor = daq_channel[r.register].MOSensorSN
          /\ daq_channel[r.register].MOSensorSN >= 0
      BY RowFacts DEF Channels
    <3>2. IF SensorsOn(mapping, r.register) # {}
            THEN r.sensor \in SensorsOn(mapping, r.register)
            ELSE r.sensor = IF r.register < at THEN -1 ELSE 0
      BY <2>1, <3>1 DEF IInv, FromDatabase
    <3> QED
      BY <2>1, <3>1, <3>2 DEF Listed
  <2>3. ASSUME NEW i \in Registers, SensorsOn(mapping, i) # {}
        PROVE  \E r \in rows : r.register = i
    <3>1. i \in Channels
      BY ChannelsAssumption DEF Registers, Channels
    <3>2. daq_channel[i].MOSensorSN \in Sensors
      BY <2>1, <2>3, <3>1 DEF IInv, FromDatabase, SensorsOn
    <3>3. Collected(i)
      BY <3>2, SensorNumbers DEF Collected
    <3>4. RowOf(i, raw[i], generate_timetick(base, now)) \in rows
      BY <3>3, <2>3 DEF IInv, RowsNow
    <3> QED
      BY <3>4 DEF RowOf
  <2> QED
    BY <2>2, <2>3
<1> QED
  BY <1>1, Inductive, PTL

\* With an ordered list and answered type codes the documented formula holds of
\* every row, whatever the resolution, the factors and the readings, but for
\* rows of code 0104.
THEOREM ValuesAreReadings == Spec => []ValueIsReading
<1>1. IInv => ValueIsReading
  <2> SUFFICES ASSUME IInv, raw # <<>>, code # <<>>, InOrder, NEW r \in rows,
                      code[r.register] # "0104", code[r.register] \in InputCodes,
                      NEW k \in 1..Listed, listing[k].ch = r.register
               PROVE  LET v     == raw[r.register]
                          range == InputRange[code[r.register]]
                      IN  r.value = listing[k].of * (range.lower * (resolution - v)
                                                       + range.upper * v)
    BY DEF ValueIsReading, Documented
  <2> DEFINE i == r.register
             range == daq_channel[i].range
             factor == listing[k].of
  <2>1. /\ i \in Registers /\ i \in Channels /\ raw[i] \in Raws
        /\ r.value = chd_raw_real_conversion(raw[i], daq_channel[i].channel_seqno)
    BY RowFacts
  <2>2. raw[i] \in Int /\ resolution \in Int /\ i \in Nat /\ at \in Int
    <3>1. raw[i] \in Int
      BY <2>1, RawNumbers
    <3>2. resolution \in Int /\ i \in Nat
      BY <2>1, ChannelsAssumption DEF Channels
    <3>3. at \in Int
      BY DEF IInv, Tables
    <3> QED
      BY <3>1, <3>2, <3>3
  <2>3. k = i + 1 /\ i < at /\ listing[k].of # Absent
    <3>1. listing[k].ch = k - 1 /\ listing[k].of # Absent
      BY DEF InOrder
    <3> QED
      BY <2>2, <3>1 DEF Listed
  <2>4. i # Absent
    BY <2>2, ChannelsAssumption
  <2>5. daq_channel[i].channel_seqno = i /\ daq_channel[i].output_factor = factor
    BY <2>1, <2>3, <2>4 DEF IInv, FromList
  <2>6. r.value = factor * (range.lower * (resolution - raw[i]) + range.upper * raw[i])
    BY <2>1, <2>2, <2>5, ValueType
  <2>7. range = InputRange[code[i]]
    BY <2>1, RangesDocumented DEF IInv, FromDevice
  <2> QED
    BY <2>6, <2>7
<1> QED
  BY <1>1, Inductive, PTL

\* The time of a row is the elapsed time to the nearest millisecond, for
\* every pair of clock readings, also where the clock was set back.
THEOREM TicksAreElapsed == Spec => []TickIsElapsed
<1>1. IInv => TickIsElapsed
  <2> SUFFICES ASSUME IInv, NEW r \in rows
               PROVE  LET ms == r.tick - 1000 * (now.tv_sec - base.tv_sec)
                          ns == now.tv_nsec - base.tv_nsec
                      IN  /\ ms * MILLI - ns <= MILLI \div 2
                          /\ ns - ms * MILLI <= MILLI \div 2
    BY DEF TickIsElapsed
  <2>1. base \in Timespec /\ now \in Timespec
    BY DEF IInv, Tables
  <2> QED
    BY <2>1, RowFacts, TickNear
<1> QED
  BY <1>1, Inductive, PTL

\* Within a shot the times never go backwards unless the clock does.
THEOREM TicksOrdered == Spec => TickOrder
<1>1. ASSUME IInv, IInv', base' = base, AtOrBefore(now, now'),
             NEW r \in rows, NEW q \in rows'
      PROVE  r.tick <= q.tick
  <2>1. base \in Timespec /\ now \in Timespec /\ now' \in Timespec
    BY <1>1 DEF IInv, Tables
  <2>2. r.tick = generate_timetick(base, now)
    BY <1>1, RowFacts
  <2>3. q.tick = generate_timetick(base, now')
    BY <1>1 DEF IInv, RowsNow, RowOf, generate_timetick, Carried, Seconds, Nanos,
       Rounded, Borrows
  <2> QED
    BY <1>1, <2>1, <2>2, <2>3, TickMonotone
<1>2. IInv /\ IInv' => [base' = base /\ AtOrBefore(now, now') =>
                          \A r \in rows, q \in rows' : r.tick <= q.tick]_vars
  BY <1>1
<1> QED
  BY <1>2, Inductive, PTL DEF TickOrder
=============================================================================
