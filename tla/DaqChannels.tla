---------------------------- MODULE DaqChannels ----------------------------
(***************************************************************************)
(* How the collector comes to know its channels, and what it makes of a    *)
(* reading.                                                                *)
(*                                                                         *)
(* The table daq_channel is filled from three sides that never meet: the   *)
(* configuration file gives the channel number and the factor, by place in *)
(* the file; the database gives the sensor, by channel number; the device  *)
(* gives the type code, by register.  A reading then takes its sensor by   *)
(* register and its range and factor by the channel number of the file.    *)
(*                                                                         *)
(* Which readings become rows is SensorRecorder's; here every reading of a *)
(* mapped channel does.  Values are exact multiples of 1/resolution.       *)
(***************************************************************************)
EXTENDS TimeTick, Sequences, FiniteSets

CONSTANTS
  TableSize,   \* entries of daq_channel and of intMOSensorSN (10 in the code)
  Amount,      \* registers read by AIVALUE and AITYPECODE (8 in the code)
  resolution,  \* the largest raw reading (2^16 - 1 in the code)
  Listings,    \* contents of adam6017_channel_type: sequences of [ch, of]
  Absent,      \* a key that an entry of the file lacks
  Sensors,     \* serial numbers of the sensors in the database
  Codes,       \* type codes the device may report
  Raws,        \* raw readings
  Times        \* readings of the clock

Channels  == 0..(TableSize - 1)
Registers == 0..(Amount - 1)

ASSUME ChannelsAssumption ==
  /\ TableSize \in Nat /\ Amount \in 1..TableSize
  /\ resolution \in Nat \ {0} /\ Raws \subseteq 0..resolution
  /\ Sensors \subseteq Nat \ {0}
  /\ Absent \notin Int
  /\ Times \subseteq Timespec

\* The lists considered are those that fit the table and whose channel
\* numbers, given or carried over from the key before, are indices of it.
ASSUME ListingsAssumption ==
  \A list \in Listings :
    /\ list \in Seq([ch : Channels \cup {Absent}, of : Int \cup {Absent}])
    /\ Len(list) <= TableSize
    /\ \A k \in 2..Len(list) :
         list[k].ch = Absent => list[k - 1].of \in Channels \cup {Absent}

VARIABLES
  pc,           \* "list", "sensors", "codes", "run" or "ended"
  listing,      \* the file's list
  at,           \* entries of it done
  intval,       \* the integer that holds each key as it is looked up
  daq_channel,  \* the table
  mapping,      \* history: the database's channel number of each sensor
  code,         \* history: the device's type codes, or <<>> if not answered
  base,         \* the time at which the shot began, 0 before the first
  now,          \* the clock, at the latest query
  raw,          \* history: the latest readings, by register
  rows          \* the rows made of them

boot    == <<listing, at, intval, daq_channel, mapping, code>>
reading == <<base, now, raw, rows>>
vars    == <<pc, listing, at, intval, daq_channel, mapping, code, base, now, raw, rows>>

-----------------------------------------------------------------------------
(* Input ranges.                                                           *)

Range(upper, lower) == [upper |-> upper, lower |-> lower]
NoRange == Range(0, 0)

\* The ranges that util.h gives for the device's type codes.
InputCodes == {"0103", "0104", "0105", "0106", "0140", "0142", "0143", "0145",
               "0147", "0148", "0181", "1080", "1082"}
InputRange ==
  [c \in InputCodes |->
    CASE c = "0103" -> Range(150, -150)
      [] c = "0104" -> Range(500, -500)
      [] c = "0105" -> Range(150, 0)
      [] c = "0106" -> Range(500, 0)
      [] c = "0140" -> Range(1, -1)
      [] c = "0142" -> Range(5, -5)
      [] c = "0143" -> Range(10, -10)
      [] c = "0145" -> Range(1, 0)
      [] c = "0147" -> Range(5, 0)
      [] c = "0148" -> Range(10, 0)
      [] c = "0181" -> Range(20, -20)
      [] c = "1080" -> Range(20, 4)
      [] c = "1082" -> Range(20, 0)]

\* The code takes the lower bound of 0104 with another minus sign.
typecode_to_input_range(c) ==
  CASE c \notin InputCodes -> NoRange
    [] c = "0104" -> Range(InputRange[c].upper, -InputRange[c].lower)
    [] OTHER -> InputRange[c]

-----------------------------------------------------------------------------
(* Start-up.                                                               *)

Cleared == [channel_seqno |-> 0, range |-> NoRange, output_factor |-> 0, MOSensorSN |-> 0]

Init ==
  /\ pc = "list"
  /\ listing \in Listings
  /\ at = 0 /\ intval \in Channels
  /\ daq_channel = [i \in Channels |-> Cleared]
  /\ mapping = <<>> /\ code = <<>>
  /\ base = [tv_sec |-> 0, tv_nsec |-> 0] /\ now = base
  /\ raw = <<>> /\ rows = {}

\* A lookup that finds nothing leaves intval as it was: the previous key's
\* value, and before the first key an uninitialised integer, of which only
\* those that are an index of the table are considered.
Looked_Unset(key, old) == IF key = Absent THEN Absent ELSE key
Looked(key, old) == IF key = Absent THEN old ELSE key

\* One entry of the list, in the order of the file, whatever its channel.
load_DAQ_channel_entry ==
  /\ pc = "list" /\ at < Len(listing)
  /\ LET entry == listing[at + 1]
         seqno == Looked(entry.ch, intval)
         of    == Looked(entry.of, seqno)
     IN  /\ daq_channel' = [daq_channel EXCEPT ![at] =
              [@ EXCEPT !.channel_seqno = seqno, !.output_factor = of,
                        !.MOSensorSN = -1]]
         /\ intval' = of
  /\ at' = at + 1
  /\ UNCHANGED <<pc, listing, mapping, code, reading>>

ListDone ==
  /\ pc = "list" /\ at = Len(listing)
  /\ pc' = "sensors"
  /\ intval' = 0
  /\ UNCHANGED <<listing, at, daq_channel, mapping, code, reading>>

\* main() does not notice that the file could not be read: the table stays
\* as it is.
FileUnreadable ==
  /\ pc = "list" /\ at = 0
  /\ pc' = "sensors"
  /\ listing' = <<>> /\ intval' = 0
  /\ UNCHANGED <<at, daq_channel, mapping, code, reading>>

\* The database's rows come in the order of the channel number, and of two
\* sensors on one channel, whose order is not defined, the later row wins.
\* Only mappings of no more sensors than the array intMOSensorSN holds are
\* considered, which has as many entries as the table: the loop that fills it
\* checks no bound.
SensorsOn(db, i) == {s \in Sensors : db[s] = i}

get_MOSensorSN_by_MOSN ==
  /\ pc = "sensors"
  /\ \E db \in [Sensors -> Channels \cup {Absent}],
        latest \in [Channels -> Sensors \cup {Absent}] :
       /\ \A i \in Channels :
            latest[i] \in IF SensorsOn(db, i) = {} THEN {Absent} ELSE SensorsOn(db, i)
       /\ Cardinality({s \in Sensors : db[s] # Absent}) <= TableSize
       /\ mapping' = db
       /\ daq_channel' = [i \in Channels |->
            IF latest[i] = Absent THEN daq_channel[i]
            ELSE [daq_channel[i] EXCEPT !.MOSensorSN = latest[i]]]
       /\ pc' = IF \A s \in Sensors : db[s] = Absent THEN "ended" ELSE "codes"
  /\ UNCHANGED <<listing, at, intval, code, reading>>

\* An unanswered query leaves every range 0.
ReadTypeCodes ==
  /\ pc = "codes"
  /\ \/ UNCHANGED <<daq_channel, code>>
     \/ \E cs \in [Registers -> Codes] :
          /\ code' = cs
          /\ daq_channel' = [i \in Channels |->
               IF i \in Registers
                 THEN [daq_channel[i] EXCEPT !.range = typecode_to_input_range(cs[i])]
                 ELSE daq_channel[i]]
  /\ pc' = "run"
  /\ UNCHANGED <<listing, at, intval, mapping, reading>>

-----------------------------------------------------------------------------
(* Readings.                                                               *)

\* An opened mold begins to close: times count from here on.
TakeBase ==
  /\ pc = "run"
  /\ \E t \in Times : base' = t /\ now' = t
  /\ raw' = <<>> /\ rows' = {}
  /\ UNCHANGED <<pc, boot>>

Collected_All(i) == TRUE
Collected(i) == daq_channel[i].MOSensorSN >= 0

ConversionIndex(i) == daq_channel[i].channel_seqno

chd_raw_real_conversion_NoOffset(value, ch_id) ==
  LET range == daq_channel[ch_id].range
  IN  value * (range.upper - range.lower) * daq_channel[ch_id].output_factor

chd_raw_real_conversion(value, ch_id) ==
  LET range == daq_channel[ch_id].range
  IN  (value * (range.upper - range.lower) + resolution * range.lower)
        * daq_channel[ch_id].output_factor

RowOf(i, value, tick) ==
  [ sensor |-> daq_channel[i].MOSensorSN, tick |-> tick, register |-> i,
    value  |-> chd_raw_real_conversion(value, ConversionIndex(i)) ]

\* One query.  The clock is the wall clock: whoever sets it may set it back.
SensorDataProcess ==
  /\ pc = "run"
  /\ \E values \in [Registers -> Raws], t \in Times :
       /\ raw' = values
       /\ now' = t
       /\ rows' = {RowOf(i, values[i], generate_timetick(base, t)) :
                     i \in {r \in Registers : Collected(r)}}
  /\ UNCHANGED <<pc, boot, base>>

Next ==
  \/ load_DAQ_channel_entry \/ ListDone \/ FileUnreadable
  \/ get_MOSensorSN_by_MOSN \/ ReadTypeCodes
  \/ TakeBase \/ SensorDataProcess

Spec == Init /\ [][Next]_vars

-----------------------------------------------------------------------------
(* Properties.                                                             *)

Entries ==
  [ channel_seqno : Int, output_factor : Int, MOSensorSN : Sensors \cup {0, -1},
    range : [upper : Int, lower : Int] ]

TypeOK ==
  /\ pc \in {"list", "sensors", "codes", "run", "ended"}
  /\ listing \in Listings \cup {<<>>} /\ at \in 0..Len(listing) /\ intval \in Int
  /\ daq_channel \in [Channels -> Entries]
  /\ base \in Timespec /\ now \in Timespec
  /\ \A r \in rows : r.sensor \in Int /\ r.tick \in Int /\ r.value \in Int

\* "select only records that MOSensorChannelSN is NOT NULL then update
\* MOSensorSN into daq_channel_config_t using MOSensorChannelSN as array
\* index MOSensorSN will be in the correct position": a row's sensor is one
\* that the database puts on the register it was read from, and every
\* register with a sensor gets a row.  Only a register the file does not
\* list gets rows of a sensor that does not exist, number 0.
Listed == at
RowsFollowMapping ==
  raw # <<>> =>
    /\ \A r \in rows :
         LET there == SensorsOn(mapping, r.register)
         IN  IF there # {} THEN r.sensor \in there
                           ELSE r.sensor = 0 /\ r.register >= Listed
    /\ \A i \in Registers :
         SensorsOn(mapping, i) # {} => \E r \in rows : r.register = i

\* "Voltage = <decimal data> / 65535 * <input range> + <input range Lower
\* bound>": a row's value is the reading of its register, in proportion to the
\* input range of its register's type code, times the factor that the file
\* gives for the channel.  Nothing is said of a register the file does not list
\* with both its keys, or whose type code util.h does not know.
Documented(r) ==
  LET v     == raw[r.register]
      c     == code[r.register]
      range == InputRange[c]
  IN  c \in InputCodes =>
        \A k \in 1..Listed :
          listing[k].ch = r.register /\ listing[k].of # Absent =>
            r.value = listing[k].of * (range.lower * (resolution - v) + range.upper * v)

\* Where the file lists the channels in their order, with both keys, and the
\* device answered for its type codes, the formula holds of every row, but for
\* code 0104: the reading, the range and the factor that meet in a row come
\* from the device, from the type code and from the file, by three indices.
InOrder == \A i \in 1..Listed : listing[i].ch = i - 1 /\ listing[i].of # Absent
ValueIsReading ==
  raw # <<>> /\ code # <<>> /\ InOrder =>
    \A r \in rows : code[r.register] # "0104" => Documented(r)

\* The time of a row is the time elapsed since the base was taken, to
\* the nearest millisecond, across the ends of seconds and rounding up to a
\* full second; a clock set back gives a negative time, rounded in the same way.
TickIsElapsed ==
  \A r \in rows :
    LET ms == r.tick - 1000 * (now.tv_sec - base.tv_sec)
        ns == now.tv_nsec - base.tv_nsec
    IN  /\ ms * MILLI - ns <= MILLI \div 2
        /\ ns - ms * MILLI <= MILLI \div 2

\* The times of a shot never go backwards, unless the clock does.
TickOrder ==
  [][base' = base /\ AtOrBefore(now, now') =>
       \A r \in rows, q \in rows' : r.tick <= q.tick]_vars

-----------------------------------------------------------------------------
(* What the comments and headers say and the code does not do.             *)

\* The formula of the comment, with the ranges of util.h, for every type code
\* and in whatever order the file lists the channels.
ValueFollowsFormula ==
  raw # <<>> /\ code # <<>> => \A r \in rows : Documented(r)
=============================================================================
