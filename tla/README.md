# A verification project for INJPRO_MbSDC

INJPRO_MbSDC (`src/ModBus/src/`) follows the mold of one injection machine over
Modbus/TCP, tells two OPC UA nodes where the mold is, and stores sensor readings
in a MySQL database while the mold is closed. Beside it the repository holds two
small programs, `read_write_DO.c` and `test.c`. Their `main()`s poll a register
of such a device; the functions they define to set registers and coils are
called by none of them at this commit (`test.c` has two `main()`s, of which the
second, 389-415, is modelled; the first repeats `read_write_DO.c`). This
directory holds TLA+ models of the three, the TLC configurations that check
them, and TLAPS proofs.

## 1. The system

All paths are under `src/`; line numbers without a file are those of
`ModBus/src/INJPRO_MbSDC.c`.

| part | code | state | operations | modelled in |
|---|---|---|---|---|
| main loop | 79-527 | `mold_status_now`, `mold_status`, `isMolding`, `intShotSN`, `timestamp_base` | poll, four handlers, collect | `MoldCycle` |
| signal decoder | 785-887 | none (gets the previous status) | `check_mold_status2` | `MoldSignal` |
| recorder | 1053-1287 | `RD_last[16]`, `realdata[]` | query, drop repeats, insert | `SensorRecorder` |
| Modbus command | 902-998 | libmodbus context | send, receive, reconnect | `ModbusCommand` |
| start and end | 149-314, 529-544, 1289-1597 | database row, configuration | register, four queries, connect, clear | `Lifecycle` |
| signals | 676-737 | `Running` | SIGINT | `MoldCycle`, `Lifecycle` |
| configuration | `ModBus/src/util.c` | structures filled once | load | a step of `Lifecycle` |
| channel table | `ModBus/src/util.c` 323-385, 307-314, 1527-1597 | `daq_channel[10]` | list, sensors, type codes | `DaqChannels` |
| conversion | 609-673, 1223-1230 | none | type code to range, raw to real | `DaqChannels` |
| time stamps | `ModBus/src/util.c` 107-139 | none | time since the base | `TimeTick` |
| register client | `read_write_DO.c` 239-317 | none | read, compare, write | `RegisterClient` |
| meter log | `read_write_DO.c` 65-75, 169-197, 332-350 | `log.txt` | read, append | `RegisterMonitor` |
| ring buffer | `test.c` 357-415 | `start`, `end`, `data` | push, print | `CircularBuffer`, `RegisterMonitor` |

How they interact. Everything in the collector runs in one thread; SIGINT only
clears `Running`. The loop calls the decoder, which calls the Modbus command;
while the last status acted upon is "closed" it calls the recorder, which calls
the Modbus command again. Around that thread move, on their own: the mold
(seen only when polled), another program that counts the shots in the
database, the OPC UA nodes and the database (calls to them may fail), the
device and the network, operators who edit the machine's row, and possibly a
second instance of the program.

The table of channels joins three sources that know nothing of each other: the
configuration file (channel number and factor, by place in the list), the
database (sensor, by channel number) and the device (type code, by register).
It is filled once at the start, and every reading goes through it.

The two small programs share no code or connection with the collector. Each is
one thread with one connection; what they share is the device, whose registers
and coils any other client may write at any time. The setting functions are
modelled as any number of callers would use them.

What is hard, and what each part has to get right:

* **Main loop.** It polls, so what it stores is measured *after* what it
  decided on. Rows must bear the shot, the time base and the comparison table
  of the cycle they are measured in; the nodes must follow the mold and never
  contradict each other, although they are written one by one; the shot number
  lives in two places; the program may start in the middle of a cycle.
* **Decoder.** Two of four positions look the same, so one wrong status may
  turn the next ones round.
* **Recorder.** What is left out must follow from what is stored, at every
  moment, and each repeated reading must be refreshed in time.
* **Modbus command.** A late answer must not pass for that of another command;
  every command must return.
* **Channel table.** A row must name the sensor that is wired to the register it
  was read from, and carry that register's range and factor, though the list in
  the file may be short, unordered, incomplete or unreadable and the device may
  not answer.
* **Time stamps.** Seconds and milliseconds are computed apart and put together
  after rounding; the clock may be set.
* **Register client.** Between the comparison and the write another client may
  write; a write reported as failed may have been carried out, or will be.
* **Ring buffer.** Full and empty must be told apart, the oldest entry must go
  and no other, and nothing may be printed before it was written.
* **Start and end.** The process id in the row must be that of a process that
  runs; a start must not go through without what collecting needs.

`PROJECT.json` lists every hazard with its line and the properties aimed at it.

## 2. Modules

Names of variables and operators are those of the code wherever it has one.
Operators `X_Something` placed before an operator `X` are plausible wrong
versions of it; nothing uses them, `PROJECT.json` ("mutants") says which
property finds each one out.

**`MoldSignal`**: the positions, the pins of both types of machine (external),
and `check_mold_status2()`. The return code is a parameter: the code takes only
0 for a failure while the command returns -1, and the model keeps that.

**`MoldCycle`**: the loop. `pc` cuts an iteration where something else can
come between: `poll` (read and decode), `handle` (one handler), `clamped` and
`released` (one node write each), `collect`. Each handler is one action: the
thread's own assignments are not observable from outside. `mold`, `done`,
`polled`, `dbShotSN` and `opc` are the world. Time and readings are abstracted
to *which cycle* they belong to: `timestamp_base` is the cycle at whose closing
the clock was read, `RD_last` the cycle the comparison table holds, and `row`
the latest rows sent, with the cycle and phase they were really measured in.
`row`, `opcLost` and `restarts` are histories. The constant `Faults` says what
may go wrong in a run.

**`MoldCycleProofs`**: theorems about `MoldCycle`, see section 5.

**`SensorRecorder`**: `SensorDataProcess()` call by call. `Query` is the device
query and the loop over the channels (`Remember`, `Emitted`), then each `Insert`
is one row. Rows carry the raw reading; the conversion is a fixed function of it
per channel. An insert that fails is given up, and `lost` remembers its channel.
A failed query processes any values at all, which is what the uninitialised
`malloc()` buffer may hold. Times are integers and increase by at least one from
query to query; the code rounds to milliseconds and a query is a network round
trip.

**`ModbusCommand`**: `do_modbus_command()` over a socket with requests on the
wire and answers not yet read. libmodbus is external: requests are numbered, the
next answer is compared with the latest number, nothing is flushed, and a
timeout leaves everything where it is. The function codes differ only in data,
so they are one, "known"; "unknown" is the path on which no branch matches.

**`DeviceRead`**: the abstract specification of a command: a value the device
held at one moment between call and return, or a failure. `ModbusCommand`
implements it (`ImplementsDeviceRead`) with the mapping `Promised`: a command is
busy while `pc` is not `idle`, and its result is the answer taken, or a failure.

**`Lifecycle`**: any number of instances for one machine's row. The row's shot
number is 1 if it has one and 0 if it is NULL or 0, which line 1512 makes the
same. A step per database call or connection, each of which may fail; a failed
update of the row is printed and ignored, and `unwritten` remembers whose it
was. The start up to the connection with MySQL is one step: a failure there
leaves no trace.

**`TimeTick`**: `generate_timetick()` on pairs of seconds and nanoseconds. The
result is an integer of milliseconds, where the code divides by 1000.0 at the
end. C's `round` is rounding half up here, since its argument is never negative.

**`DaqChannels`**: the table `daq_channel` from the cleared memory to the rows.
`load_DAQ_channel_entry` is one turn of the loop over the list: a key that is
missing leaves `intval` as the previous lookup left it. `get_MOSensorSN_by_MOSN`
answers with any assignment of sensors to channels, several on one channel
included (the later row of the answer wins, and the order among them is not
defined) but of no more sensors than `intMOSensorSN` holds; without a single one
the program ends. `InputRange` is the table of `util.h`, and
`typecode_to_input_range` takes it with the sign of line 619. `ReadTypeCodes` is
the query of the type codes with the ranges derived from them, or no answer.
`TakeBase` is the base taken at mold closing and `SensorDataProcess` one query,
with every reading of a mapped register made a row. Which of them are stored is
the subject of `SensorRecorder`. Values are exact: the code's double times
`resolution`. `MCDaqChannels` gives the lists and clock readings of the run.

**`AtomicSet`**: the abstract specification of setting a register or a coil,
for any number of callers: success means the call took effect at one instant
while it ran. **`RegisterClient`**: the three functions that read, compare and
write; they differ in what the read's failure does (a coil's is not noticed) and
in the cell. A command is one step in the device. A failed write may have been
applied, may never be, or stays in `late` until the device takes it.
`disturbed` and `blind` are histories.

**`SlidingWindow`**: the abstract specification of the latest samples of a
source. **`CircularBuffer`**: the buffer as operators on `start`, `end` and
`data`; `print_buffer` is the sequence printed. **`RegisterMonitor`** composes:
the clients write a register which one of the two loops (`program`) reads and
stores. The log program stores a reading unless it is 1, the value of
`EXIT_FAILURE`, or the file does not open (`opens`: the outcome of `fopen` is
chosen when the register is read and shows when the line is written); the end
of `log.txt` is kept to the length of the buffer.
It implements `AtomicSet` (with the late write as `stray` and the phase of a
call from `pc` and `rc`), and `SlidingWindow` in two ways that promise different
things. `SamplesRegister`: what the ring prints, with the word read and not yet
stored, are *all* the latest successful reads. `LogTruthful`: the log's lines,
with such a word unless it is 1 or the file does not open, are words read, in
order. The mapping of the second leaves out readings of 1 on purpose, and the
property claims no more than that: the log loses every one of them (section 6).

**`MoldFollowProofs`**, **`SensorRecorderProofs`**, **`LifecycleProofs`**,
**`ModbusCommandProofs`**, **`DaqChannelsProofs`**, **`RegisterClientProofs`**,
**`RegisterMonitorProofs`**: theorems about the modules, see section 5.

How the modules fit together. `MoldCycle` and `SensorRecorder` take a query for
one step in which the device is read, or a failure: that is `DeviceRead`, which
the command with all its reconnections implements, so their polls are atomic by
theorem. `SensorRecorder!Reset` assumes that the comparison table is cleared at
the start of every shot and that a shot's readings are timed from one base:
that is what `MoldCycle!RowsAttributed` states and `MoldFollowProofs` proves
(`against` and `base` of a row). A late answer makes commands fail
(`BacklogStays`) and so becomes the faults "read" and "query" of the two.

No module has a RECURSIVE operator.

## 3. Runs

| run | instance | shows |
|---|---|---|
| `cycle_single` | single loop, any starting phase, 3 cycles from shot 65534, two crashes and restarts, a late shot counter, failing queries and node writes | `TypeOK`, `RowsAttributed`, `NoShotSkipped`, `OpcNeverBoth`, `NeverAheadOfDb` |
| `cycle_multi` | multi loop, first seen opened or opening, 3 cycles from shot 65534, failing queries and node writes, fairness | `RowsAttributed`, `DecodeFollowsMold`, `OpcTracksMold`, `EveryShotCollected`, `SigintStops` |
| `recorder` | 2 channels, 2 values, 4 queries a shot, inserts may fail | `TypeOK`, `RowsFit`, `RowsTruthful`, `EdgesKept`, `InterpolationExact`, `ReadingsRecoverable`, `HeartbeatInTime` |
| `modbus` | 2 reconnections, request numbers modulo 4, 3 outstanding | `TypeOK`, `ReadIsFresh`, `SuccessDrains`, `BacklogStays`, `RetriesRunOut`, `CommandReturns`, `ImplementsDeviceRead` |
| `meter` | 2 clients, 2 calls in all, words 0, 1 and 2, buffer of 3 entries, either program | `TypeOK`, `ImplementsAtomicSet`, `WriteNeeded`, `CallsReturn`, `SamplesRegister`, `LogTruthful` |
| `channels` | table of 3, 2 registers, 6 lists, 2 sensors, 4 type codes, 6 clock readings | `TypeOK`, `RowsFollowMapping`, `ValueIsReading`, `TickIsElapsed`, `TickOrder` |
| `lifecycle` | 2 instances, 2 orders of which 1 has sensors, 1 edit, all four faults | `TypeOK`, `StaleOnlyAfterFailure`, `CollectorIsNamed`, `CollectsForSensors`, `StopsWhenTold` |
| `collect_while_open` | multi loop, any starting phase, no fault | **violated**: started closed, the loop collects from an open mold |
| `failed_pin_read` | multi loop, reads may fail | **violated**: a failed read moves the status on |
| `failed_query` | queries may fail | **violated**: an uninitialised buffer is stored |
| `negated_bound` | as `channels`, 2 type codes | **violated**: a reading of type code 0104 becomes the constant 500 times its factor |
| `starts_without_shot` | 1 instance, no fault | **violated**: the loop is reached without a shot number |

Why the bounds are enough. In `MoldCycle` everything a cycle hands to the next
(status, `isMolding`, base, table, shot number) is overwritten within the next
one, so two cycles show every hand-over and three show it after one that was
itself handed over; the crash may fall anywhere, and from 65534 the third shot
is the one whose stored number wraps. In `SensorRecorder` channels do not
interact except through the order of the inserts, which two show; four queries
contain a change, a run of repeats, a periodic row and a change after it. In
`ModbusCommand` request numbers must exceed the requests outstanding, which is
the module's assumption (the library's are modulo 2^16), and a limit of two
reconnections exercises both the first and the last. In `Lifecycle` two
instances overlap or follow each other, and the second order is one without
sensors. In `RegisterMonitor` two calls of two callers give every interleaving
of a read and a write with another's write, and a second call meets a write of
the first that is late; three words are two that tell "differs" from "same" and
the 1 of a failure; a buffer of three entries holds two, wraps, and drops the
oldest on every later push. The third function,
`set_input_channel_enable_status`, is `set_value_to_register` step by step, so
the run leaves it out and the proofs have it. In `DaqChannels` the lists are all
the channels, too few, in the wrong order, and with either key missing; one
entry of the table is not a register; the codes have a negative, a positive and
a wrongly negated lower bound and an unknown one; the clock readings round down,
up and up to a full second, with and without a borrow, and may go back.
Unordered lists are checked for `RowsFollowMapping` and the times.
`ValueIsReading` speaks of ordered lists, of answered type codes and of every
code but 0104: the formula of the comment at 551 fails elsewhere.
`ValueFollowsFormula` is that formula without these restrictions, and
`negated_bound` its violation; with an unordered list it is violated as well, by
the range of another channel.

What limits the passing runs, and why:

* `cycle_multi` does not start with the mold closed or closing: started closed,
  `RowsAttributed` is false for the reason `collect_while_open` shows.
  `cycle_single` does start anywhere: a single-loop machine at rest is taken
  for an opened one.
* The runs of `MoldCycle` that must pass have a poll in every phase and every
  read of the pins answered: the faults "miss" and "read" are absent.
  `TypeOK`, `OpcNeverBoth`, `NeverAheadOfDb` and `StatusCoherent` are proved
  with those faults too; the others need their absence (section 5).
  `failed_pin_read` has failing reads.
* `RowsAttributed` says as much of a shot number as the faults of the run leave
  true (`ShotsOf`): with a late counter it may be an earlier one, and if queries
  may fail, 0. In no case is it a failed number carried into the next cycle.
  `cycle_multi` has a counter that is in time, so there every number is exact or
  0. That every number is exact without either fault is a case of the theorem.
* `StatusCoherent` is proved and not listed in a run: the other properties of the
  status say more.
* `EveryShotCollected` says that the query of the cycle is made and its rows are
  handed on, not that the inserts succeed: that is the recorder's part.
* After a failed insert the recorder's completeness properties (all but the
  first three) speak of the channels that lost nothing, `Intact`: no code
  retries an insert. `RowsTruthful` and `RowsFit` hold for all channels.
* `recorder` has no failing query: with one, rows are no readings at all, which
  `failed_query` shows.
* `CollectorIsNamed` excepts instances that ran beside another one and those
  whose registration failed, `StaleOnlyAfterFailure` those that could not clear
  the row: nothing in the code could do better, and both say exactly when the
  row can be trusted.

## 4. Fairness

`MoldCycle!FairSpec` asks for weak fairness of the loop as a whole: the process
is scheduled and no call blocks for ever (the command returns, which
`CommandReturns` checks; queries and node writes fail or succeed). The mold,
the shot counter, SIGINT and restarts get none. `ModbusCommand!FairSpec` asks
it of the steps of the command only: each library call ends at its response
timeout. `Lifecycle!FairSpec` asks it of each instance's own steps; start, kill
and SIGINT get none. None of these needs strong fairness.

`modbus` checks for deadlock. The other systems really stop: the bounded mold
comes to rest and the program exits; the bounded shot ends; every instance has
ended; `channels` ends where no sensor is found. `meter` checks for deadlock.

`RegisterMonitor!FairSpec` asks weak fairness of each client's own steps: every
command is answered or times out. No fairness is asked of new calls, of late
writes or of the monitor, and weak fairness is enough because no step of
another client ever disables one of these.

## 5. Proofs

`MoldCycleProofs` proves, for every value of the constants that satisfies
`MoldCycleAssumption` (any loop type, starting phases, fault set, shot number
and bounds):

* `DecodeExact`: a poll is decoded to exactly the phase the mold is in, on both
  types of machine: with a pin high whatever the status before, with both pins low
  if the status before was the phase at the previous poll and no phase was missed.
* `TypeCorrect`: `Spec => []TypeOK`.
* `StatusesCohere`: `[]StatusCoherent`. The invariant is inductive together with
  the types: a handler ends with the status it was given, except the two that
  ignore a status outside a shot, and those find `isMolding` 0.
* `ShotNumberBounded`: `[]NeverAheadOfDb`. Strengthened with `DbFollowsMold`
  (the database is never ahead of the cycles completed), which makes the
  database's number monotonic although the counter may lag or keep pace.
* `NodesNeverBoth`: `[]OpcNeverBoth`. The inductive invariant is `OpcOrdered`:
  each node is raised only while the other is low or its last write was lost,
  because closing lowers "released" before closed raises "clamped", and opened
  lowers "clamped" before it raises "released".
* `StatusNeedsPins`: `StatusAgreesWithPins` if reads of the pins do not fail,
  though phases are missed and the past status is wrong. By `DecodeAgrees` a
  wrong past only ever confuses two positions with the same pins. So a failed
  read is the only cause of what `failed_pin_read` shows.

`MoldFollowProofs` proves what the loop promises when it misses no phase, under
one assumption, `PhasesSeen`: no phase passes without a poll and the pins are
read, a single loop may be killed and started at any moment and phase, a multi
loop starts opened or opening (`collect_while_open` shows why) and is not killed.
Node writes and shot number queries may always fail, and the counter be late.

The inductive invariant `Follows` has, beside `PhasesSeen`, five parts:
`Decoded` (the latest status is the phase of the latest poll, and the status
acted upon is that one or, before its handler, the one before), `Kept` (base,
table and shot number belong to the cycle under way), `Nodes` (the nodes say
what the status acted upon says, up to the write under way), `Collected` (a mold
seen to close has its row before the next poll) and `RowsAttributed` itself.
Neither the rows nor the nodes could be proved from the status alone: a handler
may read the base it finds, so the invariant has to say which cycle left it.

* `RowsBelongToCycle`: `[]RowsAttributed`, for any shot number, wrapping included.
  `DbCounts` says what the database may hold, `Kept` that the local number is one
  of `ShotsOf` the cycle under way.
* `CollectsInside`: `[]CollectsOnlyWhileClosed`, so that the start on a closed or
  closing multi loop is what `collect_while_open` needs.
* `ShotsHaveRows`: `[]NoShotSkipped`, the safety half of `EveryShotCollected`.
* `DecodedIsPhase`: `[]DecodeFollowsMold` on a multi loop; `DecodedOnceTold`: on
  both types, from the first closing or opened that is acted upon.
* `NodesTrackMold`: `[]OpcTracksMold`.

`SensorRecorderProofs` proves, for any number of channels, values, samples, any
period and any gap between queries:

* `TypeCorrect` and `RowsAlwaysFit`: `[]RowsFit`. The invariant is `TwoPerChannel`
  (at most one pending row of a channel is of the latest query and at most one
  is not), and an injection of the pending rows into `0..2*amount-1` gives the
  bound. It rests on `TableMatches` (the table of previous readings holds the
  latest sample and its time, or is cleared before the first) and `Delivered`
  (nothing is pending when a call starts).
* `EdgesAlwaysKept`: `[]EdgesKept`. Strengthened with `LatestKept`: a latest
  reading not remembered as a repeat is already a row. One remembered as a
  repeat becomes a row at the change, because `TableMatches` says the row made
  from the table is that of the latest sample.
* `InterpolationAlwaysExact`: `[]InterpolationExact`. `LogExact` says it of the
  rows stored or pending (`Log`); `TailKnown`, which its induction needs, that
  since the latest of them every sample repeats it, so that a row added next
  closes a gap of equal readings. The same gap stays closed while rows are
  inserted one by one, because they are inserted in the order of their times
  (`InOrder`) and times ascend (`Ascending`): a row that is missing from the table
  is later than those that are there.
* `NothingLost`: `[]ReadingsRecoverable`. `AllTold` is that statement about stored
  and pending rows. A query adds rows of its own sample and of the one before at
  most, so that the row by which any older sample is told stays the same.
* `HeartbeatAlwaysInTime`: `[]HeartbeatInTime`. `Beats` ties `dup_start` to the
  rows: it is the time of the first sample, or within one gap after a row's
  time, and the period has not run out since, unless the latest sample has a
  row. As an invariant it is the same after any number of periods: nothing
  drifts.
* `RowsAlwaysTruthful`: `[]RowsTruthful` if queries do not fail, the assumption
  `failed_query` shows to be needed. The invariant adds that every sample is
  measured.

`LifecycleProofs` proves, for any number of instances and under every fault,
`TypeCorrect`, `CollectorNamed` (`[]CollectorIsNamed`), `StaleExplained`
(`[]StaleOnlyAfterFailure`) and `SensorsChecked` (`[]CollectsForSensors`). The
second needs more than the loop: `NamedWhileServed` says an instance is named
from its registration to its end unless excused, and `OverlapKnown` that two
instances alive at once are both recorded as overlapping, so that nobody
unrecorded can clear or take the row of another. `ShotKnown` proves
`CollectsForShot`, which `starts_without_shot` violates, under two assumptions:
`OrderStands`, nobody edits the order while an instance is between its queries
for the order and for the shot number, and `ShotNumbered`, the row has a shot
number, neither NULL nor 0, when it is queried. Either cause alone suffices for
the violation. Edits at all other times, failing queries and overlapping
instances do no harm; an instance without an order also comes through the query
for the shot number without one, and is stopped only by the query for the
sensors, which is why the proof rests on that of `SensorsChecked`.

`ModbusCommandProofs` proves, for every limit of reconnections, modulus and
backlog below it, all six safety properties of a command, the refinement
`CommandsRead` (`Spec => ImplementsDeviceRead`) among them. The invariant
`Numbered` says that the answers in the socket and the requests on the wire, one
after the other, bear the latest numbers without a gap and end with the number
of the latest request. So the first answer has that number only if nothing else
is outstanding (as long as the modulus exceeds the backlog, the module's
assumption), which gives `ReadIsFresh` and `SuccessDrains`. `Versions` bounds
the value of each answer by the version at the call when its request is the
latest. `CommandsRunOut` (`Spec => RetriesRunOut`) is the part of
`CommandReturns` that needs no fairness: `StepsLeft` is a natural number, at
most `3 * MaxReconn + 2`, that each step of the command decreases and nothing
else changes while it runs.

`DaqChannelsProofs` proves, for every table size, list, resolution, set of
sensors and clock, the five properties of the run `channels`, `ValueIsReading`
with its restrictions: `RangesDocumented` is that every code but 0104 gets the
range of `util.h`, and code 0104 does not. The invariant describes
each entry of the table by its three sources (`FromList`, `FromDatabase`,
`FromDevice`), `Carries` that what a missing key takes over is an index, and
`RowsNow` that rows are made of the present table. The lemmas about `TimeTick`
(rounding errs by half a millisecond at most, the carry keeps the number of
milliseconds) are about all integers.

`RegisterMonitorProofs`, on the lemmas of `RegisterClientProofs`, proves for any
number of clients, calls and words and every buffer size from 2 the types,
`SetsAreAtomic` (`Spec => ImplementsAtomicSet`), `WritesNeeded`, `BufferSamples`
(`Spec => SamplesRegister`, the ring) and `LogSamples` (`Spec => LogTruthful`, the
log). The instant at which a call takes effect is its
write, or its read when the word is already there. The invariant of a client
says that between its read and its write the cell still differs from the word
wanted, unless another client changed it (`disturbed`) or it was never read
(`blind`). A push is a slide of what is printed: the slot of the k-th printed
entry is computed without division, and the one free slot keeps the slots of
the printed entries and `end` apart.

Assumptions are only the named ones on constants and those that a theorem
states: `PhasesSeen`, that reads of the pins do not fail (`StatusNeedsPins`),
that queries do not fail (`RowsAlwaysTruthful`), and `OrderStands` and
`ShotNumbered` (`ShotKnown`). Every invariant, action property and refinement of
a passing run is proved; for the property of each violated run a condition is
proved under which it holds, and the run shows that it does not hold without it.
Model-checked only: the five liveness properties (`EveryShotCollected`,
`SigintStops`, `CommandReturns`, `StopsWhenTold`, `CallsReturn`), which need
fairness and ENABLED and are out of the proof system's reach.

## 6. Disagreements between the code and its own words

The five violated runs are described under "findings" in `PROJECT.json`. Met
while modelling, and not given a run:

* The comment at 907-911 says the loop of `do_modbus_command()` does not stop
  until the message is sent; line 995 gives up after 20 reconnections (as the
  comment at 900 says).
* A row's shot number is a `uint16_t` (`INJPRO_MbSDC.h:36`): shot 65536 is stored
  as 0. `MoldCycle!ShotField` models it, and `RowsAttributed` says of a row that
  its number is the true one modulo 2^16, no more.
* A failed shot number query at mold closing (385) makes the shot number of that
  cycle 0 (`RowsAttributed` says that it costs no other cycle its number).
* The order number is read once; a change of order needs a restart.
* A repeated reading stored because it was due, followed at once by a change, is
  inserted twice (1113 and 1151); the model's table is a set.
* Readings that are 0 from the start are stored only when due (1110).
* The test of the returned range at 670 compares the pointers.
* A failed type code query leaves all ranges 0 to 0 (309), so all values are 0
  for the whole run; the model takes the step, and nothing in the repository
  says what should happen instead.
* The comment at 1047 says the sensors "will be in the correct position"; that
  is true of the sensors (`RowsFollowMapping`), but range and factor are looked up
  by the channel number of the file, which is the register only if the list is
  in order. A register that is not listed keeps the number 0 from the `memset`
  and is stored as sensor 0, since only negative numbers are skipped.
* The example of a channel list in `ModBus/src/util.h` (above `is_file_exists`)
  gives no `ch`; the code then takes the factor of the entry before for the
  channel number (`util.c:361`; `channels` has such a list).
* The comment above `set_value_to_register` (`read_write_DO.c:261`) promises 1, 0
  and -1; the function returns 0 and 1, with 0 for success.
* A word 1 in the polled register is never logged (`read_write_DO.c:69`), since
  a failed read is reported as 1: `LogTruthful` promises nothing of such readings.
  Comments at 165-166 note that outcome and value should be told apart.
* `set_value_to_coil` may report success for a coil it neither read nor wrote
  (242), if the allocated byte happens to hold the state wanted; `AtomicSet`
  permits it (`Assume`).
* Nothing keeps a second instance from starting, and its end clears the row of the
  first (213); the properties of the row except instances that overlap.
* Times come from `CLOCK_REALTIME` (416): setting the clock moves them.
* After one late answer every command fails until the connection is lost
  (`BacklogStays`), since bad data is not a reason to reconnect (949).

## 7. Not modelled

Formatting, logging and printing; the SQL text; the strings of the
configuration and `load_config()`, whose keys and defaults no property tells
apart (the command tags are compared up to the length of the tag in the file,
so a short tag matches a longer name, 179); SIGHUP and SIGUSR1 (no effect);
`get_IMMSN_by_OPCUAIP`, `get_MOSensorTableSN_by_MOSN_ShotSN` and the voltage
reading of `read_write_DO.c` (not called); memory that is not freed; the generated
build files, the editor settings, the table of device addresses and the recorded
`log.txt`. `libmodbus` is present only as headers and a binary and is modelled from
how the code uses it.

Left out of `DaqChannels` because nothing can be said of the program afterwards:
a list longer than the table, more mapped sensors than `intMOSensorSN[10]` holds
(1574 writes it without a bound), a channel number outside the table in the file
or the database, and an entry without a `type` (the string copied is then an
uninitialised pointer). `ListingsAssumption` and the channels the database may
answer with say so. The conversion is exact here; the code's doubles are exact
to far more places than a reading has.

In `SensorRecorder` time only increases: a clock set back during a shot makes
the period of repeated rows longer or shorter by as much, and is modelled in
`DaqChannels` for the time stamps alone.

## 8. Plan

Done: every component whose behaviour is in the source has its module. What
would add most next:

1. `Collector`: the loop, the command and the recorder over one connection in
   one module; at present the pieces are joined by the refinement to `DeviceRead`
   and by the assumptions each module discharges for the next (section 2).
2. The recorder over a clock that may be set back.
