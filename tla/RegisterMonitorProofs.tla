------------------------- MODULE RegisterMonitorProofs -------------------------
(***************************************************************************)
(* Proofs about RegisterMonitor: the circular buffer is a sliding window,  *)
(* for every size, the log is one of the readings it can tell from a       *)
(* failure, and the clients keep their promise, for any number of them,    *)
(* whatever the words.                                                     *)
(***************************************************************************)
EXTENDS RegisterMonitor, RegisterClientProofs, SequenceTheorems

-----------------------------------------------------------------------------
(* The buffer.                                                             *)

LEMMA SizeType == BUFFER_SIZE \in Nat /\ BUFFER_SIZE >= 2
  BY BufferAssumption

\* The remainder, without a division.
LEMMA Wraps ==
  ASSUME NEW i \in Nat, i < 2 * BUFFER_SIZE
  PROVE  i % BUFFER_SIZE = IF i < BUFFER_SIZE THEN i ELSE i - BUFFER_SIZE
  BY SizeType

LEMMA StepValue ==
  ASSUME NEW i \in Index
  PROVE  /\ Step(i) = IF i = BUFFER_SIZE - 1 THEN 0 ELSE i + 1
         /\ Step(i) \in Index
<1>1. i \in Nat /\ i < BUFFER_SIZE
  BY SizeType DEF Index
<1>2. (i + 1) % BUFFER_SIZE = IF i + 1 < BUFFER_SIZE THEN i + 1 ELSE i + 1 - BUFFER_SIZE
  BY <1>1, SizeType, Wraps
<1> QED
  BY <1>1, <1>2, SizeType DEF Step, Index

\* The slot of the k-th printed entry.
Slot(s, k) ==
  IF s + k - 1 < BUFFER_SIZE THEN s + k - 1 ELSE (s + k - 1) - BUFFER_SIZE

LEMMA SlotValue ==
  ASSUME NEW s \in Index, NEW k \in 1..BUFFER_SIZE
  PROVE  (s + k - 1) % BUFFER_SIZE = Slot(s, k)
<1> DEFINE i == s + k - 1
<1>1. i \in Nat /\ i < 2 * BUFFER_SIZE
  BY SizeType DEF Index
<1> HIDE DEF i
<1>2. i % BUFFER_SIZE = IF i < BUFFER_SIZE THEN i ELSE i - BUFFER_SIZE
  BY <1>1, Wraps
<1> QED
  BY <1>2 DEF Slot, i

\* The number of entries between two indices.
UsedOf(s, e) == IF s <= e THEN e - s ELSE e - s + BUFFER_SIZE

LEMMA UsedBound ==
  ASSUME NEW s \in Index, NEW e \in Index
  PROVE  UsedOf(s, e) \in Nat /\ UsedOf(s, e) < BUFFER_SIZE
  BY SizeType DEF UsedOf, Index

\* What is printed, for any indices and contents.
PrintOf(s, e, d) == [k \in 1..UsedOf(s, e) |-> d[Slot(s, k)]]

LEMMA Printed ==
  ASSUME NEW s \in Index, NEW e \in Index, NEW d
  PROVE  [k \in 1..UsedOf(s, e) |-> d[(s + k - 1) % BUFFER_SIZE]] = PrintOf(s, e, d)
<1>1. UsedOf(s, e) \in Nat /\ UsedOf(s, e) < BUFFER_SIZE
  BY UsedBound
<1>2. ASSUME NEW k \in 1..UsedOf(s, e)
      PROVE  (s + k - 1) % BUFFER_SIZE = Slot(s, k)
  <2>1. k \in 1..BUFFER_SIZE
    BY <1>1, SizeType
  <2> QED
    BY <2>1, SlotValue
<1> QED
  BY <1>2 DEF PrintOf

LEMMA PrintedType ==
  ASSUME BufferTypeOK
  PROVE  /\ print_buffer = PrintOf(start, end, data)
         /\ print_buffer \in Seq(Entries \cup {Unwritten})
         /\ Len(print_buffer) = UsedOf(start, end)
<1>1. start \in Index /\ end \in Index
  BY DEF BufferTypeOK
<1>2. print_buffer = PrintOf(start, end, data)
  BY <1>1, Printed DEF print_buffer, Used, UsedOf
<1>3. UsedOf(start, end) \in Nat /\ UsedOf(start, end) < BUFFER_SIZE
  BY <1>1, UsedBound
<1>4. \A k \in 1..UsedOf(start, end) : data[Slot(start, k)] \in Entries \cup {Unwritten}
  BY <1>1, <1>3, SizeType DEF BufferTypeOK, Index, Slot
<1>5. print_buffer \in [1..UsedOf(start, end) -> Entries \cup {Unwritten}]
  BY <1>2, <1>4 DEF PrintOf
<1> QED
  BY <1>2, <1>3, <1>5

\* A sequence with one more entry, as a function.
LEMMA AppendFunction ==
  ASSUME NEW S, NEW w \in Seq(S), NEW v \in S
  PROVE  /\ Append(w, v) = [k \in 1..(Len(w) + 1) |-> IF k <= Len(w) THEN w[k] ELSE v]
         /\ Append(w, v) \in Seq(S)
         /\ Len(Append(w, v)) = Len(w) + 1
<1> DEFINE a == Append(w, v)
<1>1. /\ a \in Seq(S) /\ Len(a) = Len(w) + 1 /\ Len(w) \in Nat
      /\ \A i \in 1..Len(w) : a[i] = w[i]
      /\ a[Len(w) + 1] = v
  BY AppendProperties, LenProperties
<1> HIDE DEF a
<1>2. a = [k \in 1..(Len(w) + 1) |-> a[k]]
  BY <1>1, LenProperties
<1>3. \A k \in 1..(Len(w) + 1) : a[k] = IF k <= Len(w) THEN w[k] ELSE v
  BY <1>1
<1>4. a = [k \in 1..(Len(w) + 1) |-> IF k <= Len(w) THEN w[k] ELSE v]
  BY <1>2, <1>3
<1> QED
  BY <1>1, <1>4 DEF a

\* A push is a slide of what is printed.
LEMMA PushSlides ==
  ASSUME BufferTypeOK, NEW v \in Entries, buffer_push(v)
  PROVE  BufferTypeOK' /\ print_buffer' = Slid(print_buffer, v)
<1> DEFINE w == print_buffer
           S == Entries \cup {Unwritten}
           u == UsedOf(start, end)
<1>1. BufferTypeOK'
  BY StepValue DEF BufferTypeOK, buffer_push
<1>2. /\ w \in Seq(S) /\ Len(w) = u /\ v \in S
      /\ u \in Nat /\ u < BUFFER_SIZE
      /\ \A k \in 1..u : w[k] = data[Slot(start, k)]
  BY PrintedType, UsedBound DEF BufferTypeOK, PrintOf
<1>3. print_buffer' = PrintOf(start', end', data')
  <2>1. start' \in Index /\ end' \in Index
    BY <1>1 DEF BufferTypeOK
  <2>2. print_buffer' = [k \in 1..UsedOf(start', end') |->
                           data'[(start' + k - 1) % BUFFER_SIZE]]
    BY DEF print_buffer, Used, UsedOf
  <2> QED
    BY <2>1, <2>2, Printed
<1>4. /\ start \in Nat /\ end \in Nat /\ start < BUFFER_SIZE /\ end < BUFFER_SIZE
      /\ data' = [data EXCEPT ![end] = v]
      /\ DOMAIN data = Index
      /\ end' = IF end = BUFFER_SIZE - 1 THEN 0 ELSE end + 1
      /\ start' = IF buffer_is_full
                    THEN IF start = BUFFER_SIZE - 1 THEN 0 ELSE start + 1
                    ELSE start
      /\ buffer_is_full <=> (IF end = BUFFER_SIZE - 1 THEN 0 ELSE end + 1) = start
  BY StepValue, SizeType DEF BufferTypeOK, buffer_push, buffer_is_full, Index
<1>5. \A i \in Index : data'[i] = IF i = end THEN v ELSE data[i]
  BY <1>4
<1> HIDE DEF w, S
<1>6. CASE ~buffer_is_full
  <2>1. UsedOf(start', end') = u + 1 /\ u < BUFFER_SIZE - 1 /\ start' = start
    BY <1>4, <1>6, SizeType DEF UsedOf
  <2>2. \A k \in 1..(u + 1) :
          data'[Slot(start, k)] = IF k <= u THEN data[Slot(start, k)] ELSE v
    BY <1>2, <1>4, <1>5, <2>1, SizeType DEF Slot, Index, UsedOf
  <2>3. print_buffer' = [k \in 1..(u + 1) |-> IF k <= u THEN w[k] ELSE v]
    BY <1>2, <1>3, <2>1, <2>2 DEF PrintOf
  <2>4. Append(w, v) = [k \in 1..(u + 1) |-> IF k <= u THEN w[k] ELSE v]
    BY <1>2, AppendFunction
  <2> QED
    BY <1>1, <1>2, <2>1, <2>3, <2>4, SizeType DEF Slid, Capacity, w
<1>7. CASE buffer_is_full
  <2>1. UsedOf(start', end') = u /\ u = BUFFER_SIZE - 1
    BY <1>4, <1>7, SizeType DEF UsedOf
  <2>2. \A k \in 1..u :
          data'[Slot(start', k)] = IF k < u THEN data[Slot(start, k + 1)] ELSE v
    BY <1>2, <1>4, <1>5, <1>7, <2>1, SizeType DEF Slot, Index
  <2>3. print_buffer' = [k \in 1..u |-> IF k < u THEN w[k + 1] ELSE v]
    BY <1>2, <1>3, <2>1, <2>2 DEF PrintOf
  <2>4. w # <<>> /\ Tail(w) \in Seq(S) /\ Len(Tail(w)) = u - 1
        /\ \A k \in 1..(u - 1) : Tail(w)[k] = w[k + 1]
    BY <1>2, <2>1, SizeType, HeadTailProperties
  <2>5. Append(Tail(w), v) = [k \in 1..u |-> IF k < u THEN w[k + 1] ELSE v]
    <3> DEFINE x == Tail(w)
    <3>1. x \in Seq(S) /\ Len(x) = u - 1 /\ \A k \in 1..(u - 1) : x[k] = w[k + 1]
      BY <2>4
    <3> HIDE DEF x
    <3>2. Append(x, v) = [k \in 1..((u - 1) + 1) |-> IF k <= u - 1 THEN x[k] ELSE v]
      BY <1>2, <3>1, AppendFunction
    <3>3. Append(x, v) = [k \in 1..u |-> IF k < u THEN w[k + 1] ELSE v]
      BY <1>2, <3>1, <3>2
    <3> QED
      BY <3>3 DEF x
  <2> QED
    BY <1>1, <1>2, <2>1, <2>3, <2>5, SizeType DEF Slid, Capacity, w
<1> QED
  BY <1>6, <1>7

-----------------------------------------------------------------------------
(* The monitor.                                                            *)

LEMMA WordsEntries == Entries = Words /\ 0 \in Words /\ 1 \in Words
  BY EntriesAssumption, ClientAssumption

IMonitor ==
  /\ IClient
  /\ BufferTypeOK
  /\ program \in {"ring", "log"} /\ at \in {"read", "store"}
  /\ record \in Words /\ opens \in BOOLEAN
  /\ lines \in Seq(Words) /\ Len(lines) <= Capacity

\* A slide keeps a window a window.
LEMMA SlideTyped ==
  ASSUME NEW w \in Seq(Words), Len(w) <= Capacity, NEW v \in Words
  PROVE  Slid(w, v) \in Seq(Words) /\ Len(Slid(w, v)) <= Capacity
<1>1. Capacity \in Nat /\ Capacity >= 1 /\ Len(w) \in Nat
  BY SizeType, LenProperties DEF Capacity
<1>2. CASE Len(w) < Capacity
  BY <1>1, <1>2, AppendFunction DEF Slid
<1>3. CASE Len(w) = Capacity
  <2> DEFINE x == Tail(w)
  <2>1. w # <<>>
    BY <1>1, <1>3
  <2>2. x \in Seq(Words) /\ Len(x) = Len(w) - 1
    BY <2>1, HeadTailProperties
  <2>3. Slid(w, v) = Append(x, v)
    BY <1>1, <1>3 DEF Slid
  <2> HIDE DEF x
  <2> QED
    BY <1>1, <1>3, <2>2, <2>3, AppendFunction
<1> QED
  BY <1>1, <1>2, <1>3

\* The log's end is a window too: a line appended to a full end gives up its
\* first line, which is the slide's way of doing it the other way round.
LEMMA LogSlides ==
  ASSUME NEW w \in Seq(Words), Len(w) <= Capacity, NEW v \in Words
  PROVE  LatestLines(Append(w, v)) = Slid(w, v)
<1> DEFINE a == Append(w, v)
<1>1. Capacity \in Nat /\ Capacity >= 1 /\ Len(w) \in Nat
  BY SizeType, LenProperties DEF Capacity
<1>2. /\ a \in Seq(Words) /\ Len(a) = Len(w) + 1
      /\ \A k \in 1..Len(w) : a[k] = w[k]
      /\ a[Len(w) + 1] = v
  BY AppendProperties
<1> HIDE DEF a
<1>3. CASE Len(w) < Capacity
  BY <1>1, <1>2, <1>3 DEF LatestLines, Slid, a
<1>4. CASE Len(w) = Capacity
  <2> DEFINE t == Tail(w)
             b == Append(t, v)
             c == Tail(a)
  <2>1. /\ t \in Seq(Words) /\ Len(t) = Len(w) - 1
        /\ \A k \in 1..Len(t) : t[k] = w[k + 1]
    <3>1. w # <<>>
      BY <1>1, <1>4
    <3> QED
      BY <3>1, HeadTailProperties
  <2>2. /\ c \in Seq(Words) /\ Len(c) = Len(w)
        /\ \A k \in 1..Len(c) : c[k] = a[k + 1]
    <3>1. a # <<>>
      BY <1>1, <1>2
    <3> QED
      BY <1>2, <3>1, HeadTailProperties
  <2> HIDE DEF t, c
  <2>3. /\ b \in Seq(Words) /\ Len(b) = Len(w)
        /\ \A k \in 1..Len(t) : b[k] = t[k]
        /\ b[Len(t) + 1] = v
    BY <1>1, <2>1, AppendProperties
  <2> HIDE DEF b
  <2>4. \A k \in 1..Len(w) : b[k] = c[k]
    <3> SUFFICES ASSUME NEW k \in 1..Len(w) PROVE b[k] = c[k]
      OBVIOUS
    <3>1. CASE k < Len(w)
      <4>1. k \in 1..Len(t) /\ k + 1 \in 1..Len(w) /\ k \in 1..Len(c)
        BY <1>1, <2>1, <2>2, <3>1
      <4>2. b[k] = w[k + 1] /\ c[k] = a[k + 1] /\ a[k + 1] = w[k + 1]
        BY <1>2, <2>1, <2>2, <2>3, <4>1
      <4> QED
        BY <4>2
    <3>2. CASE k = Len(w)
      <4>1. Len(t) + 1 = k /\ k \in 1..Len(c)
        BY <1>1, <2>1, <2>2, <3>2
      <4>2. b[k] = v /\ c[k] = a[k + 1] /\ a[k + 1] = v
        BY <1>2, <2>2, <2>3, <3>2, <4>1
      <4> QED
        BY <4>2
    <3> QED
      BY <1>1, <3>1, <3>2
  <2>5. b = c
    BY <2>2, <2>3, <2>4, SeqEqual
  <2>6. LatestLines(a) = c /\ Slid(w, v) = b
    <3>1. Len(a) > Capacity /\ ~(Len(w) < Capacity)
      BY <1>1, <1>2, <1>4
    <3>2. LatestLines(a) = c
      BY <3>1 DEF LatestLines, c
    <3>3. Slid(w, v) = b
      BY <3>1 DEF Slid, b, t
    <3> QED
      BY <3>2, <3>3
  <2> QED
    BY <2>5, <2>6 DEF a
<1> QED
  BY <1>1, <1>3, <1>4

LEMMA InitMonitor == Init => IMonitor
<1> SUFFICES ASSUME Init PROVE IMonitor
  OBVIOUS
<1>1. BufferTypeOK
  BY SizeType DEF Init, buffer_init, BufferTypeOK, Index
<1>2. Len(<<>>) <= Capacity
  BY SizeType DEF Capacity
<1> QED
  BY <1>1, <1>2, InitClient, WordsEntries DEF Init, IMonitor

LEMMA StutterClient == IClient /\ UNCHANGED clientVars => IClient'
  BY DEF clientVars, IClient, ClientTypeOK, CallOf

LEMMA StutterBuffer == BufferTypeOK /\ UNCHANGED buffer => BufferTypeOK'
  BY DEF buffer, BufferTypeOK

LEMMA StepMonitor == IMonitor /\ [Next]_vars => IMonitor'
<1> SUFFICES ASSUME IMonitor, [Next]_vars PROVE IMonitor'
  OBVIOUS
<1> USE DEF IMonitor
<1>1. CASE ClientNext /\ UNCHANGED <<buffer, monitor>>
  BY <1>1, ClientSteps, StutterBuffer DEF monitor
<1>2. CASE ReadValue
  <2>1. cell["register"] \in Words
    BY DEF IClient, ClientTypeOK, Cells
  <2> QED
    BY <1>2, <2>1, StutterClient, StutterBuffer DEF ReadValue
<1>3. CASE ReadValueFails
  BY <1>3, WordsEntries, StutterClient, StutterBuffer DEF ReadValueFails, EXIT_FAILURE
<1>4. CASE Store
  BY <1>4, WordsEntries, StutterClient, PushSlides DEF Store
<1>5. CASE Log
  <2>1. lines' \in Seq(Words) /\ Len(lines') <= Capacity
    BY <1>5, LogSlides, SlideTyped DEF Log
  <2> QED
    BY <1>5, <2>1, WordsEntries, StutterClient, StutterBuffer DEF Log
<1>6. CASE UNCHANGED vars
  BY <1>6, StutterClient, StutterBuffer DEF vars, monitor
<1> QED
  BY <1>1, <1>2, <1>3, <1>4, <1>5, <1>6 DEF Next

LEMMA Inductive == Spec => []IMonitor
  BY InitMonitor, StepMonitor, PTL DEF Spec

\* Every variable keeps its type, for any number of clients and any size of
\* the buffer: both indices stay inside the array.
THEOREM MonitorTyped == Spec => []TypeOK
<1>1. IMonitor => TypeOK
  BY DEF IMonitor, IClient, TypeOK
<1> QED
  BY <1>1, Inductive, PTL

\* A step of the whole is one of the clients or leaves them alone.
LEMMA ClientOrNot == [Next]_vars => ClientNext \/ UNCHANGED clientVars
  BY DEF Next, vars, ReadValue, ReadValueFails, Store, Log

\* Read, compare and write in two commands do what one atomic command would,
\* for any number of clients, whatever commands fail, and wherever a failed
\* write is applied later.
THEOREM SetsAreAtomic == Spec => ImplementsAtomicSet
<1>1. Init => Atomic!Init
  BY InitAtomic DEF Init
<1>2. IMonitor /\ [Next]_vars => [Atomic!Next]_(Atomic!vars)
  BY ClientOrNot, AtomicSteps, AtomicStutter DEF IMonitor
<1> QED
  BY <1>1, <1>2, Inductive, PTL DEF Spec, ImplementsAtomicSet, Atomic!Spec

\* No word is written that the device holds, unless another client wrote it
\* in between or the coil was never read.
THEOREM WritesNeeded == Spec => WriteNeeded
<1>1. IMonitor => [\A c \in Clients :
                     pc[c] = "write" /\ pc'[c] = "return"
                       /\ cell[goal[c].cell] = goal[c].word
                     => disturbed[c] \/ blind[c]]_clientVars
  BY DEF IMonitor, IClient, CallOf
<1> QED
  BY <1>1, Inductive, PTL DEF WriteNeeded

\* A step of the clients leaves what was sampled as it is; the register changes
\* to another word at most.
LEMMA KeptSeen ==
  ASSUME IMonitor, IMonitor', UNCHANGED <<buffer, monitor>>
  PROVE  Register' \in Words /\ RingWindow' = RingWindow /\ LogWindow' = LogWindow
<1>1. Register' \in Words
  BY DEF IMonitor, IClient, ClientTypeOK, Cells, Register
<1>2. print_buffer' = print_buffer /\ program' = program /\ at' = at
      /\ record' = record /\ opens' = opens /\ lines' = lines
  BY DEF buffer, monitor, print_buffer, Used
<1> QED
  BY <1>1, <1>2 DEF RingWindow, RingSeen, LogWindow, LogSeen, Slid

LEMMA InitSeen ==
  ASSUME Init
  PROVE  Register \in Words /\ RingWindow = <<>> /\ LogWindow = <<>>
<1>1. Register \in Words
  BY InitClient DEF Init, IClient, ClientTypeOK, Cells, Register
<1>2. print_buffer = <<>>
  BY DEF Init, buffer_init, print_buffer, Used
<1> QED
  BY <1>1, <1>2 DEF Init, RingWindow, RingSeen, LogWindow, LogSeen

\* The buffer of test.c, of any size, prints the latest successful reads, all
\* of them and in their order, while any number of clients write the register.
THEOREM BufferSamples == Spec => SamplesRegister
<1>1. Init => Sampled!Init
  BY InitSeen DEF Sampled!Init
<1>2. IMonitor /\ IMonitor' /\ [Next]_vars => [Sampled!Next]_<<Register, RingWindow>>
  <2> SUFFICES ASSUME IMonitor, IMonitor', [Next]_vars
               PROVE  [Sampled!Next]_<<Register, RingWindow>>
    OBVIOUS
  <2>1. SUFFICES \/ Register' \in Words /\ RingWindow' = RingWindow
                 \/ /\ Register' = Register
                    /\ RingWindow' = RingWindow \/ RingWindow' = Slid(RingWindow, Register)
    BY <2>1 DEF Sampled!Next, Sampled!SourceChanges, Sampled!Sample, Sampled!Slide,
       Slid
  <2>2. CASE UNCHANGED <<buffer, monitor>>
    BY <2>2, KeptSeen
  <2>3. CASE ReadValue
    <3>1. print_buffer' = print_buffer /\ Register' = Register
      BY <2>3 DEF ReadValue, clientVars, buffer, print_buffer, Used, Register
    <3> QED
      BY <2>3, <3>1 DEF ReadValue, RingWindow, RingSeen, Register, Slid
  <2>4. CASE ReadValueFails \/ Log
    <3>1. Register' = Register
      BY <2>4 DEF ReadValueFails, Log, clientVars, Register
    <3>2. RingWindow = <<>> /\ RingWindow' = <<>>
      BY <2>4 DEF ReadValueFails, Log, RingWindow
    <3> QED
      BY <3>1, <3>2
  <2>5. CASE Store
    <3>1. Register' = Register
      BY <2>5 DEF Store, clientVars, Register
    <3>2. print_buffer' = Slid(print_buffer, record)
      BY <2>5, PushSlides, WordsEntries DEF Store, IMonitor
    <3> QED
      BY <2>5, <3>1, <3>2 DEF Store, RingWindow, RingSeen
  <2> QED
    BY <2>2, <2>3, <2>4, <2>5 DEF Next, vars, buffer, monitor
<1> QED
  BY <1>1, <1>2, Inductive, PTL DEF Spec, SamplesRegister, Sampled!Spec

\* The log of read_write_DO.c takes no failed read for a word and keeps every
\* reading of a word other than 1 for which the file opens, in order, while any
\* number of clients write the register.
THEOREM LogSamples == Spec => LogTruthful
<1>1. Init => Recorded!Init
  BY InitSeen DEF Recorded!Init
<1>2. IMonitor /\ IMonitor' /\ [Next]_vars => [Recorded!Next]_<<Register, LogWindow>>
  <2> SUFFICES ASSUME IMonitor, IMonitor', [Next]_vars
               PROVE  [Recorded!Next]_<<Register, LogWindow>>
    OBVIOUS
  <2>1. SUFFICES \/ Register' \in Words /\ LogWindow' = LogWindow
                 \/ /\ Register' = Register
                    /\ LogWindow' = LogWindow \/ LogWindow' = Slid(LogWindow, Register)
    BY <2>1 DEF Recorded!Next, Recorded!SourceChanges, Recorded!Sample,
       Recorded!Slide, Slid
  <2>2. CASE UNCHANGED <<buffer, monitor>>
    BY <2>2, KeptSeen
  <2>3. CASE ReadValue
    <3>1. Register' = Register
      BY <2>3 DEF ReadValue, clientVars, Register
    <3> QED
      BY <2>3, <3>1 DEF ReadValue, LogWindow, LogSeen, Register, Slid
  <2>4. CASE ReadValueFails
    <3>1. Register' = Register
      BY <2>4 DEF ReadValueFails, clientVars, Register
    <3> QED
      BY <2>4, <3>1 DEF ReadValueFails, LogWindow, LogSeen, EXIT_FAILURE
  <2>5. CASE Store
    BY <2>5 DEF Store, clientVars, Register, LogWindow
  <2>6. CASE Log
    <3>1. Register' = Register
      BY <2>6 DEF Log, clientVars, Register
    <3>2. LogWindow' = lines' /\ LogWindow = LogSeen
      BY <2>6 DEF Log, LogWindow, LogSeen
    <3>3. lines' = LogSeen
      BY <2>6, LogSlides DEF Log, LogSeen, Stored, EXIT_FAILURE, IMonitor
    <3> QED
      BY <3>1, <3>2, <3>3
  <2> QED
    BY <2>2, <2>3, <2>4, <2>5, <2>6 DEF Next, vars, buffer, monitor
<1> QED
  BY <1>1, <1>2, Inductive, PTL DEF Spec, LogTruthful, Recorded!Spec
=============================================================================
