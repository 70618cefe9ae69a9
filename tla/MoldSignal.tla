----------------------------- MODULE MoldSignal -----------------------------
(***************************************************************************)
(* How the mold's position reaches the program, and how the program turns  *)
(* it back into a status.                                                  *)
(*                                                                         *)
(* An injection machine drives two output pins, "mold close" and "mold     *)
(* open", wired to two digital outputs of the acquisition device.  A       *)
(* single-loop machine raises a pin while the mold moves, a multi-loop     *)
(* machine while it rests.  Either way two of the four positions look the  *)
(* same (both pins low), so check_mold_status2() needs the status it found *)
(* the previous time to tell them apart.                                   *)
(***************************************************************************)
EXTENDS Integers

Unknown == 0
Opened  == 1
Closing == 2
Closed  == 3
Opening == 4

Phases   == {Opened, Closing, Closed, Opening}
Statuses == Phases \cup {Unknown}

SingleLoop == 1
MultiLoop  == 2
LoopTypes  == {SingleLoop, MultiLoop}

-----------------------------------------------------------------------------
(* The machine, outside the program.                                       *)

\* The mold goes round opened, closing, closed, opening, opened, ...
NextPhase(p) == IF p = Opening THEN Opened ELSE p + 1

\* The two pins in phase p of a machine of type mmtype.
Pins(mmtype, p) ==
  IF mmtype = SingleLoop
    THEN [ closing |-> IF p = Closing THEN 1 ELSE 0,
           opening |-> IF p = Opening THEN 1 ELSE 0 ]
    ELSE [ closing |-> IF p = Closed THEN 1 ELSE 0,
           opening |-> IF p = Opened THEN 1 ELSE 0 ]

\* What the buffer holds when nothing was read into it: it is zeroed first.
LowPins == [closing |-> 0, opening |-> 0]

-----------------------------------------------------------------------------
(* The program's decoder.                                                  *)

\* Both pins low, single loop: the mold rests where the last move led, and
\* an unknown past is taken for an opened mold.
SingleLow(status_now) ==
  IF status_now \in {Closing, Closed} THEN Closed ELSE Opened

\* Both pins low, multi loop: the mold moves away from where it rested, and
\* an unknown past stays unknown.
MultiLow_Swapped(status_now) ==
  IF status_now \in {Opened, Closing} THEN Opening
  ELSE IF status_now \in {Closed, Opening} THEN Closing
  ELSE Unknown
MultiLow(status_now) ==
  IF status_now \in {Opened, Closing} THEN Closing
  ELSE IF status_now \in {Closed, Opening} THEN Opening
  ELSE Unknown

\* One pin high names the position; both high make no sense.
Decode(bits, ifclosing, ifopening, iflow) ==
  IF bits.closing = 1 THEN (IF bits.opening = 1 THEN Unknown ELSE ifclosing)
                      ELSE (IF bits.opening = 1 THEN ifopening ELSE iflow)

\* rc is what do_modbus_command() returned: the number of bits read, or -1.
\* Only 0 is taken for a failure; after -1 the zeroed buffer is decoded.
check_mold_status2(rc, bits, status_now, mmtype) ==
  IF rc = 0 THEN Unknown
  ELSE IF mmtype = SingleLoop
    THEN Decode(bits, Closing, Opening, SingleLow(status_now))
  ELSE IF mmtype = MultiLoop
    THEN Decode(bits, Closed, Opened, MultiLow(status_now))
  ELSE Unknown
=============================================================================
