------------------------------ MODULE TimeTick ------------------------------
(***************************************************************************)
(* generate_timetick(): the time since a base, from two readings of the    *)
(* wall clock in seconds and nanoseconds, rounded to milliseconds.  The    *)
(* result is kept in milliseconds here; the code divides it by 1000.       *)
(***************************************************************************)
EXTENDS Integers

NANO  == 1000000000   \* nanoseconds of a second
MILLI == 1000000      \* nanoseconds of a millisecond

Timespec == [tv_sec : Int, tv_nsec : {n \in Nat : n < NANO}]

Borrows(base, now) == now.tv_nsec < base.tv_nsec

\* The whole seconds between the two readings, and the nanoseconds left.
Seconds_NoBorrow(base, now) == now.tv_sec - base.tv_sec
Seconds(base, now) ==
  now.tv_sec - base.tv_sec - (IF Borrows(base, now) THEN 1 ELSE 0)

Nanos(base, now) ==
  now.tv_nsec - base.tv_nsec + (IF Borrows(base, now) THEN NANO ELSE 0)

Rounded(n) == (n + MILLI \div 2) \div MILLI

\* Rounding may give a full second.
Carried_Lost(s, ms) == IF ms > 999 THEN s * 1000 ELSE s * 1000 + ms
Carried(s, ms) == IF ms > 999 THEN (s + 1) * 1000 ELSE s * 1000 + ms

generate_timetick(base, now) ==
  Carried(Seconds(base, now), Rounded(Nanos(base, now)))

\* The order of two clock readings.
AtOrBefore(t, u) ==
  t.tv_sec < u.tv_sec \/ (t.tv_sec = u.tv_sec /\ t.tv_nsec <= u.tv_nsec)
=============================================================================
