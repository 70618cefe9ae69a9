---------------------------- MODULE MCDaqChannels ----------------------------
(***************************************************************************)
(* A small instance of DaqChannels for TLC.                                *)
(***************************************************************************)
EXTENDS DaqChannels

Entry(ch, of) == [ch |-> ch, of |-> of]

\* All the channels in order; only those that are read; too few; the wrong
\* order; the channel number or the factor missing.
MCListings ==
  { << Entry(0, 1), Entry(1, 2), Entry(2, 1) >>,
    << Entry(0, 2), Entry(1, 1) >>,
    << Entry(0, 1) >>,
    << Entry(1, 1), Entry(0, 2) >>,
    << Entry(Absent, 1), Entry(Absent, 2) >>,
    << Entry(0, Absent), Entry(1, 2) >> }

\* Clock readings whose differences round down, up, and up to a full second.
MCTimes == [tv_sec : 0..1, tv_nsec : {0, 400000, 999600000}]
=============================================================================
