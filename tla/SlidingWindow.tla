---------------------------- MODULE SlidingWindow ----------------------------
(***************************************************************************)
(* What a reader of the circular buffer or of the end of the log is        *)
(* promised: the latest Capacity samples of a source, oldest first, each   *)
(* taken in one instant and in the order in which they were taken.  The    *)
(* promise is of what is sampled; a reading that is not kept is no sample. *)
(***************************************************************************)
EXTENDS Integers, Sequences

CONSTANTS Values, Capacity

VARIABLES source, window

Slide(w, v) == IF Len(w) < Capacity THEN Append(w, v) ELSE Append(Tail(w), v)

Init == source \in Values /\ window = <<>>

SourceChanges == source' \in Values /\ UNCHANGED window

Sample == window' = Slide(window, source) /\ UNCHANGED source

Next == SourceChanges \/ Sample

Spec == Init /\ [][Next]_<<source, window>>
=============================================================================
