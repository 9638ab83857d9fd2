------------------------------ MODULE LiveTable ------------------------------
(***************************************************************************)
(* What a live table promises, however it is kept up to date: a redraw     *)
(* shows what is there at that moment, all of it, once and in order.       *)
(* Between redraws the table stays as it is, whatever comes and goes.      *)
(***************************************************************************)
EXTENDS Integers, Sequences, SequencesExt

CONSTANTS
    Keys,           \* the keys a row may have
    Before(_, _)    \* the order of the rows

VARIABLES present, shown   \* the keys that are there, the rows of the table

Init == present = {} /\ shown = <<>>

ComeAndGo == present' \in SUBSET Keys /\ UNCHANGED shown

Redraw ==
    /\ present' \in SUBSET present
    /\ ToSet(shown') = present'
    /\ \A r, q \in DOMAIN shown' : r < q => Before(shown'[r], shown'[q])

Spec == Init /\ [][ComeAndGo \/ Redraw]_<<present, shown>>

=============================================================================
