------------------------------ MODULE SavedFile ------------------------------
(***************************************************************************)
(* What the user of the screenshots is promised of the file on the card:   *)
(* from the first one on, a power cut included, it is empty or holds       *)
(* pieces of one picture, in their order.  It is emptied before the next   *)
(* one is put.  Before the first it is what the user has left there.       *)
(***************************************************************************)
EXTENDS Integers

CONSTANT Length       \* the pieces of a picture

VARIABLES pic, file   \* the number of the last press; what a reader finds

vars == <<pic, file>>

\* A file keeps some of the pieces of picture p, when writes are lost.
Keeps(f, p) ==
  \E n \in 0..Length : \E kept \in [1..n -> 1..Length] :
    /\ \A i, j \in 1..n : i < j => kept[i] < kept[j]
    /\ f = [i \in 1..n |-> <<p, kept[i]>>]

Init == pic = 0

Press    == pic' = pic + 1 /\ UNCHANGED file
Truncate == file' = <<>> /\ UNCHANGED pic
Publish  == file = <<>> /\ Keeps(file', pic) /\ UNCHANGED pic

Spec == Init /\ [][Press \/ Truncate \/ Publish]_vars
=============================================================================
