---------------------------- MODULE Oscilloscope ----------------------------
(***************************************************************************)
(* What the oscilloscope promises its user, without interrupts, buffers or *)
(* locks: a press on START asks each channel for a capture; the capture    *)
(* replaces the curve of the channel at once by one whose samples were all *)
(* converted after the last press; the memory of a channel is a whole copy *)
(* of its curve; the math curve combines the two curves of one moment.     *)
(* A curve is the set of the press numbers its samples were converted      *)
(* after; the empty set stands for the constants shown at power-up.        *)
(***************************************************************************)
EXTENDS Naturals

CONSTANT Chan

VARIABLES presses, asked, curve, memory, combined

vars == <<presses, asked, curve, memory, combined>>

Init == /\ presses = 0
        /\ asked = [c \in Chan |-> FALSE]
        /\ curve = [c \in Chan |-> {}]
        /\ memory = [c \in Chan |-> {}]
        /\ combined = [c \in Chan |-> {}]

Press == presses' = presses + 1 /\ UNCHANGED <<asked, curve, memory, combined>>

\* Only a press asks, and a request is never withdrawn.
Ask(c) == /\ presses > 0 /\ ~asked[c]
          /\ asked' = [asked EXCEPT ![c] = TRUE]
          /\ UNCHANGED <<presses, curve, memory, combined>>

Capture(c) == /\ asked[c]
              /\ asked' = [asked EXCEPT ![c] = FALSE]
              /\ curve' = [curve EXCEPT ![c] = {presses}]
              /\ UNCHANGED <<presses, memory, combined>>

Memorise(c) == /\ memory' = [memory EXCEPT ![c] = curve[c]]
               /\ UNCHANGED <<presses, asked, curve, combined>>

Combine == combined' = curve /\ UNCHANGED <<presses, asked, curve, memory>>

Next == Press \/ Combine \/ \E c \in Chan : Ask(c) \/ Capture(c) \/ Memorise(c)

Spec == Init /\ [][Next]_vars
=============================================================================
