----------------------------- MODULE ScopeCurves -----------------------------
(***************************************************************************)
(* The curves of the oscilloscope, over the acquisition that feeds them:   *)
(* the buffers the DMA fills, data_scope and data_scope2 the interrupt     *)
(* handlers write, and the copies and the math curve main() makes of them  *)
(* on every touch edge before it restarts the acquisition.                 *)
(*                                                                         *)
(* The value of a sample is abstracted to the number of START presses that *)
(* came before its conversion, and an array to the set of these numbers    *)
(* (empty: no sample yet).  A loop of main() over an array is two steps,   *)
(* one per half of it, so that a handler can run inside.                   *)
(***************************************************************************)
EXTENDS ScopeAcquisition, Sequences

CONSTANT MaxPresses      \* bound on the START presses
ASSUME PressesAssumption == MaxPresses \in Nat

VARIABLES
  presses,       \* START presses so far
  step,          \* the step of main() between the buttons and DmaAdcStart()
  buff,          \* first half of ADC_Buff_channel1 and ADC_Buff_channel2
  scope,         \* data_scope and data_scope2
  mem,           \* data_scope_mem and data_scope_mem2
  math,          \* data_scope_math
  copyChannel,   \* copyChannel1 and copyChannel2
  copyMath       \* copyChannelMath

display == <<copyChannel, copyMath>>
curves  == <<presses, step, buff, scope, mem, math, display>>
allVars == <<vars, curves>>

\* The steps of one redraw, in order, and what main() does next.
Steps == <<"mem1", "mem1end", "mem2", "mem2end", "math", "mathend", "draw">>
FirstStep == Steps[1]

Ids == 0..MaxPresses

CurvesInit ==
  /\ Init
  /\ presses = 0 /\ step = FirstStep
  /\ buff = [c \in Chan |-> [stale |-> {}, fresh |-> {}]]
  /\ scope = [c \in Chan |-> {}]
  /\ mem = [c \in Chan |-> [lo |-> {}, hi |-> {}]]
  /\ math = [lo |-> [c \in Chan |-> {}], hi |-> [c \in Chan |-> {}]]
  /\ copyChannel = [c \in Chan |-> 0] /\ copyMath = 0

\* The samples of the half that are of this sweep, and those it has not
\* overwritten yet.
Contents(b) == b.stale \cup b.fresh

-----------------------------------------------------------------------------
(* The buttons.                                                             *)

PressStart ==
  /\ EdgeStart /\ presses < MaxPresses
  /\ presses' = presses + 1
  /\ UNCHANGED <<step, buff, scope, mem, math, display>>

\* CH1, CH2: 0 becomes 1, which asks for a copy; 1 and 2 become 0.
PressChannel(c) ==
  /\ ~changed /\ EdgeOther
  /\ copyChannel' = [copyChannel EXCEPT ![c] = IF @ = 0 THEN 1 ELSE 0]
  /\ UNCHANGED <<presses, step, buff, scope, mem, math, copyMath>>

\* Bug: the mode does not wrap around.
PressMath_NoWrap ==
  /\ ~changed /\ EdgeOther
  /\ copyMath' = copyMath + 1
  /\ copyChannel' = [c \in Chan |-> 1]
  /\ UNCHANGED <<presses, step, buff, scope, mem, math>>

\* MATH: nothing, CH1-CH2, CH1+CH2 in turn, with a new copy of both channels.
PressMath ==
  /\ ~changed /\ EdgeOther
  /\ copyMath' = (copyMath + 1) % 3
  /\ copyChannel' = IF copyMath' = 0 THEN copyChannel ELSE [c \in Chan |-> 1]
  /\ UNCHANGED <<presses, step, buff, scope, mem, math>>

\* A release, a touch beside the buttons, or BMP: no curve is concerned.
OtherEdge == EdgeOther /\ UNCHANGED curves

-----------------------------------------------------------------------------
(* The redraw: main() reads the curves while the handlers may write them.   *)

RedrawAt(s) == MainAt("redraw") /\ step = s /\ UNCHANGED vars

CopyStarts(c, s, half, skip) ==
  /\ RedrawAt(s)
  /\ IF copyChannel[c] = 1
     THEN /\ copyChannel' = [copyChannel EXCEPT ![c] = 2]
          /\ mem' = [mem EXCEPT ![c].lo = scope[c]]
          /\ step' = half
     ELSE step' = skip /\ UNCHANGED <<copyChannel, mem>>
  /\ UNCHANGED <<presses, buff, scope, math, copyMath>>

\* Bug: the loop stops at the middle of the array.
CopyEnds_Short(c, half, next) ==
  /\ RedrawAt(half) /\ step' = next
  /\ UNCHANGED <<presses, buff, scope, mem, math, display>>

CopyEnds(c, half, next) ==
  /\ RedrawAt(half) /\ step' = next
  /\ mem' = [mem EXCEPT ![c].hi = scope[c]]
  /\ UNCHANGED <<presses, buff, scope, math, display>>

CopyMemory == \/ CopyStarts(1, "mem1", "mem1end", "mem2")
              \/ CopyEnds(1, "mem1end", "mem2")
              \/ CopyStarts(2, "mem2", "mem2end", "math")
              \/ CopyEnds(2, "mem2end", "math")

MathStarts ==
  /\ RedrawAt("math")
  /\ IF copyMath # 0
     THEN step' = "mathend" /\ math' = [math EXCEPT !.lo = scope]
     ELSE step' = "draw" /\ UNCHANGED math
  /\ UNCHANGED <<presses, buff, scope, mem, display>>

MathEnds ==
  /\ RedrawAt("mathend") /\ step' = "draw"
  /\ math' = [math EXCEPT !.hi = scope]
  /\ UNCHANGED <<presses, buff, scope, mem, display>>

\* ScreenUpdate(), after which DmaAdcStart() begins.
Draw == /\ Redraw /\ step = "draw" /\ step' = FirstStep
        /\ UNCHANGED <<presses, buff, scope, mem, math, display>>

-----------------------------------------------------------------------------
(* The acquisition, with what it does to the data.                          *)

\* Bugs: the request is cleared before it is tested; it is not tested.
CaptureIRQ_ClearedFirst(c) ==
  /\ StreamIRQ(c)
  /\ scope' = IF enable'[c] THEN [scope EXCEPT ![c] = Contents(buff[c])]
                            ELSE scope
  /\ UNCHANGED <<presses, step, buff, mem, math, display>>

CaptureIRQ_Always(c) ==
  /\ StreamIRQ(c)
  /\ scope' = [scope EXCEPT ![c] = Contents(buff[c])]
  /\ UNCHANGED <<presses, step, buff, mem, math, display>>

\* The handler converts the first half of the buffer if a capture is asked.
CaptureIRQ(c) ==
  /\ StreamIRQ(c)
  /\ scope' = IF enable[c] THEN [scope EXCEPT ![c] = Contents(buff[c])]
                           ELSE scope
  /\ UNCHANGED <<presses, step, buff, mem, math, display>>

SampleArrives(c) ==
  /\ HwSample(c)
  /\ buff' = [buff EXCEPT ![c] = [stale |-> Contents(@), fresh |-> {presses}]]
  /\ UNCHANGED <<presses, step, scope, mem, math, display>>

HalfArrives(c) ==
  /\ HwHalf(c)
  /\ buff' = [buff EXCEPT ![c] = [stale |-> {}, fresh |-> @.fresh \cup {presses}]]
  /\ UNCHANGED <<presses, step, scope, mem, math, display>>

\* What the curves do not see.
OtherSteps ==
  /\ \/ PollNoChange \/ AdcIRQ
     \/ \E c \in Chan : HwFull(c) \/ HwFault(c) \/ HwOverrunIdle(c)
                                 \/ HwOverrunServed(c)
  /\ UNCHANGED curves

MainActs == \/ CopyMemory \/ MathStarts \/ MathEnds \/ Draw
            \/ (ToggleLoad \/ ToggleStore \/ StartDma) /\ UNCHANGED curves

CurvesNext ==
  \/ PressStart \/ PressMath \/ OtherEdge \/ MainActs \/ OtherSteps
  \/ \E c \in Chan : \/ PressChannel(c) \/ CaptureIRQ(c)
                     \/ SampleArrives(c) \/ HalfArrives(c)

CurvesSpec == CurvesInit /\ [][CurvesNext]_allVars

CurvesFairness ==
  /\ WF_allVars(MainActs)
  /\ WF_allVars(AdcIRQ /\ UNCHANGED curves)
  /\ \A c \in Chan : /\ WF_allVars(CaptureIRQ(c))
                     /\ WF_allVars(SampleArrives(c) \/ HalfArrives(c))
                     /\ WF_allVars(HwOverrunIdle(c) /\ UNCHANGED curves)

FairCurvesSpec == CurvesSpec /\ CurvesFairness

-----------------------------------------------------------------------------
(* Properties.                                                              *)

\* Every variable of the curves has its type.
CurvesTypeOK ==
  /\ TypeOK
  /\ presses \in Ids /\ step \in {Steps[i] : i \in DOMAIN Steps}
  /\ buff \in [Chan -> [stale : SUBSET Ids, fresh : SUBSET Ids]]
  /\ scope \in [Chan -> SUBSET Ids]
  /\ mem \in [Chan -> [lo : SUBSET Ids, hi : SUBSET Ids]]
  /\ math \in [lo : [Chan -> SUBSET Ids], hi : [Chan -> SUBSET Ids]]
  /\ copyChannel \in [Chan -> 0..2] /\ copyMath \in 0..2

\* The copy loops read arrays that interrupt handlers write: once a copy is
\* made, its two halves come from the same capture, and so do those of the
\* math curve.
CopiesAreWhole ==
  /\ step # "mem1end" => mem[1].lo = mem[1].hi
  /\ step # "mem2end" => mem[2].lo = mem[2].hi
  /\ step # "mathend" => math.lo = math.hi

\* enable_copy and enable_copy2 are toggled together and cleared apart: when
\* both acquisitions are over, both channels show the capture of one press.
ChannelsTogether ==
  pc = "poll" /\ Quiet => enable[1] = enable[2] /\ scope[1] = scope[2]

\* A press on START ends in two curves made only of samples that were
\* converted after it (or after a later press).
PressIsShown ==
  \A k \in 1..MaxPresses :
    presses = k ~> presses > k \/ \A c \in Chan : scope[c] = {k}

\* The two halves of a copy are made at two moments: it counts when it ends.
Promise == INSTANCE Oscilloscope
  WITH asked <- enable, curve <- scope,
       memory <- [c \in Chan |-> mem[c].hi], combined <- math.hi

\* Paced by the user, the code implements the oscilloscope: captures, copies
\* and the math curve take effect at once, and a request is never lost.
Implements == Promise!Spec
=============================================================================
