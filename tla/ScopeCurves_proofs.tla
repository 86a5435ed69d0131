-------------------------- MODULE ScopeCurves_proofs --------------------------
(***************************************************************************)
(* Proofs about the curves, for every number of presses.  Every step of    *)
(* them is a step of the acquisition, or none, so that what is proved of   *)
(* the acquisition holds here.  When edges wait for the acquisitions to be *)
(* over (EdgeInFlight = FALSE) no handler can run between the buttons and  *)
(* DmaAdcStart(), where main() reads the curves: the copies are whole.     *)
(* When no stream fails besides (Faults = FALSE) a capture is made of      *)
(* samples of the last press only, and the code implements Oscilloscope.   *)
(***************************************************************************)
EXTENDS ScopeCurves, ScopeAcquisition_proofs

\* Every step of the curves is a step of the acquisition, or leaves it alone.
LEMMA StepsBelow == ASSUME CurvesNext PROVE [Next]_vars
<1>1. CASE PressStart \/ PressMath \/ OtherEdge \/ \E c \in Chan : PressChannel(c)
  BY <1>1 DEF PressStart, PressMath, OtherEdge, PressChannel, Next
<1>2. CASE CopyMemory \/ MathStarts \/ MathEnds
  BY <1>2 DEF CopyMemory, CopyStarts, CopyEnds, MathStarts, MathEnds, RedrawAt
<1>3. CASE Draw \/ ToggleLoad \/ ToggleStore \/ StartDma
  BY <1>3 DEF Draw, MainStep, Next
<1>4. CASE OtherSteps
  BY <1>4 DEF OtherSteps, Hardware, Next
<1>5. CASE \E c \in Chan : CaptureIRQ(c) \/ SampleArrives(c) \/ HalfArrives(c)
  BY <1>5 DEF CaptureIRQ, SampleArrives, HalfArrives, Hardware, Next
<1> QED BY <1>1, <1>2, <1>3, <1>4, <1>5 DEF CurvesNext, MainActs

\* What is proved of the acquisition holds under the curves.
LEMMA Below == CurvesSpec => [](AcquisitionInv /\ ArmedHasAcquisition)
<1>1. CurvesInit => Init
  BY DEF CurvesInit
<1>2. [CurvesNext]_allVars => [Next]_vars
  BY StepsBelow DEF allVars
<1>3. CurvesSpec => Spec
  BY <1>1, <1>2, PTL DEF CurvesSpec, Spec
<1> QED BY <1>3, InvariantHolds, ArmedIsAcquiring, PTL

-----------------------------------------------------------------------------
(* Type correctness.                                                        *)

StepNames == {"mem1", "mem1end", "mem2", "mem2end", "math", "mathend", "draw"}

\* The names of the steps of a redraw.
LEMMA StepSet == {Steps[i] : i \in DOMAIN Steps} = StepNames /\ FirstStep = "mem1"
BY DEF Steps, FirstStep, StepNames

Halves == [lo : SUBSET Ids, hi : SUBSET Ids]

\* What CurvesTypeOK says of the variables ScopeCurves adds.
CurvesTypes ==
  /\ presses \in Ids /\ step \in StepNames
  /\ buff \in [Chan -> [stale : SUBSET Ids, fresh : SUBSET Ids]]
  /\ scope \in [Chan -> SUBSET Ids]
  /\ mem \in [Chan -> Halves]
  /\ math \in [lo : [Chan -> SUBSET Ids], hi : [Chan -> SUBSET Ids]]
  /\ copyChannel \in [Chan -> 0..2] /\ copyMath \in 0..2

\* The state in which main() first calls DmaAdcStart() is well typed.
LEMMA InitCurvesTypes == CurvesInit => CurvesTypes
BY PressesAssumption, StepSet DEF CurvesInit, CurvesTypes, StepNames, Halves, Ids

\* Every step keeps the types.
LEMMA NextCurvesTypes ==
  ASSUME CurvesTypes, [CurvesNext]_allVars PROVE CurvesTypes'
<1> USE DEF CurvesTypes
<1>1. CASE UNCHANGED curves
  BY <1>1 DEF curves, display
<1>2. CASE PressStart
  BY <1>2, PressesAssumption DEF PressStart, Ids, display
<1>3. CASE PressMath \/ \E c \in Chan : PressChannel(c)
  <2>1. CASE PressMath
    <3>1. copyMath' \in 0..2
      BY <2>1 DEF PressMath
    <3>2. copyChannel' \in [Chan -> 0..2]
      BY <2>1 DEF PressMath
    <3> QED BY <2>1, <3>1, <3>2 DEF PressMath
  <2>2. CASE \E c \in Chan : PressChannel(c)
    BY <2>2 DEF PressChannel
  <2> QED BY <1>3, <2>1, <2>2
<1>4. ASSUME NEW c \in Chan, NEW s, NEW half \in StepNames, NEW next \in StepNames,
             CopyStarts(c, s, half, next) \/ CopyEnds(c, s, next)
      PROVE  CurvesTypes'
  <2>1. mem' \in [Chan -> Halves]
    BY <1>4 DEF CopyStarts, CopyEnds, Halves
  <2>2. copyChannel' \in [Chan -> 0..2] /\ step' \in StepNames
    BY <1>4 DEF CopyStarts, CopyEnds, display
  <2> QED BY <1>4, <2>1, <2>2 DEF CopyStarts, CopyEnds, display
<1>5. CASE CopyMemory
  BY <1>4, <1>5 DEF CopyMemory, StepNames, Chan
<1>6. CASE MathStarts \/ MathEnds \/ Draw
  BY <1>6, StepSet DEF MathStarts, MathEnds, Draw, StepNames, display
<1>7. ASSUME NEW c \in Chan, CaptureIRQ(c) PROVE CurvesTypes'
  <2>1. Contents(buff[c]) \in SUBSET Ids
    BY DEF Contents
  <2>2. scope' \in [Chan -> SUBSET Ids]
    BY <1>7, <2>1 DEF CaptureIRQ
  <2> QED BY <1>7, <2>2 DEF CaptureIRQ, display
<1>8. ASSUME NEW c \in Chan, SampleArrives(c) \/ HalfArrives(c) PROVE CurvesTypes'
  <2>1. buff' \in [Chan -> [stale : SUBSET Ids, fresh : SUBSET Ids]]
    <3>1. /\ Contents(buff[c]) \in SUBSET Ids /\ {presses} \in SUBSET Ids
          /\ buff[c].fresh \cup {presses} \in SUBSET Ids
      BY DEF Contents
    <3> QED BY <1>8, <3>1 DEF SampleArrives, HalfArrives
  <2> QED BY <1>8, <2>1 DEF SampleArrives, HalfArrives, display
<1> QED BY <1>1, <1>2, <1>3, <1>5, <1>6, <1>7, <1>8
        DEF CurvesNext, MainActs, OtherEdge, OtherSteps, allVars

\* Curves, copies, requests and steps always have their types.
THEOREM CurvesAreTyped == CurvesSpec => []CurvesTypeOK
<1>1. CurvesInit => CurvesTypes
  BY InitCurvesTypes
<1>2. CurvesTypes /\ [CurvesNext]_allVars => CurvesTypes'
  BY NextCurvesTypes
<1>3. AcquisitionInv /\ CurvesTypes => CurvesTypeOK
  BY StepSet DEF AcquisitionInv, CurvesTypes, CurvesTypeOK, Halves
<1> QED BY <1>1, <1>2, <1>3, Below, PTL DEF CurvesSpec

-----------------------------------------------------------------------------
(* The copies, when edges are paced.                                        *)

Toggling == {"toggleLoad", "toggleStore"}

\* From the edge to DmaAdcStart() no stream runs and none asks for its handler.
Still(c) == pc \in Toggling \cup {"redraw"} => ~dma[c].en /\ dma[c].flags = {}
AllStill == \A c \in Chan : Still(c)

\* A copy that is half made is of the curve as it is.
HalfMade ==
  /\ pc # "redraw" => step = "mem1"
  /\ step = "mem1end" => mem[1].lo = scope[1]
  /\ step = "mem2end" => mem[2].lo = scope[2]
  /\ step = "mathend" => math.lo = scope

\* An edge finds the streams at rest, and main() starts none before DmaAdcStart().
LEMMA StillKept ==
  ASSUME EdgeInFlight = FALSE, AcquisitionInv, AllStill, [Next]_vars
  PROVE  AllStill'
<1> SUFFICES ASSUME NEW c \in Chan PROVE Still(c)'
  BY DEF AllStill
<1> USE DEF Toggling
<1>0. Still(c) /\ dma \in [Chan -> Stream] /\ dma[c] \in Stream
  BY DEF AllStill, AcquisitionInv, TypeOK
<1>1. CASE UNCHANGED vars \/ PollNoChange
  BY <1>0, <1>1 DEF PollNoChange, Still, vars, main
<1>2. CASE EdgeStart \/ EdgeOther
  <2>1. dma[c].flags = {} /\ ~dma[c].en
    BY <1>2, NothingWaits DEF EdgeStart, EdgeOther, TouchChanges, Quiet
  <2>2. dma' = dma
    BY <1>2 DEF EdgeStart, EdgeOther, TouchChanges
  <2> QED BY <2>1, <2>2 DEF Still
<1>3. CASE ToggleLoad \/ ToggleStore
  BY <1>0, <1>3 DEF ToggleLoad, ToggleStore, MainAt, Still
<1>4. CASE Redraw \/ StartDma
  <2>1. pc' \notin Toggling \cup {"redraw"}
    BY <1>4 DEF Redraw, StartDma, AdcLock, EnableOverrunIT, DmaBitLoad, DmaBitStore,
       DmaLockTest, DmaClaim, DmaProgram, DmaEnable, AdcUnlock, AdonTest, AdonLoad,
       AdonStore, SwStartLoad, SwStartStore, StartReturns, Goto
  <2> QED BY <2>1 DEF Still
<1>5. CASE AdcIRQ
  BY <1>0, <1>5 DEF AdcIRQ, Still, main
<1>6. ASSUME NEW d \in Chan, StreamIRQ(d) \/ Hardware(d) PROVE Still(c)'
  <2>1. UNCHANGED <<pc, ch>>
    BY <1>6 DEF StreamIRQ, Hardware, HwSample, HwHalf, HwFull, HwFault,
                HwOverrunIdle, HwOverrunServed, main
  <2>2. CASE dma'[c] = dma[c]
    BY <1>0, <2>1, <2>2 DEF Still
  <2>3. CASE dma'[c] # dma[c]
    <3>1. dma[c].en \/ dma[c].flags # {}
      BY <1>0, <1>6, <2>3
         DEF StreamIRQ, Pending, Hardware, HwSample, HwHalf, HwFull, HwFault,
             HwOverrunIdle, HwOverrunServed, Served
    <3> QED BY <1>0, <2>1, <3>1 DEF Still
  <2> QED BY <2>2, <2>3
<1> QED BY <1>1, <1>2, <1>3, <1>4, <1>5, <1>6 DEF Next, MainStep

\* Where main() reads the curves, no handler writes them.
LEMMA NoCapture ==
  ASSUME AllStill, NEW c \in Chan, CaptureIRQ(c)
  PROVE  pc \notin Toggling \cup {"redraw"} /\ UNCHANGED <<pc, ch>>
BY DEF AllStill, Still, CaptureIRQ, StreamIRQ, Pending, main

\* Each step of the loops over the arrays makes a half of a copy, of the same curve.
LEMMA HalvesKept ==
  ASSUME CurvesTypes, AllStill, HalfMade, CopiesAreWhole, [CurvesNext]_allVars
  PROVE  HalfMade' /\ CopiesAreWhole'
<1> USE DEF HalfMade, CopiesAreWhole
<1>1. CASE UNCHANGED allVars
  BY <1>1 DEF allVars, vars, main, curves, display
<1>2. CASE PressStart \/ PressMath \/ OtherEdge \/ \E c \in Chan : PressChannel(c)
  <2>1. UNCHANGED <<step, scope, mem, math>> /\ pc = "poll"
    BY <1>2 DEF PressStart, PressMath, OtherEdge, PressChannel, EdgeStart, EdgeOther,
                TouchChanges, MainAt, curves
  <2> QED BY <2>1
<1>3. CASE CopyMemory
  <2>1. pc = "redraw" /\ pc' = pc /\ UNCHANGED <<scope, math>>
    BY <1>3 DEF CopyMemory, CopyStarts, CopyEnds, RedrawAt, MainAt, vars, main
  <2>2. CASE CopyStarts(1, "mem1", "mem1end", "mem2")
    BY <2>1, <2>2 DEF CopyStarts, RedrawAt, CurvesTypes, Chan, Halves
  <2>3. CASE CopyEnds(1, "mem1end", "mem2")
    BY <2>1, <2>3 DEF CopyEnds, RedrawAt, CurvesTypes, Chan, Halves
  <2>4. CASE CopyStarts(2, "mem2", "mem2end", "math")
    BY <2>1, <2>4 DEF CopyStarts, RedrawAt, CurvesTypes, Chan, Halves
  <2>5. CASE CopyEnds(2, "mem2end", "math")
    BY <2>1, <2>5 DEF CopyEnds, RedrawAt, CurvesTypes, Chan, Halves
  <2> QED BY <1>3, <2>2, <2>3, <2>4, <2>5 DEF CopyMemory
<1>4. CASE MathStarts
  BY <1>4 DEF MathStarts, RedrawAt, MainAt, CurvesTypes, vars, main
<1>5. CASE MathEnds
  BY <1>5 DEF MathEnds, RedrawAt, MainAt, CurvesTypes, vars, main
<1>6. CASE Draw
  BY <1>6, StepSet DEF Draw
<1>7. CASE (ToggleLoad \/ ToggleStore \/ StartDma) /\ UNCHANGED curves
  <2>1. pc # "redraw"
    BY <1>7 DEF ToggleLoad, ToggleStore, StartDma, AdcLock, EnableOverrunIT,
       DmaBitLoad, DmaBitStore, DmaLockTest, DmaClaim, DmaProgram, DmaEnable,
       AdcUnlock, AdonTest, AdonLoad, AdonStore, SwStartLoad, SwStartStore, MainAt
  <2> QED BY <1>7, <2>1 DEF curves
<1>8. CASE OtherSteps
  <2>1. UNCHANGED pc
    BY <1>8 DEF OtherSteps, PollNoChange, AdcIRQ, HwFull, HwFault, HwOverrunIdle,
                HwOverrunServed, vars, main
  <2> QED BY <1>8, <2>1 DEF OtherSteps, curves
<1>9. ASSUME NEW c \in Chan, CaptureIRQ(c) PROVE HalfMade' /\ CopiesAreWhole'
  <2>1. pc # "redraw" /\ pc' = pc
    BY <1>9, NoCapture
  <2> QED BY <1>9, <2>1 DEF CaptureIRQ
<1>10. CASE \E c \in Chan : SampleArrives(c) \/ HalfArrives(c)
  BY <1>10 DEF SampleArrives, HalfArrives, HwSample, HwHalf, main
<1> QED BY <1>1, <1>2, <1>3, <1>4, <1>5, <1>6, <1>7, <1>8, <1>9, <1>10
        DEF CurvesNext, MainActs

PacedInv == CurvesTypes /\ AllStill /\ HalfMade /\ CopiesAreWhole

\* Between an edge and DmaAdcStart() the streams are still, and half a copy is half
\* of the curve.
THEOREM PacedInvariant == ASSUME EdgeInFlight = FALSE PROVE CurvesSpec => []PacedInv
<1>1. CurvesInit => PacedInv
  <2>1. CurvesInit => AllStill
    BY DEF CurvesInit, Init, AllStill, Still, Toggling
  <2>2. CurvesInit => HalfMade /\ CopiesAreWhole
    BY StepSet DEF CurvesInit, HalfMade, CopiesAreWhole, Chan
  <2> QED BY <2>1, <2>2, InitCurvesTypes DEF PacedInv
<1>2. AcquisitionInv /\ PacedInv /\ [CurvesNext]_allVars => PacedInv'
  <2> SUFFICES ASSUME AcquisitionInv, PacedInv, [CurvesNext]_allVars PROVE PacedInv'
    OBVIOUS
  <2>1. [Next]_vars
    BY StepsBelow DEF allVars
  <2> QED BY <2>1, StillKept, HalvesKept, NextCurvesTypes DEF PacedInv
<1> QED BY <1>1, <1>2, Below, PTL DEF CurvesSpec

\* A copy is of one capture, though handlers write the arrays main() copies.
THEOREM CopiesWhole == ASSUME EdgeInFlight = FALSE PROVE CurvesSpec => []CopiesAreWhole
<1>1. PacedInv => CopiesAreWhole
  BY DEF PacedInv
<1> QED BY <1>1, PacedInvariant, PTL

-----------------------------------------------------------------------------
(* The captures, when edges are paced and no stream fails.                  *)

\* A sweep runs while its buffer fills, and writes samples of the last press; when
\* an interrupt waits, the half of the buffer has no others.
SweepInv(c) ==
  /\ fill[c] # 0 => dma[c].en
  /\ fill[c] = 1 => buff[c].fresh = {presses}
  /\ fill[c] = 2 => dma[c].flags # {}
  /\ dma[c].flags # {} => Contents(buff[c]) = {presses}

\* START has been pressed, finds no request standing, and makes one of each channel,
\* from the first to the second.
AskInv(c) ==
  /\ pc = "poll" => ch = 1
  /\ pc \in Toggling \/ enable[c] => presses > 0
  /\ pc \in Toggling /\ ch <= c => ~enable[c]
  /\ pc = "toggleStore" => ~old

\* A channel that is not asked for a capture, nor about to be, shows the last press.
LastShown   == IF presses = 0 THEN {} ELSE {presses}
ShownInv(c) == (pc \in Toggling /\ ch <= c) \/ enable[c] \/ scope[c] = LastShown

CaptureInv == \A c \in Chan : SweepInv(c) /\ AskInv(c) /\ ShownInv(c)

\* What holds of the acquisition, the types and the streams at rest.
Context == AcquisitionInv /\ ArmedHasAcquisition /\ CurvesTypes /\ AllStill

\* An edge that waits for both acquisitions finds no request, no sample of a sweep,
\* and no interrupt.
LEMMA EdgeFindsRest ==
  ASSUME EdgeInFlight = FALSE, Context, CaptureInv, EdgeStart \/ EdgeOther, NEW c \in Chan
  PROVE  /\ ~enable[c] /\ fill[c] = 0 /\ dma[c].flags = {} /\ scope[c] = LastShown
         /\ pc = "poll"
<1>1. pc = "poll" /\ Quiet
  BY DEF EdgeStart, EdgeOther, TouchChanges, MainAt
<1>2. ~Pending(dma[c]) /\ dma[c].flags = {} /\ ~dma[c].en
  BY <1>1, NothingWaits DEF Quiet, Context
<1>3. ~enable[c]
  BY <1>1, <1>2 DEF Context, ArmedHasAcquisition
<1> QED BY <1>1, <1>2, <1>3 DEF CaptureInv, SweepInv, ShownInv, Toggling, Context,
                                AcquisitionInv, TypeOK

\* A press, and the other edges.
LEMMA EdgeKeeps ==
  ASSUME EdgeInFlight = FALSE, Context, CaptureInv,
         PressStart \/ PressMath \/ OtherEdge \/ \E c \in Chan : PressChannel(c)
  PROVE  CaptureInv'
<1> SUFFICES ASSUME NEW c \in Chan PROVE SweepInv(c)' /\ AskInv(c)' /\ ShownInv(c)'
  BY DEF CaptureInv
<1>1. /\ EdgeStart \/ EdgeOther
      /\ UNCHANGED <<enable, fill, dma, buff, scope>>
  BY DEF PressStart, PressMath, OtherEdge, PressChannel, EdgeStart, EdgeOther,
         TouchChanges, curves
<1>2. ~enable[c] /\ fill[c] = 0 /\ dma[c].flags = {} /\ scope[c] = LastShown
  BY <1>1, EdgeFindsRest
<1>3. SweepInv(c)'
  BY <1>1, <1>2 DEF SweepInv
<1>4. CASE PressStart
  <2>1. presses' > 0 /\ pc' = "toggleLoad" /\ ch' = ch
    BY <1>4 DEF PressStart, EdgeStart, Goto, Context, CurvesTypes, Ids
  <2>2. ch = 1
    BY <1>4 DEF PressStart, EdgeStart, TouchChanges, MainAt, CaptureInv, AskInv
  <2> QED BY <1>1, <1>2, <1>3, <2>1, <2>2 DEF AskInv, ShownInv, Toggling, Chan
<1>5. CASE PressMath \/ OtherEdge \/ \E d \in Chan : PressChannel(d)
  <2>1. pc' = "redraw" /\ presses' = presses
    BY <1>5 DEF PressMath, OtherEdge, PressChannel, EdgeOther, Goto, curves
  <2> QED BY <1>1, <1>2, <1>3, <2>1 DEF AskInv, ShownInv, Toggling, LastShown
<1> QED BY <1>4, <1>5


\* The toggles make both requests.
LEMMA ToggleKeeps ==
  ASSUME Context, CaptureInv, ToggleLoad \/ ToggleStore, UNCHANGED curves
  PROVE  CaptureInv'
<1> SUFFICES ASSUME NEW c \in Chan PROVE SweepInv(c)' /\ AskInv(c)' /\ ShownInv(c)'
  BY DEF CaptureInv
<1> USE DEF Toggling
<1>1. SweepInv(c) /\ AskInv(c) /\ ShownInv(c) /\ AskInv(ch) /\ ch \in Chan
      /\ enable \in [Chan -> BOOLEAN]
  BY DEF CaptureInv, Context, AcquisitionInv, TypeOK
<1>2. UNCHANGED <<dma, fill, buff, scope, presses>>
  BY DEF ToggleLoad, ToggleStore, curves
<1>3. SweepInv(c)'
  BY <1>1, <1>2 DEF SweepInv
<1>4. CASE ToggleLoad
  BY <1>1, <1>2, <1>3, <1>4 DEF ToggleLoad, MainAt, Goto, AskInv, ShownInv, LastShown,
                                 Chan
<1>5. CASE ToggleStore
  <2>1. ~old /\ enable' = [enable EXCEPT ![ch] = TRUE] /\ pc = "toggleStore"
    BY <1>1, <1>5 DEF ToggleStore, MainAt, AskInv
  <2> QED BY <1>1, <1>2, <1>3, <1>5, <2>1
          DEF ToggleStore, AskInv, ShownInv, LastShown, Chan
<1> QED BY <1>4, <1>5

\* DmaAdcStart() starts a sweep from the beginning of the buffer.
LEMMA StartKeeps ==
  ASSUME Context, CaptureInv, Redraw \/ StartDma,
         UNCHANGED <<presses, buff, scope>>
  PROVE  CaptureInv'
<1> SUFFICES ASSUME NEW c \in Chan PROVE SweepInv(c)' /\ AskInv(c)' /\ ShownInv(c)'
  BY DEF CaptureInv
<1>0. /\ SweepInv(c) /\ AskInv(c) /\ ShownInv(c) /\ ch \in Chan
      /\ dma \in [Chan -> Stream] /\ dma[c] \in Stream /\ fill \in [Chan -> 0..2]
      /\ StreamInv(c)
  BY DEF CaptureInv, Context, AcquisitionInv, TypeOK
<1>1. dma[c].flags = {}
  BY NothingWaits DEF Context, MainStep
<1>2. /\ UNCHANGED enable /\ pc \notin Toggling /\ pc' \notin Toggling
      /\ pc' = "poll" => ch' = 1
  BY DEF Redraw, StartDma, AdcLock, EnableOverrunIT, DmaBitLoad, DmaBitStore,
     DmaLockTest, DmaClaim, DmaProgram, DmaEnable, AdcUnlock, AdonTest, AdonLoad,
     AdonStore, SwStartLoad, SwStartStore, StartReturns, MainAt, Goto, Toggling
<1>3. AskInv(c)' /\ ShownInv(c)'
  BY <1>0, <1>2 DEF AskInv, ShownInv, LastShown, Toggling
<1>4. CASE DmaClaim
  BY <1>0, <1>1, <1>3, <1>4, StartFacts DEF DmaClaim, SweepInv
<1>5. CASE DmaProgram
  <2>1. ch = c => ~dma[c].en /\ fill[c] = 0
    BY <1>0, <1>5 DEF DmaProgram, MainAt, StreamInv, Starting, SweepInv
  <2> QED BY <1>0, <1>1, <1>3, <1>5, <2>1, StartFacts DEF DmaProgram, SweepInv
<1>6. CASE DmaEnable
  BY <1>0, <1>1, <1>3, <1>6, StartFacts DEF DmaEnable, SweepInv
<1>7. CASE ~(DmaClaim \/ DmaProgram \/ DmaEnable)
  <2>1. UNCHANGED <<dma, fill>>
    BY <1>7 DEF Redraw, StartDma, AdcLock, EnableOverrunIT, DmaBitLoad, DmaBitStore,
       DmaLockTest, AdcUnlock, AdonTest, AdonLoad, AdonStore, SwStartLoad, SwStartStore
  <2> QED BY <1>0, <1>3, <2>1 DEF SweepInv
<1> QED BY <1>3, <1>4, <1>5, <1>6, <1>7

\* A handler that is asked puts a curve of the last press on the screen.
LEMMA CaptureKeeps ==
  ASSUME Context, CaptureInv, NEW d \in Chan, CaptureIRQ(d)
  PROVE  /\ CaptureInv'
         /\ enable[d] => presses > 0 /\ scope' = [scope EXCEPT ![d] = {presses}]
<1>0. /\ StreamInv(d) /\ dma \in [Chan -> Stream] /\ dma[d] \in Stream
      /\ enable \in [Chan -> BOOLEAN] /\ fill \in [Chan -> 0..2]
      /\ scope \in [Chan -> SUBSET Ids] /\ presses \in Nat
      /\ SweepInv(d) /\ AskInv(d) /\ ShownInv(d)
  BY DEF CaptureInv, Context, AcquisitionInv, TypeOK, CurvesTypes, Ids
<1>1. pc \notin Toggling /\ UNCHANGED <<pc, ch, old, presses, buff>>
  BY NoCapture DEF Context, CaptureIRQ, StreamIRQ, main
<1>2. dma[d].flags # {} /\ dma[d].ie = Flags
  BY <1>0 DEF CaptureIRQ, StreamIRQ, Pending, StreamInv
<1>3. dma'[d].flags = {} /\ fill'[d] = 0 /\ ~enable'[d]
  <2>1. dma'[d] = IRQHandler(Abort(dma[d]), TRUE)
    BY <1>0 DEF CaptureIRQ, StreamIRQ
  <2>2. fill'[d] = 0 /\ ~enable'[d]
    BY <1>0 DEF CaptureIRQ, StreamIRQ
  <2> QED BY <1>0, <1>2, <2>1, <2>2, HandlerFacts
<1>4. enable[d] => presses > 0 /\ scope' = [scope EXCEPT ![d] = {presses}]
  BY <1>0, <1>2 DEF CaptureIRQ, SweepInv, AskInv
<1>5. scope'[d] = LastShown
  <2>1. CASE enable[d]
    <3>1. scope'[d] = {presses} /\ presses # 0
      BY <1>0, <1>4, <2>1
    <3> QED BY <3>1 DEF LastShown
  <2>2. CASE ~enable[d]
    BY <1>0, <1>1, <2>2 DEF CaptureIRQ, ShownInv
  <2> QED BY <2>1, <2>2
<1>6. ASSUME NEW c \in Chan PROVE SweepInv(c)' /\ AskInv(c)' /\ ShownInv(c)'
  <2>1. CASE c = d
    BY <1>0, <1>1, <1>3, <1>5, <2>1 DEF SweepInv, AskInv, ShownInv, LastShown
  <2>2. CASE c # d
    <3>1. /\ dma'[c] = dma[c] /\ fill'[c] = fill[c] /\ enable'[c] = enable[c]
          /\ scope'[c] = scope[c]
      BY <1>0, <2>2 DEF CaptureIRQ, StreamIRQ
    <3> QED BY <1>1, <3>1 DEF CaptureInv, SweepInv, AskInv, ShownInv, LastShown
  <2> QED BY <2>1, <2>2
<1> QED BY <1>4, <1>6 DEF CaptureInv

\* What the hardware writes to the buffer are samples of the last press.
LEMMA SweepKeeps ==
  ASSUME Faults = FALSE, Context, CaptureInv, NEW d \in Chan,
         \/ SampleArrives(d) \/ HalfArrives(d)
         \/ HwFull(d) /\ UNCHANGED curves
  PROVE  CaptureInv'
<1> SUFFICES ASSUME NEW c \in Chan PROVE SweepInv(c)' /\ AskInv(c)' /\ ShownInv(c)'
  BY DEF CaptureInv
<1>0. /\ dma \in [Chan -> Stream] /\ dma[c] \in Stream /\ fill \in [Chan -> 0..2]
      /\ buff \in [Chan -> [stale : SUBSET Ids, fresh : SUBSET Ids]]
      /\ SweepInv(c) /\ AskInv(c) /\ ShownInv(c)
  BY DEF CaptureInv, Context, AcquisitionInv, TypeOK, CurvesTypes
<1>1. UNCHANGED <<pc, ch, old, enable, presses, scope>>
  BY DEF SampleArrives, HalfArrives, HwSample, HwHalf, HwFull, main, curves
<1>2. AskInv(c)' /\ ShownInv(c)'
  BY <1>0, <1>1 DEF AskInv, ShownInv, LastShown
<1>3. CASE c # d
  <2>1. dma'[c] = dma[c] /\ fill'[c] = fill[c] /\ buff'[c] = buff[c]
    BY <1>0, <1>3 DEF SampleArrives, HalfArrives, HwSample, HwHalf, HwFull, curves
  <2> QED BY <1>0, <1>1, <1>2, <2>1 DEF SweepInv
<1>4. CASE c = d /\ SampleArrives(d)
  <2>1. /\ dma'[c] = dma[c] /\ dma[c].en /\ fill'[c] = 1
        /\ buff'[c] = [stale |-> Contents(buff[c]), fresh |-> {presses}]
    BY <1>0, <1>4 DEF SampleArrives, HwSample, Served
  <2> QED BY <1>0, <1>1, <1>2, <2>1 DEF SweepInv, Contents
<1>5. CASE c = d /\ HalfArrives(d)
  <2>1. /\ dma'[c].en /\ "HT" \in dma'[c].flags /\ fill'[c] = 2
        /\ buff'[c] = [stale |-> {}, fresh |-> buff[c].fresh \cup {presses}]
        /\ buff[c].fresh = {presses}
    BY <1>0, <1>5 DEF HalfArrives, HwHalf, Served, Stream, SweepInv
  <2> QED BY <1>1, <1>2, <2>1 DEF SweepInv, Contents
<1>6. CASE c = d /\ HwFull(d) /\ UNCHANGED curves
  <2>1. /\ dma'[c].en /\ fill'[c] = 0 /\ buff' = buff
        /\ dma[c].flags # {} /\ Contents(buff[c]) = {presses}
    BY <1>0, <1>6 DEF HwFull, Served, Stream, SweepInv, curves
  <2> QED BY <1>1, <1>2, <2>1 DEF SweepInv
<1> QED BY <1>3, <1>4, <1>5, <1>6

\* Every step keeps what a capture shows.
LEMMA CaptureInvKept ==
  ASSUME EdgeInFlight = FALSE, Faults = FALSE, Context, CaptureInv,
         [CurvesNext]_allVars
  PROVE  CaptureInv'
<1>1. CASE UNCHANGED <<vars, presses, buff, scope>>
  BY <1>1 DEF CaptureInv, SweepInv, AskInv, ShownInv, LastShown, vars, main
<1>2. CASE PressStart \/ PressMath \/ OtherEdge \/ \E c \in Chan : PressChannel(c)
  BY <1>2, EdgeKeeps
<1>3. CASE CopyMemory \/ MathStarts \/ MathEnds
  BY <1>1, <1>3 DEF CopyMemory, CopyStarts, CopyEnds, MathStarts, MathEnds, RedrawAt
<1>4. CASE Draw \/ (StartDma /\ UNCHANGED curves)
  BY <1>4, StartKeeps DEF Draw, curves
<1>5. CASE (ToggleLoad \/ ToggleStore) /\ UNCHANGED curves
  BY <1>5, ToggleKeeps
<1>6. CASE PollNoChange /\ UNCHANGED curves
  BY <1>1, <1>6 DEF PollNoChange, curves
<1>7. ASSUME NEW c \in Chan,
             AdcIRQ \/ HwOverrunIdle(c) \/ HwOverrunServed(c), UNCHANGED curves
      PROVE  CaptureInv'
  BY <1>7 DEF AdcIRQ, HwOverrunIdle, HwOverrunServed, main, curves, CaptureInv,
              SweepInv, AskInv, ShownInv, LastShown
<1>8. \A c \in Chan : ~HwFault(c)
  BY DEF HwFault
<1>9. CASE OtherSteps
  <2>1. PICK c \in Chan : \/ PollNoChange \/ AdcIRQ \/ HwFull(c) \/ HwFault(c)
                          \/ HwOverrunIdle(c) \/ HwOverrunServed(c)
    BY <1>9 DEF OtherSteps, Chan
  <2> QED BY <1>6, <1>7, <1>8, <1>9, <2>1, SweepKeeps DEF OtherSteps
<1>10. CASE \E c \in Chan : CaptureIRQ(c) \/ SampleArrives(c) \/ HalfArrives(c)
  BY <1>10, CaptureKeeps, SweepKeeps
<1>11. CASE UNCHANGED allVars
  BY <1>1, <1>11 DEF allVars, curves
<1> QED BY <1>2, <1>3, <1>4, <1>5, <1>9, <1>10, <1>11 DEF CurvesNext, MainActs

\* A request finds START pressed and is made once; a sweep and its interrupt are of
\* the last press; a channel that is not asked shows it.
THEOREM CaptureInvariant ==
  ASSUME EdgeInFlight = FALSE, Faults = FALSE PROVE CurvesSpec => []CaptureInv
<1>1. CurvesInit => CaptureInv
  BY DEF CurvesInit, Init, FreshStream, CaptureInv, SweepInv, AskInv, ShownInv,
         LastShown, Toggling
<1>2. AcquisitionInv /\ ArmedHasAcquisition /\ PacedInv /\ CaptureInv
        /\ [CurvesNext]_allVars => CaptureInv'
  BY CaptureInvKept DEF PacedInv, Context
<1> QED BY <1>1, <1>2, Below, PacedInvariant, PTL DEF CurvesSpec

\* Requests made together and served apart: when both acquisitions are over, both
\* channels show the last press.
THEOREM ChannelsAgree ==
  ASSUME EdgeInFlight = FALSE, Faults = FALSE PROVE CurvesSpec => []ChannelsTogether
<1>1. AcquisitionInv /\ ArmedHasAcquisition /\ CaptureInv => ChannelsTogether
  <2> SUFFICES ASSUME AcquisitionInv, ArmedHasAcquisition, CaptureInv,
                      pc = "poll", Quiet
               PROVE  enable[1] = enable[2] /\ scope[1] = scope[2]
    BY DEF ChannelsTogether
  <2>1. ASSUME NEW c \in Chan PROVE ~enable[c] /\ scope[c] = LastShown
    <3>1. ~enable[c]
      BY DEF ArmedHasAcquisition, Quiet, IrqPending
    <3> QED BY <3>1 DEF CaptureInv, ShownInv, Toggling
  <2>2. enable[1] \in BOOLEAN /\ enable[2] \in BOOLEAN
    BY DEF AcquisitionInv, TypeOK, Chan
  <2> QED BY <2>1, <2>2 DEF Chan
<1> QED BY <1>1, Below, CaptureInvariant, PTL

-----------------------------------------------------------------------------
(* The refinement.                                                          *)

\* Each step is one of the oscilloscope, or does nothing it sees.
LEMMA StepMaps ==
  ASSUME Context, CaptureInv, [CurvesNext]_allVars
  PROVE  [Promise!Next]_(Promise!vars)
<1> USE DEF Promise!Next, Promise!vars
<1>0. /\ mem \in [Chan -> Halves] /\ enable \in [Chan -> BOOLEAN]
      /\ scope \in [Chan -> SUBSET Ids] /\ ch \in Chan /\ presses \in Nat
  BY DEF Context, CurvesTypes, AcquisitionInv, TypeOK, Ids
<1>1. CASE UNCHANGED <<presses, enable, scope, mem, math>>
  BY <1>1
<1>2. CASE PressStart
  BY <1>2 DEF PressStart, EdgeStart, TouchChanges, Promise!Press
<1>3. CASE PressMath \/ OtherEdge \/ \E c \in Chan : PressChannel(c)
  BY <1>1, <1>3 DEF PressMath, OtherEdge, PressChannel, EdgeOther, TouchChanges, curves
<1>4. ASSUME NEW c \in Chan, NEW s, NEW half, NEW skip, CopyStarts(c, s, half, skip)
      PROVE  UNCHANGED <<presses, enable, scope, [d \in Chan |-> mem[d].hi], math.hi>>
  <2>1. \A d \in Chan : mem'[d].hi = mem[d].hi
    BY <1>0, <1>4 DEF CopyStarts, Halves
  <2> QED BY <1>4, <2>1 DEF CopyStarts, RedrawAt, vars
<1>5. ASSUME NEW c \in Chan, NEW half, NEW next, CopyEnds(c, half, next)
      PROVE  Promise!Memorise(c)
  <2>1. \A d \in Chan : mem'[d].hi = IF d = c THEN scope[c] ELSE mem[d].hi
    BY <1>0, <1>5 DEF CopyEnds, Halves
  <2> QED BY <1>5, <2>1 DEF CopyEnds, RedrawAt, vars, display, Promise!Memorise
<1>6. CASE CopyMemory
  BY <1>4, <1>5, <1>6 DEF CopyMemory, Chan
<1>7. CASE MathStarts
  <2>1. UNCHANGED <<presses, enable, scope, mem, math.hi>>
    BY <1>7 DEF MathStarts, RedrawAt, vars, Context, CurvesTypes
  <2> QED BY <2>1
<1>8. CASE MathEnds
  BY <1>8 DEF MathEnds, RedrawAt, vars, Context, CurvesTypes, Promise!Combine
<1>9. CASE Draw \/ ((ToggleLoad \/ StartDma) /\ UNCHANGED curves)
  <2>1. UNCHANGED enable
    BY <1>9 DEF Draw, Redraw, ToggleLoad, StartDma, AdcLock, EnableOverrunIT,
       DmaBitLoad, DmaBitStore, DmaLockTest, DmaClaim, DmaProgram, DmaEnable,
       AdcUnlock, AdonTest, AdonLoad, AdonStore, SwStartLoad, SwStartStore
  <2> QED BY <1>1, <1>9, <2>1 DEF Draw, curves
<1>10. CASE ToggleStore /\ UNCHANGED curves
  <2>1. presses > 0 /\ ~enable[ch] /\ ~old
    BY <1>0, <1>10 DEF ToggleStore, MainAt, CaptureInv, AskInv, Toggling, Chan
  <2> QED BY <1>0, <1>10, <2>1 DEF ToggleStore, curves, Promise!Ask
<1>11. CASE OtherSteps
  BY <1>1, <1>11 DEF OtherSteps, PollNoChange, AdcIRQ, HwFull, HwFault, HwOverrunIdle,
                     HwOverrunServed, vars, curves
<1>12. ASSUME NEW c \in Chan, CaptureIRQ(c) PROVE [Promise!Next]_(Promise!vars)
  <2>1. UNCHANGED <<presses, mem, math>> /\ enable' = [enable EXCEPT ![c] = FALSE]
    BY <1>12 DEF CaptureIRQ, StreamIRQ
  <2>2. CASE enable[c]
    BY <1>12, <2>1, <2>2, CaptureKeeps DEF Promise!Capture
  <2>3. CASE ~enable[c]
    BY <1>0, <1>1, <1>12, <2>1, <2>3 DEF CaptureIRQ
  <2> QED BY <2>2, <2>3
<1>13. CASE \E c \in Chan : SampleArrives(c) \/ HalfArrives(c)
  BY <1>1, <1>13 DEF SampleArrives, HalfArrives, HwSample, HwHalf
<1>14. CASE UNCHANGED allVars
  BY <1>1, <1>14 DEF allVars, vars, curves
<1> QED BY <1>2, <1>3, <1>6, <1>7, <1>8, <1>9, <1>10, <1>11, <1>12, <1>13, <1>14
        DEF CurvesNext, MainActs

\* Paced by the user, and with streams that do not fail, the code implements the
\* oscilloscope for every number of presses: a capture shows samples of the last
\* press only and takes effect at once, copies and the math curve are of one moment,
\* and only a press asks.
THEOREM PromiseKept ==
  ASSUME EdgeInFlight = FALSE, Faults = FALSE PROVE CurvesSpec => Implements
<1>1. CurvesInit => Promise!Init
  BY DEF CurvesInit, Init, Promise!Init
<1>2. AcquisitionInv /\ ArmedHasAcquisition /\ PacedInv /\ CaptureInv
        /\ [CurvesNext]_allVars => [Promise!Next]_(Promise!vars)
  BY StepMaps DEF PacedInv, Context
<1> QED BY <1>1, <1>2, Below, PacedInvariant, CaptureInvariant, PTL
        DEF CurvesSpec, Implements, Promise!Spec
=============================================================================
