----------------------- MODULE ScopeAcquisition_proofs -----------------------
(***************************************************************************)
(* Proofs about the acquisition, for both values of every constant: type   *)
(* correctness, the ownership of the locks HAL_DMA_Start_IT and            *)
(* HAL_ADC_Start_DMA take, from the inductive invariant StreamInv, and the *)
(* acquisition of each channel that is armed, from ArmInv.                 *)
(***************************************************************************)
EXTENDS ScopeAcquisition, TLAPS

-----------------------------------------------------------------------------
(* The HAL operators on one stream.                                         *)

\* HAL_DMA_Abort leaves a stream of the right type, unlocked and disabled, and
\* masks no interrupt.
LEMMA AbortFacts ==
  ASSUME NEW s \in Stream
  PROVE  /\ Abort(s) \in Stream
         /\ ~Abort(s).lock /\ ~Abort(s).en /\ Abort(s).ie = s.ie
BY DEF Abort, Disable, Stream, DmaState, Flags

\* The three parts of HAL_DMA_Start_IT keep the type; the flags a stream raises
\* while it is disabled are those it had.
LEMMA StartFacts ==
  ASSUME NEW s \in Stream
  PROVE  /\ Claim(s) \in Stream /\ Program(s) \in Stream /\ Enable(s) \in Stream
         /\ Claim(s).lock /\ Claim(s).en = s.en /\ Claim(s).flags = s.flags
         /\ Claim(s).ie = s.ie
         /\ Program(s).lock = s.lock /\ Program(s).ie = Flags /\ ~Program(s).en
         /\ ~s.en => Program(s).flags = s.flags
         /\ Enable(s).lock = s.lock /\ Enable(s).ie = s.ie /\ Enable(s).en
         /\ Enable(s).flags = s.flags
<1>1. /\ Claim(s) \in Stream /\ Claim(s).lock /\ Claim(s).en = s.en
      /\ Claim(s).flags = s.flags /\ Claim(s).ie = s.ie
  BY DEF Claim, Stream, DmaState
<1>2. /\ Disable(s) \in Stream /\ Disable(s).lock = s.lock /\ ~Disable(s).en
      /\ ~s.en => Disable(s).flags = s.flags
  BY DEF Disable, Stream, Flags
<1>3. /\ Program(s) \in Stream /\ Program(s).lock = s.lock
      /\ Program(s).ie = Flags /\ ~Program(s).en
      /\ ~s.en => Program(s).flags = s.flags
  BY <1>2 DEF Program, Stream
<1>4. /\ Enable(s) \in Stream /\ Enable(s).lock = s.lock
      /\ Enable(s).ie = s.ie /\ Enable(s).en /\ Enable(s).flags = s.flags
  BY DEF Enable, Stream
<1> QED BY <1>1, <1>3, <1>4

\* The error part of HAL_DMA_IRQHandler keeps the type, leaves EN alone, never
\* takes the lock, and masks and clears exactly the errors that were raised.
LEMMA ErrorsFacts ==
  ASSUME NEW s \in Stream
  PROVE  LET t == HandleErrors(s)
         IN  /\ t \in Stream /\ t.en = s.en /\ (t.lock => s.lock)
             /\ t.ie = s.ie \ (Raised(s) \cap ErrFlags)
             /\ t.flags = s.flags \ (Raised(s) \cap ErrFlags)
BY DEF HandleErrors, Raised, Stream, DmaState, Flags, ErrFlags

\* Its half-transfer part clears HT if it is enabled and, on a circular stream,
\* masks nothing and leaves lock and EN alone.
LEMMA HalfFacts ==
  ASSUME NEW s \in Stream
  PROVE  LET t == HandleHalf(s, TRUE)
         IN  /\ t \in Stream /\ t.en = s.en /\ t.lock = s.lock /\ t.ie = s.ie
             /\ t.flags = s.flags \ (s.ie \cap {"HT"})
BY DEF HandleHalf, Raised, Stream, DmaState, Flags, ErrFlags

\* Its transfer-complete part clears TC if it is enabled, gives the lock back or
\* leaves it, and masks nothing on a circular stream.
LEMMA CompleteFacts ==
  ASSUME NEW s \in Stream
  PROVE  LET t == HandleComplete(s, TRUE)
         IN  /\ t \in Stream /\ t.en = s.en /\ (t.lock => s.lock) /\ t.ie = s.ie
             /\ t.flags = s.flags \ (s.ie \cap {"TC"})
BY DEF HandleComplete, Raised, Stream, DmaState, Flags, ErrFlags

\* What a stream handler of the scope leaves: a stream that is disabled, that
\* can be locked again, and that asks for no interrupt.
LEMMA HandlerFacts ==
  ASSUME NEW s \in Stream
  PROVE  LET t == IRQHandler(Abort(s), TRUE)
         IN  /\ t \in Stream /\ ~t.lock /\ ~t.en
             /\ s.ie = Flags => t.flags = {}
<1> DEFINE a == Abort(s)
           e == HandleErrors(a)
           h == HandleHalf(e, TRUE)
           t == HandleComplete(h, TRUE)
<1>1. a \in Stream /\ ~a.lock /\ ~a.en /\ a.ie = s.ie
  BY AbortFacts
<1>2. /\ e \in Stream /\ ~e.lock /\ ~e.en
      /\ e.ie = a.ie \ (Raised(a) \cap ErrFlags)
      /\ e.flags = a.flags \ (Raised(a) \cap ErrFlags)
  BY <1>1, ErrorsFacts
<1>3. /\ h \in Stream /\ ~h.lock /\ ~h.en /\ h.ie = e.ie
      /\ h.flags = e.flags \ (e.ie \cap {"HT"})
  BY <1>2, HalfFacts
<1>4. /\ t \in Stream /\ ~t.lock /\ ~t.en
      /\ t.flags = h.flags \ (h.ie \cap {"TC"})
  BY <1>3, CompleteFacts
<1>5. ASSUME s.ie = Flags PROVE t.flags = {}
  <2>1. a.flags \subseteq Flags
    BY <1>1 DEF Stream
  <2>2. e.flags \subseteq {"HT", "TC"} /\ {"HT", "TC"} \subseteq e.ie
    BY <1>1, <1>2, <1>5, <2>1 DEF Raised, Flags, ErrFlags
  <2> QED BY <1>3, <1>4, <2>2
<1> QED BY <1>4, <1>5 DEF IRQHandler

\* A stream that raises a flag, and one that a transfer error disables besides,
\* keep their type.
LEMMA FlagFacts ==
  ASSUME NEW s \in Stream, NEW g \in Flags
  PROVE  /\ [s EXCEPT !.flags = @ \cup {g}] \in Stream
         /\ [s EXCEPT !.flags = @ \cup {g}, !.en = FALSE] \in Stream
BY DEF Stream, Flags

-----------------------------------------------------------------------------
(* Type correctness.                                                        *)

\* The state in which main() first calls DmaAdcStart() is well typed.
LEMMA InitTypeOK == Init => TypeOK
<1> SUFFICES ASSUME Init PROVE TypeOK
  OBVIOUS
<1>1. pc \in Label /\ ch \in Chan /\ old \in BOOLEAN /\ changed \in BOOLEAN
  BY DEF Init, Label, Chan
<1>2. cr2 \in Cr2
  BY DEF Init, Cr2, NoCr2
<1>3. enable \in [Chan -> BOOLEAN] /\ fill \in [Chan -> 0..2]
  BY DEF Init
<1>4. adc \in [Chan -> Adc]
  BY DEF Init, Adc
<1>5. FreshStream \in Stream
  BY DEF FreshStream, Stream, DmaState
<1>6. dma \in [Chan -> Stream]
  BY <1>5 DEF Init
<1> QED BY <1>1, <1>2, <1>3, <1>4, <1>6 DEF TypeOK

\* The values the steps of main() and of the hardware store in an ADC's record.
LEMMA AdcStores ==
  ASSUME NEW f \in [Chan -> Adc], NEW c \in Chan, NEW b \in BOOLEAN, NEW d \in Cr2
  PROVE  /\ [f EXCEPT ![c].lock = b] \in [Chan -> Adc]
         /\ [f EXCEPT ![c].ovrie = b] \in [Chan -> Adc]
         /\ [f EXCEPT ![c].adon = d.adon, ![c].dmab = d.dmab] \in [Chan -> Adc]
         /\ [f EXCEPT ![c].adon = d.adon, ![c].dmab = d.dmab, ![c].conv = b]
               \in [Chan -> Adc]
         /\ [f EXCEPT ![c].ovr = TRUE, ![c].conv = FALSE] \in [Chan -> Adc]
         /\ [f EXCEPT ![c] = StopAdc(@)] \in [Chan -> Adc]
<1>1. d.adon \in BOOLEAN /\ d.dmab \in BOOLEAN
  BY DEF Cr2
<1>2. /\ [f[c] EXCEPT !.lock = b] \in Adc
      /\ [f[c] EXCEPT !.ovrie = b] \in Adc
  BY DEF Adc
<1>3. /\ [f[c] EXCEPT !.adon = d.adon, !.dmab = d.dmab] \in Adc
      /\ [f[c] EXCEPT !.adon = d.adon, !.dmab = d.dmab, !.conv = b] \in Adc
  BY <1>1 DEF Adc
<1>4. /\ [f[c] EXCEPT !.ovr = TRUE, !.conv = FALSE] \in Adc
      /\ StopAdc(f[c]) \in Adc
  BY DEF Adc, StopAdc
<1>5. [f EXCEPT ![c].adon = d.adon, ![c].dmab = d.dmab] \in [Chan -> Adc]
  BY <1>3
<1>6. [f EXCEPT ![c].adon = d.adon, ![c].dmab = d.dmab, ![c].conv = b]
         \in [Chan -> Adc]
  BY <1>3
<1>7. [f EXCEPT ![c].ovr = TRUE, ![c].conv = FALSE] \in [Chan -> Adc]
  BY <1>4
<1> QED BY <1>2, <1>4, <1>5, <1>6, <1>7

\* The labels main() goes to are labels, and it works on a channel.
LEMMA NextLabel ==
  ASSUME TypeOK, MainStep \/ EdgeStart \/ EdgeOther
  PROVE  pc' \in Label /\ ch' \in Chan
<1> USE DEF TypeOK, Label, Locked, Chan, Goto, StartReturns
<1>1. CASE EdgeStart \/ EdgeOther
  BY <1>1 DEF EdgeStart, EdgeOther
<1>2. CASE ToggleLoad \/ ToggleStore \/ Redraw
  BY <1>2 DEF ToggleLoad, ToggleStore, Redraw
<1>3. CASE AdcLock \/ EnableOverrunIT \/ DmaBitLoad \/ DmaBitStore \/ DmaLockTest
  BY <1>3 DEF AdcLock, EnableOverrunIT, DmaBitLoad, DmaBitStore, DmaLockTest
<1>4. CASE DmaClaim \/ DmaProgram \/ DmaEnable \/ AdcUnlock \/ AdonTest
  BY <1>4 DEF DmaClaim, DmaProgram, DmaEnable, AdcUnlock, AdonTest
<1>5. CASE AdonLoad \/ AdonStore \/ SwStartLoad \/ SwStartStore
  BY <1>5 DEF AdonLoad, AdonStore, SwStartLoad, SwStartStore
<1> QED BY <1>1, <1>2, <1>3, <1>4, <1>5 DEF MainStep, StartDma

\* Every step of main(), of a handler or of the hardware keeps the types.
LEMMA NextTypeOK == TypeOK /\ [Next]_vars => TypeOK'
<1> SUFFICES ASSUME TypeOK, [Next]_vars PROVE TypeOK'
  OBVIOUS
<1> USE DEF TypeOK
<1>a. adc[ch] \in Adc /\ NoCr2 \in Cr2 /\ [cr2 EXCEPT !.dmab = TRUE] \in Cr2
      /\ [cr2 EXCEPT !.adon = TRUE] \in Cr2
      /\ [adon |-> adc[ch].adon, dmab |-> adc[ch].dmab] \in Cr2
  BY DEF Adc, Cr2, NoCr2
<1>0. CASE UNCHANGED vars
  BY <1>0 DEF vars, main
<1>1. CASE PollNoChange
  BY <1>1 DEF PollNoChange, vars, main
<1>2. CASE EdgeStart \/ EdgeOther
  BY <1>2, NextLabel DEF EdgeStart, EdgeOther, TouchChanges
<1>3. CASE ToggleLoad \/ ToggleStore \/ Redraw
  <2>1. pc' \in Label /\ ch' \in Chan
    BY <1>3, NextLabel DEF MainStep
  <2>2. CASE ToggleLoad
    BY <2>1, <2>2 DEF ToggleLoad
  <2>3. CASE ToggleStore
    BY <2>1, <2>3 DEF ToggleStore
  <2>4. CASE Redraw
    BY <2>1, <2>4 DEF Redraw
  <2> QED BY <1>3, <2>2, <2>3, <2>4
<1>4. CASE StartDma
  <2>1. pc' \in Label /\ ch' \in Chan
    BY <1>4, NextLabel DEF MainStep
  <2>2. CASE AdcLock
    <3>1. [adc EXCEPT ![ch].lock = TRUE] \in [Chan -> Adc]
      BY AdcStores, <1>a
    <3> QED BY <2>1, <2>2, <3>1 DEF AdcLock
  <2>3. CASE EnableOverrunIT
    BY <2>1, <2>3, AdcStores, <1>a DEF EnableOverrunIT
  <2>4. CASE AdcUnlock
    BY <2>1, <2>4, AdcStores, <1>a DEF AdcUnlock
  <2>5. CASE DmaBitLoad \/ AdonLoad \/ SwStartLoad
    BY <2>1, <2>5, <1>a DEF DmaBitLoad, AdonLoad, SwStartLoad, LoadCr2
  <2>6. CASE DmaBitStore
    BY <2>1, <2>6, AdcStores, <1>a DEF DmaBitStore, SetCr2
  <2>7. CASE AdonStore
    BY <2>1, <2>7, AdcStores, <1>a DEF AdonStore, SetCr2
  <2>8. CASE SwStartStore
    <3>1. (cr2.adon /\ ~adc[ch].ovr) \in BOOLEAN
      OBVIOUS
    <3> QED BY <2>1, <2>8, <3>1, AdcStores, <1>a DEF SwStartStore
  <2>9. CASE DmaLockTest \/ AdonTest
    BY <2>1, <2>9 DEF DmaLockTest, AdonTest
  <2>10. CASE DmaClaim \/ DmaProgram \/ DmaEnable
    <3>1. dma[ch] \in Stream
      OBVIOUS
    <3>2. /\ Claim(dma[ch]) \in Stream /\ Program(dma[ch]) \in Stream
          /\ Enable(dma[ch]) \in Stream
      BY <3>1, StartFacts
    <3> QED BY <2>1, <2>10, <3>2 DEF DmaClaim, DmaProgram, DmaEnable
  <2> QED BY <1>4, <2>2, <2>3, <2>4, <2>5, <2>6, <2>7, <2>8, <2>9, <2>10
             DEF StartDma
<1>5. CASE AdcIRQ
  <2>1. \A c \in Chan : [adc[c] EXCEPT !.ovr = FALSE] \in Adc
    BY DEF Adc
  <2> QED BY <1>5, <2>1 DEF AdcIRQ, main
<1>6. ASSUME NEW c \in Chan, StreamIRQ(c) PROVE TypeOK'
  <2>1. dma[c] \in Stream
    OBVIOUS
  <2>2. IRQHandler(Abort(dma[c]), TRUE) \in Stream
    BY <2>1, HandlerFacts
  <2>3. [dma EXCEPT ![c] = IRQHandler(Abort(@), TRUE)] \in [Chan -> Stream]
    BY <2>2
  <2>4. [adc EXCEPT ![c] = StopAdc(@)] \in [Chan -> Adc]
    BY AdcStores, <1>a
  <2>5. UNCHANGED <<pc, ch, old, cr2, changed>>
    BY <1>6 DEF StreamIRQ, main
  <2>6. adc' \in [Chan -> Adc] /\ dma' \in [Chan -> Stream]
    BY <1>6, <2>3, <2>4 DEF StreamIRQ
  <2>7. enable' \in [Chan -> BOOLEAN] /\ fill' \in [Chan -> 0..2]
    BY <1>6 DEF StreamIRQ
  <2> QED BY <2>5, <2>6, <2>7
<1>7. ASSUME NEW c \in Chan, Hardware(c) PROVE TypeOK'
  <2>1. UNCHANGED <<pc, ch, old, cr2, changed, enable>>
    BY <1>7 DEF Hardware, HwSample, HwHalf, HwFull, HwFault, HwOverrunIdle,
                HwOverrunServed, main
  <2>2. fill' \in [Chan -> 0..2]
    BY <1>7 DEF Hardware, HwSample, HwHalf, HwFull, HwFault, HwOverrunIdle,
                HwOverrunServed
  <2>3. adc' \in [Chan -> Adc]
    <3>1. [adc EXCEPT ![c].ovr = TRUE, ![c].conv = FALSE] \in [Chan -> Adc]
      BY AdcStores, <1>a
    <3> QED BY <1>7, <3>1 DEF Hardware, HwSample, HwHalf, HwFull, HwFault,
                              HwOverrunIdle, HwOverrunServed
  <2>4. dma' \in [Chan -> Stream]
    <3>1. dma[c] \in Stream
      OBVIOUS
    <3>2. \A g \in Flags :
            /\ [dma EXCEPT ![c].flags = @ \cup {g}] \in [Chan -> Stream]
            /\ [dma EXCEPT ![c].flags = @ \cup {g}, ![c].en = FALSE]
                 \in [Chan -> Stream]
      BY <3>1, FlagFacts
    <3>3. {"HT", "TC", "FE", "TE"} \subseteq Flags
      BY DEF Flags, ErrFlags
    <3>4. CASE HwHalf(c)
      BY <3>4, <3>2, <3>3 DEF HwHalf
    <3>5. CASE HwFull(c)
      BY <3>5, <3>2, <3>3 DEF HwFull
    <3>6. CASE HwFault(c)
      <4>1. /\ [dma EXCEPT ![c].flags = @ \cup {"FE"}] \in [Chan -> Stream]
            /\ [dma EXCEPT ![c].flags = @ \cup {"TE"}, ![c].en = FALSE] \in [Chan -> Stream]
        BY <3>2, <3>3
      <4> QED BY <3>6, <4>1 DEF HwFault
    <3>7. CASE HwSample(c) \/ HwOverrunIdle(c) \/ HwOverrunServed(c)
      BY <3>7 DEF HwSample, HwOverrunIdle, HwOverrunServed
    <3> QED BY <1>7, <3>4, <3>5, <3>6, <3>7 DEF Hardware
  <2> QED BY <2>1, <2>2, <2>3, <2>4
<1> QED
  BY <1>0, <1>1, <1>2, <1>3, <1>4, <1>5, <1>6, <1>7 DEF Next, MainStep

\* Handles, registers and labels always have their types.
THEOREM TypeCorrect == Spec => []TypeOK
<1>1. Init => TypeOK
  BY InitTypeOK
<1>2. TypeOK /\ [Next]_vars => TypeOK'
  BY NextTypeOK
<1> QED BY <1>1, <1>2, PTL DEF Spec

-----------------------------------------------------------------------------
(* The ownership of the locks.                                              *)

\* Each step of main() keeps the invariant of each stream.
LEMMA MainStream ==
  ASSUME AcquisitionInv, EdgeStart \/ EdgeOther \/ MainStep, NEW c \in Chan
  PROVE  StreamInv(c)'
<1> USE DEF MainAt, Goto, Chan
<1>0. /\ StreamInv(c) /\ dma \in [Chan -> Stream] /\ dma[c] \in Stream
      /\ ch \in Chan /\ ~Pending(dma[c])
  BY DEF AcquisitionInv, TypeOK, EdgeStart, EdgeOther, TouchChanges, MainStep,
         StartDma, IrqPending, ToggleLoad, ToggleStore, Redraw, AdcLock,
         EnableOverrunIT, DmaBitLoad, DmaBitStore, DmaLockTest, DmaClaim,
         DmaProgram, DmaEnable, AdcUnlock, AdonTest, AdonLoad, AdonStore,
         SwStartLoad, SwStartStore
<1>1. dma[c].flags = {}
  BY <1>0 DEF StreamInv, Pending, Stream, Flags
<1>2. CASE EdgeStart \/ EdgeOther \/ ToggleLoad \/ ToggleStore \/ Redraw
  BY <1>0, <1>2 DEF EdgeStart, EdgeOther, TouchChanges, ToggleLoad, ToggleStore,
                    Redraw, StreamInv, Starting
<1>3. CASE AdcLock \/ EnableOverrunIT \/ DmaBitLoad \/ DmaBitStore
  BY <1>0, <1>3 DEF AdcLock, EnableOverrunIT, DmaBitLoad, DmaBitStore,
                    StartReturns, StreamInv, Starting
<1>4. CASE AdcUnlock \/ AdonTest \/ AdonLoad \/ AdonStore
  BY <1>0, <1>4 DEF AdcUnlock, AdonTest, AdonLoad, AdonStore, StreamInv, Starting
<1>5. CASE SwStartLoad \/ SwStartStore
  BY <1>0, <1>5 DEF SwStartLoad, SwStartStore, StartReturns, StreamInv, Starting
<1>6. CASE DmaLockTest
  BY <1>0, <1>6 DEF DmaLockTest, StreamInv, Starting
<1>7. CASE DmaClaim
  BY <1>0, <1>1, <1>7, StartFacts DEF DmaClaim, StreamInv, Starting
<1>8. CASE DmaProgram
  BY <1>0, <1>1, <1>8, StartFacts DEF DmaProgram, StreamInv, Starting
<1>9. CASE DmaEnable
  BY <1>0, <1>1, <1>9, StartFacts DEF DmaEnable, StreamInv, Starting
<1> QED BY <1>2, <1>3, <1>4, <1>5, <1>6, <1>7, <1>8, <1>9 DEF MainStep, StartDma

\* A handler gives the lock of its stream back and leaves no interrupt of it;
\* the hardware raises flags and stops streams that are running only.
LEMMA OtherStream ==
  ASSUME AcquisitionInv, NEW c \in Chan, NEW d \in Chan,
         AdcIRQ \/ StreamIRQ(d) \/ Hardware(d)
  PROVE  StreamInv(c)'
<1>0. /\ StreamInv(c) /\ dma \in [Chan -> Stream] /\ dma[c] \in Stream
      /\ dma[d] \in Stream
  BY DEF AcquisitionInv, TypeOK
<1>1. UNCHANGED <<pc, ch>>
  BY DEF AdcIRQ, StreamIRQ, Hardware, HwSample, HwHalf, HwFull, HwFault,
         HwOverrunIdle, HwOverrunServed, main
<1>2. CASE dma'[c] = dma[c]
  BY <1>0, <1>1, <1>2 DEF StreamInv, Starting
<1>3. CASE StreamIRQ(d) /\ c = d
  <2>1. dma[c].ie = Flags /\ dma[c].flags # {}
    BY <1>0, <1>3 DEF StreamIRQ, Pending, StreamInv, Stream
  <2>2. ~Starting(c)
    BY <1>0, <2>1 DEF StreamInv
  <2>3. ~dma'[c].lock /\ ~dma'[c].en /\ dma'[c].flags = {}
    <3>1. dma'[c] = IRQHandler(Abort(dma[c]), TRUE)
      BY <1>0, <1>3 DEF StreamIRQ
    <3> QED BY <1>0, <2>1, <3>1, HandlerFacts
  <2> QED BY <1>1, <2>2, <2>3 DEF StreamInv, Starting
<1>4. CASE (HwHalf(d) \/ HwFull(d) \/ HwFault(d)) /\ c = d
  <2>1. dma[c].en
    BY <1>4 DEF HwHalf, HwFull, HwFault, Served
  <2>2. ~Starting(c) /\ dma[c].lock /\ dma[c].ie = Flags
    BY <1>0, <2>1 DEF StreamInv
  <2>3. /\ dma'[c].lock = dma[c].lock /\ dma'[c].ie = dma[c].ie
        /\ dma'[c].en \/ "TE" \in dma'[c].flags
    <3>1. CASE HwHalf(d)
      BY <1>0, <1>4, <2>1, <3>1 DEF HwHalf, Stream
    <3>2. CASE HwFull(d)
      BY <1>0, <1>4, <2>1, <3>2 DEF HwFull, Stream
    <3>3. CASE HwFault(d)
      BY <1>0, <1>4, <2>1, <3>3 DEF HwFault, Stream
    <3> QED BY <1>4, <3>1, <3>2, <3>3
  <2> QED BY <1>0, <1>1, <2>2, <2>3 DEF StreamInv, Starting
<1> QED
  BY <1>0, <1>2, <1>3, <1>4
     DEF AdcIRQ, StreamIRQ, Hardware, HwSample, HwHalf, HwFull, HwFault,
         HwOverrunIdle, HwOverrunServed

\* Only HAL_ADC_Start_DMA touches the lock of an ADC handle.
LEMMA NextAdcInv ==
  ASSUME AcquisitionInv, Next, NEW c \in Chan
  PROVE  AdcInv(c)'
<1> USE DEF MainAt, Goto, Locked
<1>0. AdcInv(c) /\ adc \in [Chan -> Adc] /\ adc[c] \in Adc /\ ch \in Chan
  BY DEF AcquisitionInv, TypeOK
<1>1. CASE AdcLock
  BY <1>0, <1>1 DEF AdcLock, AdcInv, StartReturns, Adc
<1>2. CASE EnableOverrunIT \/ DmaBitStore
  BY <1>0, <1>2 DEF EnableOverrunIT, DmaBitStore, SetCr2, AdcInv, Adc
<1>3. CASE AdcUnlock
  BY <1>0, <1>3 DEF AdcUnlock, AdcInv, Adc
<1>4. CASE AdonStore
  BY <1>0, <1>4 DEF AdonStore, SetCr2, AdcInv, Adc
<1>5. CASE SwStartStore
  BY <1>0, <1>5 DEF SwStartStore, AdcInv, Adc
<1>6. CASE DmaBitLoad \/ DmaLockTest \/ DmaClaim \/ DmaProgram \/ DmaEnable
  BY <1>0, <1>6 DEF DmaBitLoad, DmaLockTest, DmaClaim, DmaProgram, DmaEnable, AdcInv
<1>7. CASE AdonTest \/ AdonLoad \/ SwStartLoad
  BY <1>0, <1>7 DEF AdonTest, AdonLoad, SwStartLoad, AdcInv
<1>8. CASE ToggleLoad \/ ToggleStore \/ Redraw
  BY <1>0, <1>8 DEF ToggleLoad, ToggleStore, Redraw, AdcInv
<1>9. CASE PollNoChange \/ EdgeStart \/ EdgeOther
  BY <1>0, <1>9 DEF PollNoChange, EdgeStart, EdgeOther, TouchChanges, AdcInv, vars,
                    main
<1>10. CASE AdcIRQ
  BY <1>0, <1>10 DEF AdcIRQ, AdcInv, Adc, main
<1>11. ASSUME NEW d \in Chan, StreamIRQ(d) \/ Hardware(d) PROVE AdcInv(c)'
  <2>1. UNCHANGED <<pc, ch>>
    BY <1>11 DEF StreamIRQ, Hardware, HwSample, HwHalf, HwFull, HwFault,
                 HwOverrunIdle, HwOverrunServed, main
  <2>2. CASE StreamIRQ(d)
    BY <1>0, <2>1, <2>2 DEF StreamIRQ, StopAdc, AdcInv, Adc
  <2>3. CASE HwOverrunIdle(d) \/ HwOverrunServed(d)
    BY <1>0, <2>1, <2>3 DEF HwOverrunIdle, HwOverrunServed, AdcInv, Adc
  <2>4. CASE HwSample(d) \/ HwHalf(d) \/ HwFull(d) \/ HwFault(d)
    BY <1>0, <2>1, <2>4 DEF HwSample, HwHalf, HwFull, HwFault, AdcInv
  <2> QED BY <1>11, <2>2, <2>3, <2>4 DEF Hardware
<1> QED
  BY <1>1, <1>2, <1>3, <1>4, <1>5, <1>6, <1>7, <1>8, <1>9, <1>10, <1>11
     DEF Next, MainStep, StartDma

\* Handles, registers and labels keep their types, locks their owners, and a
\* running stream all its interrupts, whatever the interleaving.
THEOREM InvariantHolds == Spec => []AcquisitionInv
<1>1. Init => AcquisitionInv
  <2> SUFFICES ASSUME Init PROVE AcquisitionInv
    OBVIOUS
  <2>1. \A c \in Chan : StreamInv(c) /\ AdcInv(c)
    BY DEF Init, FreshStream, StreamInv, AdcInv, Starting
  <2> QED BY <2>1, InitTypeOK DEF AcquisitionInv
<1>2. AcquisitionInv /\ [Next]_vars => AcquisitionInv'
  <2> SUFFICES ASSUME AcquisitionInv, [Next]_vars PROVE AcquisitionInv'
    OBVIOUS
  <2>1. TypeOK'
    BY NextTypeOK DEF AcquisitionInv
  <2>2. ASSUME NEW c \in Chan PROVE StreamInv(c)' /\ AdcInv(c)'
    <3>1. CASE UNCHANGED vars \/ PollNoChange
      BY <3>1 DEF PollNoChange, AcquisitionInv, StreamInv, AdcInv, Starting, vars,
                  main
    <3>2. CASE Next /\ ~PollNoChange
      BY <3>2, MainStream, OtherStream, NextAdcInv DEF Next
    <3> QED BY <3>1, <3>2
  <2> QED BY <2>1, <2>2 DEF AcquisitionInv
<1> QED BY <1>1, <1>2, PTL DEF Spec

\* The lock HAL_DMA_Start_IT leaves taken is always given back by an interrupt
\* or an enable to come: no channel is dead for good after a lost race.
THEOREM LocksAreOwned == Spec => []LockOwnership
<1>1. AcquisitionInv => LockOwnership
  <2> SUFFICES ASSUME AcquisitionInv, NEW c \in Chan
               PROVE  dma[c].lock <=> \/ dma[c].en
                                      \/ "TE" \in Raised(dma[c])
                                      \/ Starting(c)
    BY DEF LockOwnership
  <2>1. StreamInv(c)
    BY DEF AcquisitionInv
  <2>2. "TE" \in Raised(dma[c]) <=> "TE" \in dma[c].flags
    BY <2>1 DEF StreamInv, Raised, Flags, ErrFlags
  <2> QED BY <2>1, <2>2 DEF StreamInv
<1> QED BY <1>1, InvariantHolds, PTL

\* HAL_ADC_Start_DMA never returns HAL_BUSY to DmaAdcStart().
THEOREM AdcIsNeverBusy == Spec => []AdcNeverBusy
<1>1. AcquisitionInv => AdcNeverBusy
  BY DEF AcquisitionInv, TypeOK, AdcInv, AdcNeverBusy, Locked
<1> QED BY <1>1, InvariantHolds, PTL

\* No step of main() reprograms, stops or rewinds a stream that is enabled.
THEOREM StreamsRunUntouched == Spec => RunningUntouched
<1> DEFINE Untouched ==
      <<pc, ch>>' # <<pc, ch>> =>
        \A c \in Chan : dma[c].en => dma'[c] = dma[c] /\ fill'[c] = fill[c]
<1>1. AcquisitionInv /\ [Next]_vars => [Untouched]_vars
  <2> SUFFICES ASSUME AcquisitionInv, Next, <<pc, ch>>' # <<pc, ch>>,
                      NEW c \in Chan, dma[c].en
               PROVE  dma'[c] = dma[c] /\ fill'[c] = fill[c]
    BY DEF vars
  <2>1. EdgeStart \/ EdgeOther \/ MainStep
    BY DEF Next, PollNoChange, AdcIRQ, StreamIRQ, Hardware, HwSample, HwHalf,
           HwFull, HwFault, HwOverrunIdle, HwOverrunServed, vars, main
  <2>2. StreamInv(c) /\ dma \in [Chan -> Stream] /\ fill \in [Chan -> 0..2]
    BY DEF AcquisitionInv, TypeOK
  <2>3. CASE DmaClaim \/ DmaProgram \/ DmaEnable
    BY <2>2, <2>3 DEF DmaClaim, DmaProgram, DmaEnable, MainAt, StreamInv, Starting
  <2>4. CASE ~(DmaClaim \/ DmaProgram \/ DmaEnable)
    BY <2>1, <2>4
       DEF EdgeStart, EdgeOther, TouchChanges, MainStep, StartDma, ToggleLoad,
           ToggleStore, Redraw, AdcLock, EnableOverrunIT, DmaBitLoad, DmaBitStore,
           DmaLockTest, AdcUnlock, AdonTest, AdonLoad, AdonStore, SwStartLoad,
           SwStartStore
  <2> QED BY <2>3, <2>4
<1> QED BY <1>1, InvariantHolds, PTL DEF Spec, RunningUntouched
-----------------------------------------------------------------------------
(* What a request meets on its way through HAL_ADC_Start_DMA.               *)

\* The steps of HAL_ADC_Start_DMA after each of its effects.
Linking  == {"dmaLock", "dmaClaim", "dmaProgram", "dmaEnable"}
Enabled  == {"adcUnlock", "adonTest", "adonLoad", "adonStore", "swLoad", "swStore"}
Watching == {"dmaBitLoad", "dmaBitStore"} \cup Linking \cup Enabled

\* main() has restarted channel c and not handled another edge.
Restarted(c) == pc = "poll" \/ (c = 1 /\ ch = 2 /\ pc \notin {"toggleLoad", "toggleStore"})

\* The acquisition is under way, if its ADC did not overrun, or its handler waits.
Alive(c) == \/ Pending(dma[c])
            \/ dma[c].en /\ adc[c].dmab /\ (adc[c].conv \/ Overruns)

\* The handler of c clears the request with all it undoes.  While the request
\* stands no handler has run, and what main() has set up since is still there: the
\* overrun interrupt, the DMA bit, the stream, ADON, and both bits in the value of
\* CR2 main() is about to store.
ArmInv(c) ==
  enable[c] =>
    /\ ch = c /\ pc \in Watching => adc[c].ovrie
    /\ ch = c /\ pc \in Linking \cup Enabled => adc[c].dmab
    /\ ch = c /\ pc \in Enabled => Pending(dma[c]) \/ dma[c].en
    /\ ch = c /\ pc \in {"swLoad", "swStore"} => adc[c].adon
    /\ ch = c /\ pc \in {"adonStore", "swStore"} => cr2.dmab
    /\ ch = c /\ pc = "swStore" => cr2.adon
    /\ Restarted(c) => Alive(c)

\* When main() takes a step no stream asks for its interrupt and no ADC that is
\* watched has overrun: the processor would serve it first.
LEMMA NothingWaits ==
  ASSUME AcquisitionInv, EdgeStart \/ EdgeOther \/ MainStep, NEW c \in Chan
  PROVE  ~Pending(dma[c]) /\ dma[c].flags = {} /\ ~Overrun(c)
<1>1. ~IrqPending
  BY DEF MainAt, EdgeStart, EdgeOther, TouchChanges, MainStep, StartDma, ToggleLoad,
         ToggleStore, Redraw, AdcLock, EnableOverrunIT, DmaBitLoad, DmaBitStore,
         DmaLockTest, DmaClaim, DmaProgram, DmaEnable, AdcUnlock, AdonTest, AdonLoad,
         AdonStore, SwStartLoad, SwStartStore
<1>2. StreamInv(c) /\ dma[c] \in Stream
  BY DEF AcquisitionInv, TypeOK
<1> QED BY <1>1, <1>2 DEF IrqPending, StreamInv, Pending, Stream, Flags

\* Each step of main() keeps what it has set up for a request that stands.
LEMMA MainArm ==
  ASSUME AcquisitionInv, EdgeStart \/ EdgeOther \/ MainStep, NEW c \in Chan, ArmInv(c)
  PROVE  ArmInv(c)'
<1> USE DEF MainAt, Goto, Chan, Linking, Enabled, Watching, Restarted
<1>0. /\ ~Pending(dma[c]) /\ ~Overrun(c)
      /\ StreamInv(c) /\ AdcInv(c) /\ ch \in Chan
      /\ adc \in [Chan -> Adc] /\ dma \in [Chan -> Stream] /\ enable \in [Chan -> BOOLEAN]
  BY NothingWaits DEF AcquisitionInv, TypeOK
<1>1. CASE EdgeStart \/ EdgeOther
  BY <1>0, <1>1 DEF EdgeStart, EdgeOther, TouchChanges, ArmInv, Alive
<1>2. CASE ToggleLoad \/ ToggleStore \/ Redraw
  BY <1>0, <1>2 DEF ToggleLoad, ToggleStore, Redraw, ArmInv, Alive
<1>3. CASE AdcLock
  <2>1. ~adc[ch].lock
    BY <1>0, <1>3 DEF AcquisitionInv, AdcInv, AdcLock, Locked
  <2> QED BY <1>0, <1>3, <2>1 DEF AdcLock, ArmInv, Alive, Adc
<1>4. CASE EnableOverrunIT
  BY <1>0, <1>4 DEF EnableOverrunIT, ArmInv, Alive, Adc
<1>5. CASE DmaBitLoad
  BY <1>0, <1>5 DEF DmaBitLoad, ArmInv, Alive
<1>6. CASE DmaBitStore
  BY <1>0, <1>6 DEF DmaBitStore, SetCr2, ArmInv, Alive, Adc
<1>7. CASE DmaLockTest
  <2>1. ch = c /\ dma[c].lock => dma[c].en
    BY <1>0, <1>7, NothingWaits DEF DmaLockTest, StreamInv, Starting
  <2> QED BY <1>0, <1>7, <2>1 DEF DmaLockTest, ArmInv, Alive
<1>8. CASE DmaClaim \/ DmaProgram
  BY <1>0, <1>8 DEF DmaClaim, DmaProgram, ArmInv, Alive
<1>9. CASE DmaEnable
  <2>1. Enable(dma[ch]).en
    BY <1>0, StartFacts
  <2> QED BY <1>0, <1>9, <2>1 DEF DmaEnable, ArmInv, Alive
<1>10. CASE AdcUnlock
  BY <1>0, <1>10 DEF AdcUnlock, ArmInv, Alive, Adc
<1>11. CASE AdonTest
  BY <1>0, <1>11 DEF AdonTest, ArmInv, Alive
<1>12. CASE AdonLoad
  BY <1>0, <1>12 DEF AdonLoad, LoadCr2, ArmInv, Alive
<1>13. CASE AdonStore
  BY <1>0, <1>13 DEF AdonStore, SetCr2, ArmInv, Alive, Adc
<1>14. CASE SwStartLoad
  BY <1>0, <1>14 DEF SwStartLoad, LoadCr2, ArmInv, Alive
<1>15. CASE SwStartStore
  <2>1. CASE ch = c
    <3>1. SUFFICES ASSUME enable[c] PROVE ArmInv(c)'
      BY <1>15 DEF SwStartStore, ArmInv
    <3>2. cr2.dmab /\ cr2.adon /\ dma[c].en /\ ~adc[c].ovr
      BY <1>0, <1>15, <2>1, <3>1 DEF SwStartStore, ArmInv, Overrun, Adc
    <3>3. adc'[c].dmab /\ adc'[c].conv /\ dma'[c].en
      BY <1>0, <1>15, <2>1, <3>2 DEF SwStartStore, Adc
    <3>4. pc' \in {"adcLock", "poll"}
      BY <1>15 DEF SwStartStore, StartReturns
    <3> QED BY <3>3, <3>4 DEF ArmInv, Alive
  <2>2. CASE ch # c
    <3>1. adc'[c] = adc[c] /\ dma'[c] = dma[c] /\ enable'[c] = enable[c]
      BY <1>0, <1>15, <2>2 DEF SwStartStore
    <3>2. pc' \in {"adcLock", "poll"} /\ (Restarted(c)' => Restarted(c))
      BY <1>0, <1>15, <2>2 DEF SwStartStore, StartReturns
    <3> QED BY <3>1, <3>2 DEF ArmInv, Alive
  <2> QED BY <2>1, <2>2
<1> QED BY <1>1, <1>2, <1>3, <1>4, <1>5, <1>6, <1>7, <1>8, <1>9, <1>10, <1>11, <1>12,
           <1>13, <1>14, <1>15 DEF MainStep, StartDma

\* A handler of a stream undoes it all with the request; nothing else does, but an
\* overrun, which stops a conversion that is served.
LEMMA OtherArm ==
  ASSUME AcquisitionInv, NEW c \in Chan, NEW d \in Chan, ArmInv(c),
         AdcIRQ \/ StreamIRQ(d) \/ Hardware(d)
  PROVE  ArmInv(c)'
<1> USE DEF Restarted
<1>0. /\ StreamInv(c) /\ adc \in [Chan -> Adc] /\ dma \in [Chan -> Stream]
      /\ dma[c] \in Stream /\ adc[c] \in Adc /\ enable \in [Chan -> BOOLEAN]
  BY DEF AcquisitionInv, TypeOK
<1>1. UNCHANGED <<pc, ch, cr2>>
  BY DEF AdcIRQ, StreamIRQ, Hardware, HwSample, HwHalf, HwFull, HwFault,
         HwOverrunIdle, HwOverrunServed, main
<1>2. CASE AdcIRQ
  <2>1. /\ adc'[c].ovrie = adc[c].ovrie /\ adc'[c].dmab = adc[c].dmab
        /\ adc'[c].adon = adc[c].adon /\ adc'[c].conv = adc[c].conv
    BY <1>0, <1>2 DEF AdcIRQ, Adc
  <2> QED BY <1>1, <1>2, <2>1 DEF AdcIRQ, ArmInv, Alive
<1>3. CASE StreamIRQ(d)
  <2>1. CASE c = d
    BY <1>0, <1>3, <2>1 DEF StreamIRQ, ArmInv
  <2>2. CASE c # d
    <3>1. enable'[c] = enable[c] /\ adc'[c] = adc[c] /\ dma'[c] = dma[c]
      BY <1>0, <1>3, <2>2 DEF StreamIRQ
    <3> QED BY <1>1, <3>1 DEF ArmInv, Alive
  <2> QED BY <2>1, <2>2
<1>4. CASE HwSample(d)
  BY <1>1, <1>4 DEF HwSample, ArmInv, Alive
<1>5. CASE HwHalf(d) \/ HwFull(d) \/ HwFault(d)
  <2>1. UNCHANGED <<enable, adc>>
    BY <1>5 DEF HwHalf, HwFull, HwFault
  <2>2. /\ Pending(dma[c]) => Pending(dma'[c])
        /\ dma[c].en => Pending(dma'[c]) \/ dma'[c].en
    <3>1. CASE HwHalf(d)
      BY <1>0, <3>1 DEF HwHalf, Pending, Stream
    <3>2. CASE HwFull(d)
      BY <1>0, <3>2 DEF HwFull, Pending, Stream
    <3>3. CASE HwFault(d)
      BY <1>0, <3>3 DEF HwFault, Pending, Stream, StreamInv, Flags, ErrFlags
    <3> QED BY <1>5, <3>1, <3>2, <3>3
  <2> QED BY <1>1, <2>1, <2>2 DEF ArmInv, Alive
<1>6. CASE HwOverrunIdle(d) \/ HwOverrunServed(d)
  <2>1. UNCHANGED <<enable, dma>>
    BY <1>6 DEF HwOverrunIdle, HwOverrunServed
  <2>2. /\ adc'[c].ovrie = adc[c].ovrie /\ adc'[c].dmab = adc[c].dmab
        /\ adc'[c].adon = adc[c].adon
        /\ adc'[c].conv = adc[c].conv \/ (~Served(c) /\ adc[c].conv) \/ Overruns
    <3>1. CASE c = d
      BY <1>0, <1>6, <3>1 DEF HwOverrunIdle, HwOverrunServed, Adc
    <3>2. CASE c # d
      BY <1>0, <1>6, <3>2 DEF HwOverrunIdle, HwOverrunServed
    <3> QED BY <3>1, <3>2
  <2>3. Alive(c) => Alive(c)'
    BY <2>1, <2>2 DEF Alive, Served
  <2> QED BY <1>1, <2>1, <2>2, <2>3 DEF ArmInv
<1> QED BY <1>2, <1>3, <1>4, <1>5, <1>6 DEF Hardware

\* Each step keeps both invariants together.
LEMMA NextArm ==
  AcquisitionInv /\ (\A c \in Chan : ArmInv(c)) /\ [Next]_vars
    => \A c \in Chan : ArmInv(c)'
<1> SUFFICES ASSUME AcquisitionInv, \A c \in Chan : ArmInv(c), [Next]_vars,
                    NEW c \in Chan
             PROVE  ArmInv(c)'
  OBVIOUS
<1>1. CASE UNCHANGED vars \/ PollNoChange
  BY <1>1 DEF PollNoChange, ArmInv, Restarted, Alive, vars, main
<1>2. CASE Next /\ ~PollNoChange
  BY <1>2, MainArm, OtherArm DEF Next
<1> QED BY <1>1, <1>2

\* A channel still armed when main() is back to polling has an acquisition under
\* way or an interrupt to be served, wherever the handlers fell into DmaAdcStart().
THEOREM ArmedIsAcquiring == Spec => []ArmedHasAcquisition
<1> DEFINE AllArmed == \A c \in Chan : ArmInv(c)
<1>1. Init => AllArmed
  BY DEF Init, ArmInv
<1>2. AcquisitionInv /\ AllArmed /\ [Next]_vars => AllArmed'
  BY NextArm
<1>3. AllArmed => ArmedHasAcquisition
  BY DEF ArmInv, Restarted, Alive, ArmedHasAcquisition
<1> QED BY <1>1, <1>2, <1>3, InvariantHolds, PTL DEF Spec
=============================================================================
