-------------------------- MODULE ScopeAcquisition --------------------------
(***************************************************************************)
(* The acquisition of the two channels of the oscilloscope.                *)
(*                                                                         *)
(* Three kinds of actors share the state: main(), which polls the touch    *)
(* panel and, on every edge of the touch, restarts both ADC/DMA pairs with *)
(* DmaAdcStart(); the interrupt handlers of DMA2 stream 4 (channel 1), of  *)
(* DMA2 stream 2 (channel 2) and of the ADCs; and the hardware, which      *)
(* converts, fills the circular buffers and raises flags.                  *)
(*                                                                         *)
(* main() is modelled at the grain of its accesses to shared state: every  *)
(* read-modify-write of a flag or of ADC_CR2 is a load and a store.  A     *)
(* handler runs to its end before main() takes another step, and the two   *)
(* stream handlers touch disjoint state, so a handler is one action.       *)
(***************************************************************************)
EXTENDS HalDma

CONSTANTS Faults,         \* may a stream raise a FIFO or a transfer error?
          Overruns,       \* may an ADC overrun while its stream runs?
          EdgeInFlight    \* may an edge be handled while a stream runs?

ASSUME HardwareAssumption == Faults \in BOOLEAN /\ Overruns \in BOOLEAN
ASSUME PaceAssumption == EdgeInFlight \in BOOLEAN

Chan == {1, 2}

VARIABLES
  pc, ch,        \* the next step of main(), and the channel it works on
  old, cr2,      \* the registers a read-modify-write of main() holds
  changed,       \* the last value of the touch panel main() has seen
  enable,        \* enable_copy and enable_copy2
  adc,           \* g_AdcHandle and g_AdcHandle2 with their ADC's registers
  dma,           \* g_DmaHandle and g_DmaHandle2 with their stream
  fill           \* how much of the first half of the buffer this sweep wrote

main == <<pc, ch, old, cr2>>
vars == <<main, changed, enable, adc, dma, fill>>

\* hadc->Lock, CR2.ADON, CR2.DMA, CR1.OVRIE, SR.OVR, and whether the ADC is
\* converting.  Nothing reads hadc->State and hadc->ErrorCode: they are left out.
Adc == [lock : BOOLEAN, adon : BOOLEAN, dmab : BOOLEAN,
        ovrie : BOOLEAN, ovr : BOOLEAN, conv : BOOLEAN]
Cr2 == [adon : BOOLEAN, dmab : BOOLEAN]

NoCr2 == [adon |-> FALSE, dmab |-> FALSE]

\* The steps of HAL_ADC_Start_DMA between __HAL_LOCK(hadc) and its unlock.
Locked == {"ovrie", "dmaBitLoad", "dmaBitStore", "dmaLock", "dmaClaim",
           "dmaProgram", "dmaEnable", "adcUnlock"}
Label  == {"poll", "toggleLoad", "toggleStore", "redraw", "adcLock",
           "adonTest", "adonLoad", "adonStore", "swLoad", "swStore"}
          \cup Locked

\* main() calls DmaAdcStart() once before its loop, so it starts there.
Init ==
  /\ pc = "adcLock" /\ ch = 1 /\ old = FALSE /\ cr2 = NoCr2
  /\ changed = TRUE
  /\ enable = [c \in Chan |-> FALSE]
  /\ adc = [c \in Chan |-> [lock |-> FALSE, adon |-> FALSE, dmab |-> FALSE,
                         ovrie |-> FALSE, ovr |-> FALSE, conv |-> FALSE]]
  /\ dma = [c \in Chan |-> FreshStream]
  /\ fill = [c \in Chan |-> 0]

-----------------------------------------------------------------------------
(* What the hardware and the NVIC make of the state.                        *)

\* The ADC converts and the stream moves each sample to the buffer.
Served(c) == adc[c].conv /\ adc[c].dmab /\ dma[c].en

Overrun(c) == adc[c].ovr /\ adc[c].ovrie

IrqPending == \E c \in Chan : Pending(dma[c]) \/ Overrun(c)

\* No stream runs and no handler is waiting: both acquisitions are over.
Quiet == ~IrqPending /\ \A c \in Chan : ~dma[c].en

\* A step of main(): the processor serves every pending interrupt first.
MainAt(label) == pc = label /\ ~IrqPending

Goto(label) == pc' = label /\ ch' = ch

\* HAL_ADC_Start_DMA returns: channel 2 follows channel 1 in DmaAdcStart().
StartReturns == IF ch = 1 THEN pc' = "adcLock" /\ ch' = 2
                          ELSE pc' = "poll" /\ ch' = 1

SetCr2(bits) == adc' = [adc EXCEPT ![ch].adon = bits.adon,
                                   ![ch].dmab = bits.dmab]
LoadCr2 == cr2' = [adon |-> adc[ch].adon, dmab |-> adc[ch].dmab]

-----------------------------------------------------------------------------
(* main(): one turn of the loop.                                            *)

\* TS_Get_Touch() reports no change: nothing happens but the polling.
PollNoChange == MainAt("poll") /\ UNCHANGED vars

TouchChanges ==
  /\ MainAt("poll")
  /\ EdgeInFlight \/ Quiet
  /\ changed' = ~changed
  /\ UNCHANGED <<old, cr2, enable, adc, dma, fill>>

\* The finger lands on the START button.
EdgeStart == TouchChanges /\ ~changed /\ Goto("toggleLoad")

\* The finger lands anywhere else, or leaves the panel.
EdgeOther == TouchChanges /\ Goto("redraw")

\* enable_copy = !enable_copy, then enable_copy2 = !enable_copy2.
ToggleLoad ==
  /\ MainAt("toggleLoad")
  /\ old' = enable[ch] /\ Goto("toggleStore")
  /\ UNCHANGED <<cr2, changed, enable, adc, dma, fill>>

\* Bug: START only asks for channel 1.
ToggleStore_OneChannel ==
  /\ MainAt("toggleStore")
  /\ enable' = [enable EXCEPT ![1] = ~old] /\ old' = FALSE
  /\ pc' = "redraw" /\ ch' = 1
  /\ UNCHANGED <<cr2, changed, adc, dma, fill>>

ToggleStore ==
  /\ MainAt("toggleStore")
  /\ enable' = [enable EXCEPT ![ch] = ~old] /\ old' = FALSE
  /\ IF ch = 1 THEN pc' = "toggleLoad" /\ ch' = 2
               ELSE pc' = "redraw" /\ ch' = 1
  /\ UNCHANGED <<cr2, changed, adc, dma, fill>>

\* The copies, the math curve and the drawing, which only read the curves.
Redraw ==
  /\ MainAt("redraw") /\ Goto("adcLock")
  /\ UNCHANGED <<old, cr2, changed, enable, adc, dma, fill>>

-----------------------------------------------------------------------------
(* HAL_ADC_Start_DMA on channel ch.                                         *)

AdcLock ==
  /\ MainAt("adcLock")
  /\ IF adc[ch].lock
     THEN StartReturns /\ UNCHANGED adc
     ELSE Goto("ovrie") /\ adc' = [adc EXCEPT ![ch].lock = TRUE]
  /\ UNCHANGED <<old, cr2, changed, enable, dma, fill>>

EnableOverrunIT ==
  /\ MainAt("ovrie") /\ Goto("dmaBitLoad")
  /\ adc' = [adc EXCEPT ![ch].ovrie = TRUE]
  /\ UNCHANGED <<old, cr2, changed, enable, dma, fill>>

DmaBitLoad ==
  /\ MainAt("dmaBitLoad") /\ Goto("dmaBitStore") /\ LoadCr2
  /\ UNCHANGED <<old, changed, enable, adc, dma, fill>>

DmaBitStore ==
  /\ MainAt("dmaBitStore") /\ Goto("dmaLock")
  /\ SetCr2([cr2 EXCEPT !.dmab = TRUE]) /\ cr2' = NoCr2
  /\ UNCHANGED <<old, changed, enable, dma, fill>>

\* Bug: the lock of the stream is not tested.
DmaLockTest_Ignored ==
  /\ MainAt("dmaLock") /\ Goto("dmaClaim")
  /\ UNCHANGED <<old, cr2, changed, enable, adc, dma, fill>>

\* HAL_DMA_Start_IT returns HAL_BUSY on a locked stream; nobody looks at it.
DmaLockTest ==
  /\ MainAt("dmaLock")
  /\ Goto(IF dma[ch].lock THEN "adcUnlock" ELSE "dmaClaim")
  /\ UNCHANGED <<old, cr2, changed, enable, adc, dma, fill>>

DmaClaim ==
  /\ MainAt("dmaClaim") /\ Goto("dmaProgram")
  /\ dma' = [dma EXCEPT ![ch] = Claim(@)]
  /\ UNCHANGED <<old, cr2, changed, enable, adc, fill>>

DmaProgram ==
  /\ MainAt("dmaProgram") /\ Goto("dmaEnable")
  /\ dma' = [dma EXCEPT ![ch] = Program(@)]
  /\ UNCHANGED <<old, cr2, changed, enable, adc, fill>>

DmaEnable ==
  /\ MainAt("dmaEnable") /\ Goto("adcUnlock")
  /\ dma' = [dma EXCEPT ![ch] = Enable(@)]
  /\ fill' = [fill EXCEPT ![ch] = 0]
  /\ UNCHANGED <<old, cr2, changed, enable, adc>>

\* Bug: HAL_ADC_Start_DMA returns without its __HAL_UNLOCK(hadc).
AdcUnlock_Forgotten ==
  /\ MainAt("adcUnlock") /\ Goto("adonTest")
  /\ UNCHANGED <<old, cr2, changed, enable, adc, dma, fill>>

AdcUnlock ==
  /\ MainAt("adcUnlock") /\ Goto("adonTest")
  /\ adc' = [adc EXCEPT ![ch].lock = FALSE]
  /\ UNCHANGED <<old, cr2, changed, enable, dma, fill>>

AdonTest ==
  /\ MainAt("adonTest")
  /\ Goto(IF adc[ch].adon THEN "swLoad" ELSE "adonLoad")
  /\ UNCHANGED <<old, cr2, changed, enable, adc, dma, fill>>

AdonLoad ==
  /\ MainAt("adonLoad") /\ Goto("adonStore") /\ LoadCr2
  /\ UNCHANGED <<old, changed, enable, adc, dma, fill>>

AdonStore ==
  /\ MainAt("adonStore") /\ Goto("swLoad")
  /\ SetCr2([cr2 EXCEPT !.adon = TRUE]) /\ cr2' = NoCr2
  /\ UNCHANGED <<old, changed, enable, dma, fill>>

SwStartLoad ==
  /\ MainAt("swLoad") /\ Goto("swStore") /\ LoadCr2
  /\ UNCHANGED <<old, changed, enable, adc, dma, fill>>

\* Storing SWSTART starts the conversions of an ADC that is on and has no
\* overrun to be cleared first.
SwStartStore ==
  /\ MainAt("swStore") /\ StartReturns
  /\ adc' = [adc EXCEPT ![ch].adon = cr2.adon, ![ch].dmab = cr2.dmab,
                        ![ch].conv = cr2.adon /\ ~adc[ch].ovr]
  /\ cr2' = NoCr2
  /\ UNCHANGED <<old, changed, enable, dma, fill>>

StartDma == \/ AdcLock \/ EnableOverrunIT \/ DmaBitLoad \/ DmaBitStore
            \/ DmaLockTest \/ DmaClaim \/ DmaProgram \/ DmaEnable
            \/ AdcUnlock \/ AdonTest \/ AdonLoad \/ AdonStore
            \/ SwStartLoad \/ SwStartStore

-----------------------------------------------------------------------------
(* The interrupt handlers.                                                  *)

\* HAL_ADC_Stop_DMA, but for the abort of the stream.
StopAdc(a) ==
  [a EXCEPT !.adon = FALSE, !.conv = FALSE, !.ovrie = FALSE, !.dmab = FALSE]

\* Bugs of the handler: the stream is not stopped, the request is not cleared,
\* HAL_DMA_IRQHandler is not called.
StreamIRQ_NoStop(c) ==
  /\ Pending(dma[c])
  /\ enable' = [enable EXCEPT ![c] = FALSE]
  /\ dma' = [dma EXCEPT ![c] = IRQHandler(@, TRUE)]
  /\ UNCHANGED <<main, changed, adc, fill>>

StreamIRQ_KeepsRequest(c) ==
  /\ Pending(dma[c])
  /\ adc' = [adc EXCEPT ![c] = StopAdc(@)]
  /\ dma' = [dma EXCEPT ![c] = IRQHandler(Abort(@), TRUE)]
  /\ fill' = [fill EXCEPT ![c] = 0]
  /\ UNCHANGED <<main, changed, enable>>

StreamIRQ_NoClear(c) ==
  /\ Pending(dma[c])
  /\ adc' = [adc EXCEPT ![c] = StopAdc(@)]
  /\ enable' = [enable EXCEPT ![c] = FALSE]
  /\ dma' = [dma EXCEPT ![c] = Abort(@)]
  /\ fill' = [fill EXCEPT ![c] = 0]
  /\ UNCHANGED <<main, changed>>

\* DMA2_Stream4_IRQHandler (c = 1) and DMA2_Stream2_IRQHandler (c = 2).  The
\* handler does not ask which flag brought it: HAL_ADC_Stop_DMA, the capture,
\* then HAL_DMA_IRQHandler, whose ADC callbacks only write hadc->State.
StreamIRQ(c) ==
  /\ Pending(dma[c])
  /\ adc' = [adc EXCEPT ![c] = StopAdc(@)]
  /\ enable' = [enable EXCEPT ![c] = FALSE]
  /\ dma' = [dma EXCEPT ![c] = IRQHandler(Abort(@), TRUE)]
  /\ fill' = [fill EXCEPT ![c] = 0]
  /\ UNCHANGED <<main, changed>>

\* ADC_IRQHandler looks at both ADCs, for an overrun each.
AdcIRQ ==
  /\ \E c \in Chan : Overrun(c)
  /\ adc' = [c \in Chan |-> IF Overrun(c)
               THEN [adc[c] EXCEPT !.ovr = FALSE] ELSE adc[c]]
  /\ UNCHANGED <<main, changed, enable, dma, fill>>

-----------------------------------------------------------------------------
(* The hardware.                                                            *)

\* The sweep writes its first samples over those of the sweep before.
HwSample(c) ==
  /\ Served(c) /\ fill[c] = 0
  /\ fill' = [fill EXCEPT ![c] = 1]
  /\ UNCHANGED <<main, changed, enable, adc, dma>>

\* The first half of the buffer is complete.
HwHalf(c) ==
  /\ Served(c) /\ fill[c] = 1
  /\ fill' = [fill EXCEPT ![c] = 2]
  /\ dma' = [dma EXCEPT ![c].flags = @ \cup {"HT"}]
  /\ UNCHANGED <<main, changed, enable, adc>>

\* The whole buffer is complete; the circular stream goes on from its start.
HwFull(c) ==
  /\ Served(c) /\ fill[c] = 2
  /\ fill' = [fill EXCEPT ![c] = 0]
  /\ dma' = [dma EXCEPT ![c].flags = @ \cup {"TC"}]
  /\ UNCHANGED <<main, changed, enable, adc>>

\* A FIFO error leaves the stream running, a transfer error disables it.
HwFault(c) ==
  /\ dma[c].en /\ Faults
  /\ \/ dma' = [dma EXCEPT ![c].flags = @ \cup {"FE"}]
     \/ dma' = [dma EXCEPT ![c].flags = @ \cup {"TE"}, ![c].en = FALSE]
  /\ UNCHANGED <<main, changed, enable, adc, fill>>

\* An ADC nobody reads overruns, which ends its conversions.
HwOverrunIdle(c) ==
  /\ adc[c].conv /\ ~Served(c)
  /\ adc' = [adc EXCEPT ![c].ovr = TRUE, ![c].conv = FALSE]
  /\ UNCHANGED <<main, changed, enable, dma, fill>>

\* So may one whose stream lost the race for the bus.
HwOverrunServed(c) ==
  /\ Served(c) /\ Overruns
  /\ adc' = [adc EXCEPT ![c].ovr = TRUE, ![c].conv = FALSE]
  /\ UNCHANGED <<main, changed, enable, dma, fill>>

Hardware(c) == \/ HwSample(c) \/ HwHalf(c) \/ HwFull(c) \/ HwFault(c)
               \/ HwOverrunIdle(c) \/ HwOverrunServed(c)

-----------------------------------------------------------------------------
MainStep == ToggleLoad \/ ToggleStore \/ Redraw \/ StartDma

Next == \/ PollNoChange \/ EdgeStart \/ EdgeOther \/ MainStep
        \/ AdcIRQ
        \/ \E c \in Chan : StreamIRQ(c) \/ Hardware(c)

Spec == Init /\ [][Next]_vars

\* The processor runs, serves its interrupts, and a served stream fills its
\* buffer.  Nothing makes the user touch the panel.
Fairness == /\ WF_vars(MainStep)
            /\ WF_vars(AdcIRQ)
            /\ \A c \in Chan : /\ WF_vars(StreamIRQ(c))
                               /\ WF_vars(HwSample(c) \/ HwHalf(c))
                               /\ WF_vars(HwOverrunIdle(c))

FairSpec == Spec /\ Fairness

-----------------------------------------------------------------------------
(* Properties.                                                              *)

\* Every variable has its type: handles, registers, labels and counters.
TypeOK ==
  /\ pc \in Label /\ ch \in Chan /\ old \in BOOLEAN /\ cr2 \in Cr2
  /\ changed \in BOOLEAN
  /\ enable \in [Chan -> BOOLEAN]
  /\ adc \in [Chan -> Adc]
  /\ dma \in [Chan -> Stream]
  /\ fill \in [Chan -> 0..2]

\* main() is inside HAL_DMA_Start_IT on channel c, between lock and enable.
Starting(c) == ch = c /\ pc \in {"dmaProgram", "dmaEnable"}

\* The lock HAL_DMA_Start_IT takes and leaves taken always has an owner that
\* will give it back: a running stream, whose interrupt handler aborts it, a
\* stream a transfer error stopped and whose interrupt is pending, or main()
\* on its way to the enable.  Otherwise every later DmaAdcStart() would get
\* HAL_BUSY, which it ignores, and the channel would be dead for good.
LockOwnership ==
  \A c \in Chan : dma[c].lock <=> \/ dma[c].en
                                 \/ "TE" \in Raised(dma[c])
                                 \/ Starting(c)

\* Only main() holds the lock of an ADC handle, inside HAL_ADC_Start_DMA.
AdcInv(c) == adc[c].lock => ch = c /\ pc \in Locked

\* __HAL_LOCK(hadc) never finds the ADC handle locked, so HAL_ADC_Start_DMA
\* never returns HAL_BUSY to a DmaAdcStart() that ignores it.
AdcNeverBusy == pc = "adcLock" => ~adc[ch].lock

\* The inductive form of LockOwnership, stream by stream: a running stream is
\* locked and has every interrupt enabled; flags are raised on locked streams
\* only; and while main() is inside HAL_DMA_Start_IT nobody else owns the
\* stream, so that no handler of this channel can run there.
StreamInv(c) ==
  /\ dma[c].en => dma[c].lock /\ dma[c].ie = Flags
  /\ dma[c].flags # {} => dma[c].lock /\ dma[c].ie = Flags
  /\ dma[c].lock => dma[c].en \/ "TE" \in dma[c].flags \/ Starting(c)
  /\ Starting(c) => dma[c].lock /\ ~dma[c].en /\ dma[c].flags = {}
  /\ ch = c /\ pc = "dmaClaim" => ~dma[c].lock
  /\ ch = c /\ pc = "dmaEnable" => dma[c].ie = Flags

\* What LockOwnership, AdcNeverBusy and RunningUntouched follow from.
AcquisitionInv == TypeOK /\ \A c \in Chan : StreamInv(c) /\ AdcInv(c)

\* enable_copy is armed before DmaAdcStart(), and the handlers may stop the
\* acquisition anywhere in between: when main() is back to polling, a channel
\* still armed has an acquisition under way (stalled, if its ADC overran) or an
\* interrupt to be served.
ArmedHasAcquisition ==
  pc = "poll" => \A c \in Chan :
    enable[c] => \/ Pending(dma[c])
                 \/ dma[c].en /\ adc[c].dmab /\ (adc[c].conv \/ Overruns)

\* main() restarts the channels on every edge without asking whether they
\* run: no step of it reprograms, stops or rewinds a stream that is enabled.
RunningUntouched ==
  [][<<pc, ch>>' # <<pc, ch>> =>
       \A c \in Chan : dma[c].en => dma'[c] = dma[c] /\ fill'[c] = fill[c]]_vars

\* START is answered even if the panel is never touched again: an armed
\* channel is disarmed by its interrupt handler (if its ADC does not overrun).
ArmedIsServed == \A c \in Chan : enable[c] ~> ~enable[c]

\* Interrupts never keep main() from coming back to poll the panel.
MainComesBack == pc # "poll" ~> pc = "poll"
=============================================================================
