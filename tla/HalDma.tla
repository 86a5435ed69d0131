------------------------------- MODULE HalDma -------------------------------
(***************************************************************************)
(* One DMA stream of the STM32F4 as stm32f4xx_hal_dma.c drives it: the     *)
(* fields of DMA_HandleTypeDef the HAL functions read and write, and the   *)
(* bits of the stream's registers they test.  A stream is a record         *)
(*   lock   hdma->Lock = HAL_LOCKED            state  hdma->State          *)
(*   en     DMA_SxCR_EN                        ie     interrupts enabled   *)
(*   flags  the bits of LISR/HISR that belong to the stream                *)
(* Addresses, lengths and error codes are left out: no property needs      *)
(* them.  Every operator maps a stream to the stream the call leaves.      *)
(***************************************************************************)
EXTENDS Naturals

ErrFlags == {"TE", "FE", "DME"}
Flags    == ErrFlags \cup {"HT", "TC"}
DmaState == {"RESET", "READY", "BUSY", "READY_MEM0", "READY_HALF_MEM0", "ERROR"}

Stream == [lock : BOOLEAN, state : DmaState, en : BOOLEAN,
           ie : SUBSET Flags, flags : SUBSET Flags]

\* A stream after HAL_DMA_Init on a handle that was zeroed at reset.
FreshStream == [lock |-> FALSE, state |-> "READY", en |-> FALSE,
                ie |-> {}, flags |-> {}]

\* The stream asks the NVIC for its interrupt.
Pending(s) == s.flags \cap s.ie # {}

\* Clearing EN: the stream raises TC when that stops a transfer under way.
Disable(s) == [s EXCEPT !.en = FALSE,
                        !.flags = IF s.en THEN @ \cup {"TC"} ELSE @]

-----------------------------------------------------------------------------
(* HAL_DMA_Start_IT, in the order of its effects: the lock test is          *)
(* ~s.lock, then the claim, the programming and the enable.                 *)

\* Bugs: an error interrupt is left out; the stream is started for polling.
Program_NoDME(s)   == [Disable(s) EXCEPT !.ie = Flags \ {"DME"}]
Program_Polling(s) == [Disable(s) EXCEPT !.ie = {}]

Claim(s)   == [s EXCEPT !.lock = TRUE, !.state = "BUSY"]
Program(s) == [Disable(s) EXCEPT !.ie = Flags]
Enable(s)  == [s EXCEPT !.en = TRUE]

StartIT(s) == IF s.lock THEN s ELSE Enable(Program(Claim(s)))

\* HAL_DMA_Abort.  EN drops at the end of the current beat, so its one second
\* timeout is not modelled.
Abort(s) == [Disable(s) EXCEPT !.lock = FALSE, !.state = "READY"]

-----------------------------------------------------------------------------
(* HAL_DMA_IRQHandler: errors first, then half transfer, then transfer      *)
(* complete.  Only a stream that is not circular has HT and TC masked.      *)

Raised(s) == s.flags \cap s.ie

HandleErrors(s) ==
  LET errs == Raised(s) \cap ErrFlags
  IN  IF errs = {} THEN s
      ELSE [s EXCEPT !.ie = @ \ errs, !.flags = @ \ errs,
                     !.state = "ERROR", !.lock = FALSE]

HandleHalf(s, circular) ==
  IF "HT" \notin Raised(s) THEN s
  ELSE [s EXCEPT !.ie = IF circular THEN @ ELSE @ \ {"HT"},
                 !.flags = @ \ {"HT"}, !.state = "READY_HALF_MEM0"]

HandleComplete(s, circular) ==
  IF "TC" \notin Raised(s) THEN s
  ELSE [s EXCEPT !.ie = IF circular THEN @ ELSE @ \ {"TC"},
                 !.flags = @ \ {"TC"}, !.state = "READY_MEM0", !.lock = FALSE]

IRQHandler(s, circular) ==
  HandleComplete(HandleHalf(HandleErrors(s), circular), circular)

\* The callbacks HAL_DMA_IRQHandler makes: XferError, XferHalfCplt, XferCplt.
Callbacks(s) == (IF Raised(s) \cap ErrFlags # {} THEN {"error"} ELSE {})
                \cup (IF "HT" \in Raised(s) THEN {"half"} ELSE {})
                \cup (IF "TC" \in Raised(s) THEN {"cplt"} ELSE {})

-----------------------------------------------------------------------------
\* HAL_DMA_DeInit refuses a stream whose State is BUSY and touches nothing.
DeInit(s) == IF s.state = "BUSY" THEN s
             ELSE [lock |-> FALSE, state |-> "RESET", en |-> FALSE,
                   ie |-> {}, flags |-> {}]

\* HAL_DMA_Init programs the stream and its State, and never the Lock.
HalInit(s) == [s EXCEPT !.state = "READY"]
=============================================================================
