----------------------------- MODULE SdTransfer -----------------------------
(***************************************************************************)
(* The transfers between memory and the SD card: BSP_SD_ReadBlocks_DMA and *)
(* BSP_SD_WriteBlocks_DMA, called by FatFs from main(), over the HAL's     *)
(* functions, its two interrupt handlers and the SDIO and DMA hardware;    *)
(* and BSP_SD_Init, which each screenshot calls before it transfers.       *)
(*                                                                         *)
(* SDIO has the highest priority: its handler preempts main() and the      *)
(* handlers of the DMA streams.  The callback of a stream's transfer       *)
(* complete spins, inside its handler, until the SDIO handler has said     *)
(* that the card is done too; main() does not run meanwhile.               *)
(*                                                                         *)
(* Data is abstracted to one question: were all the blocks of the current  *)
(* transfer moved between the card and the caller's buffer?                *)
(***************************************************************************)
EXTENDS HalDma, SdCard

CONSTANT Conditions  \* of the card:
                     \* faulty: may commands fail, data be bad or late, streams fail?
                     \* lag: may the card be done before the stream of a read is?
                     \* kinds: what may be put in the slot

ASSUME ConditionsAssumption ==
  Conditions \subseteq [faulty : BOOLEAN, lag : BOOLEAN, kinds : SUBSET Kinds]

Dir == {"read", "write"}

VARIABLES
  pc, dir, multi,   \* the next step of main(), and what it was asked for
  failed, result,   \* errorstate # SD_OK; what the last transfer returned
  isr,              \* the stream whose handler spins, or "none"
  sdCplt, dmaCplt,  \* hsd->SdTransferCplt, hsd->DmaTransferCplt
  sdErr,            \* hsd->SdTransferErr # SD_OK
  sdio,             \* the SDIO peripheral
  card, handle,     \* the card in the slot and its conditions; uSdHandle
  dma,              \* hsd->hdmarx and hsd->hdmatx with their streams
  target,           \* was the stream programmed for the current transfer?
  ended, moved      \* history: the card is done, the data is in the buffer

hsd    == <<sdCplt, dmaCplt, sdErr>>
main   == <<pc, dir, multi, failed, result>>
data   == <<target, ended, moved>>
vars   == <<main, isr, hsd, sdio, card, handle, dma, data>>

\* The interrupts of a transfer are enabled; the flags DATAEND and, for the
\* others, error; the data path is active; DCTRL.DMAEN; the FIFO of a read
\* still holds its last data.
Sdio == [ie : BOOLEAN, end : BOOLEAN, err : BOOLEAN, act : BOOLEAN,
         dma : BOOLEAN, fifo : BOOLEAN]

Labels == {"idle", "enableIT", "startDma", "blockLen", "command", "response",
           "dataConfig", "setErr", "waitEnd", "waitIdle", "stop", "clear",
           "programming"}

InitLabels == {"CMD0", "CMD8", "ACMD41", "CMD2", "CMD3", "CMD9", "CMD7", "CMD16",
               "ACMD51", "SCR", "ACMD6"}

Init ==
  /\ pc = "idle" /\ dir = "read" /\ multi = FALSE /\ failed = FALSE
  /\ result = "none" /\ isr = "none"
  /\ sdCplt = FALSE /\ dmaCplt = FALSE /\ sdErr = FALSE
  /\ sdio = [ie |-> FALSE, end |-> FALSE, err |-> FALSE, act |-> FALSE,
             dma |-> FALSE, fifo |-> FALSE]
  /\ \E c \in Conditions : \E k \in c.kinds :
       card = [kind |-> k, mode |-> "idle", wide |-> FALSE, status |-> "transfer",
               faulty |-> c.faulty, lag |-> c.lag, kinds |-> c.kinds]
  /\ handle = FreshHandle
  /\ dma = [d \in Dir |-> FreshStream]
  /\ target = [d \in Dir |-> FALSE] /\ ended = FALSE /\ moved = FALSE

SdioPending == sdio.ie /\ (sdio.end \/ sdio.err)
DmaPending  == \E d \in Dir : Pending(dma[d])

\* A step of main(): no handler runs, and none has to.
MainAt(label) == pc = label /\ isr = "none" /\ ~SdioPending /\ ~DmaPending

Goto(label) == pc' = label /\ UNCHANGED <<dir, multi, failed, result>>

\* Bug: a third answer, while the card is busy.
Return_Busy(r) == /\ pc' = "idle" /\ failed' = FALSE
                  /\ result' = IF card.status = "transfer" THEN r ELSE "busy"
                  /\ UNCHANGED <<dir, multi>>

Return(r) == /\ pc' = "idle" /\ result' = r /\ failed' = FALSE
             /\ UNCHANGED <<dir, multi>>

ClearFlags == sdio' = [sdio EXCEPT !.end = FALSE, !.err = FALSE]

-----------------------------------------------------------------------------
(* HAL_SD_ReadBlocks_DMA and HAL_SD_WriteBlocks_DMA.                        *)

\* Bug: DCTRL keeps the data path of the transfer before.
Begin_PathOn(d, m) ==
  /\ MainAt("idle") /\ handle.ready
  /\ pc' = "enableIT" /\ dir' = d /\ multi' = m /\ result' = "none"
  /\ sdCplt' = FALSE /\ dmaCplt' = FALSE /\ sdErr' = FALSE
  /\ target' = [e \in Dir |-> FALSE] /\ ended' = FALSE /\ moved' = FALSE
  /\ UNCHANGED <<failed, isr, handle, sdio, card, dma>>

\* DCTRL = 0 stops the data path before the flags of the handle are reset.  FatFs
\* asks only for transfers of a card it has found ready.
Begin(d, m) ==
  /\ MainAt("idle") /\ handle.ready
  /\ pc' = "enableIT" /\ dir' = d /\ multi' = m /\ result' = "none"
  /\ sdio' = [sdio EXCEPT !.act = FALSE, !.dma = FALSE, !.fifo = FALSE]
  /\ sdCplt' = FALSE /\ dmaCplt' = FALSE /\ sdErr' = FALSE
  /\ target' = [e \in Dir |-> FALSE] /\ ended' = FALSE /\ moved' = FALSE
  /\ UNCHANGED <<failed, isr, handle, card, dma>>

EnableIT ==
  /\ MainAt("enableIT") /\ Goto("startDma")
  /\ sdio' = [sdio EXCEPT !.ie = TRUE]
  /\ UNCHANGED <<isr, handle, hsd, card, dma, data>>

\* Bug: a read starts the stream of the writes.
StartDma_Tx ==
  /\ MainAt("startDma") /\ Goto("blockLen")
  /\ dma' = [dma EXCEPT !["write"] = StartIT(@)]
  /\ target' = [target EXCEPT !["write"] = TRUE]
  /\ sdio' = [sdio EXCEPT !.dma = TRUE]
  /\ UNCHANGED <<isr, handle, hsd, card, ended, moved>>

\* HAL_DMA_Start_IT returns HAL_BUSY on a locked stream; nobody looks at it.
StartDma ==
  /\ MainAt("startDma") /\ Goto("blockLen")
  /\ dma' = [dma EXCEPT ![dir] = StartIT(@)]
  /\ target' = [target EXCEPT ![dir] = ~dma[dir].lock]
  /\ sdio' = [sdio EXCEPT !.dma = TRUE]
  /\ UNCHANGED <<isr, handle, hsd, card, ended, moved>>

\* SD_CmdResp1Error: an answer clears the flags of SDIO, even one that tells an
\* error; no answer, or a bad one, does not.  An error is returned as it is, with
\* the stream and the interrupts enabled.
BlockLen ==
  /\ MainAt("blockLen")
  /\ \/ Goto("command") /\ ClearFlags
     \/ card.faulty /\ Return("error") /\ (ClearFlags \/ UNCHANGED sdio)
  /\ UNCHANGED <<isr, handle, hsd, card, dma, data>>

\* A read has its data path wait for the card before the command is sent.
Command ==
  /\ MainAt("command") /\ Goto("response")
  /\ sdio' = [sdio EXCEPT !.act = dir = "read"]
  /\ UNCHANGED <<isr, handle, hsd, card, dma, data>>

\* Bug: nobody calls HAL_SD_CheckReadOperation.
Response_NoCheck ==
  /\ MainAt("response") /\ ClearFlags
  /\ IF dir = "read" THEN Return("ok") ELSE Goto("dataConfig")
  /\ UNCHANGED <<isr, handle, hsd, card, dma, data>>

Response ==
  /\ MainAt("response")
  /\ \/ /\ Goto(IF dir = "read" THEN "setErr" ELSE "dataConfig")
        /\ ClearFlags /\ UNCHANGED sdErr
     \/ /\ card.faulty /\ Return("error")
        /\ sdErr' = IF dir = "read" THEN TRUE ELSE sdErr
        /\ ClearFlags \/ UNCHANGED sdio
  /\ UNCHANGED <<isr, handle, sdCplt, dmaCplt, card, dma, data>>

DataConfig ==
  /\ MainAt("dataConfig") /\ Goto("setErr")
  /\ sdio' = [sdio EXCEPT !.act = TRUE]
  /\ UNCHANGED <<isr, handle, hsd, card, dma, data>>

\* hsd->SdTransferErr = errorstate, whatever a handler wrote there meanwhile.
SetErr ==
  /\ MainAt("setErr") /\ Goto("waitEnd") /\ sdErr' = FALSE
  /\ UNCHANGED <<isr, handle, sdCplt, dmaCplt, sdio, card, dma, data>>

-----------------------------------------------------------------------------
(* HAL_SD_CheckReadOperation and HAL_SD_CheckWriteOperation.                *)

\* The loop ends on the first of the three flags, or when its count is over.
WaitEnd ==
  /\ MainAt("waitEnd") /\ Goto("waitIdle")
  /\ sdCplt \/ dmaCplt \/ sdErr \/ card.faulty
  /\ UNCHANGED <<isr, handle, hsd, sdio, card, dma, data>>

\* RXACT or TXACT.  The count starts again; only this one may be reported, if
\* the stop command of a transfer of several blocks has no error to report.
WaitIdle ==
  /\ MainAt("waitIdle")
  /\ \/ ~sdio.act /\ failed' = FALSE
     \/ card.faulty /\ failed' = TRUE
  /\ pc' = (IF multi THEN "stop" ELSE "clear")
  /\ UNCHANGED <<dir, multi, result, isr, handle, hsd, sdio, card, dma, data>>

Stop ==
  /\ MainAt("stop") /\ pc' = "clear"
  /\ \/ ClearFlags /\ UNCHANGED failed
     \/ card.faulty /\ failed' = TRUE /\ (ClearFlags \/ UNCHANGED sdio)
  /\ UNCHANGED <<dir, multi, result, isr, handle, hsd, card, dma, data>>

\* A write then asks the card for its status until it is SD_TRANSFER_OK.
Clear ==
  /\ MainAt("clear") /\ ClearFlags
  /\ IF sdErr \/ (dir = "read" /\ failed) THEN Return("error")
     ELSE IF dir = "read" THEN Return("ok")
     ELSE Goto("programming")
  /\ UNCHANGED <<isr, handle, hsd, card, dma, data>>

Programming ==
  /\ MainAt("programming") /\ card.status = "transfer"
  /\ Return(IF failed THEN "error" ELSE "ok")
  /\ UNCHANGED <<isr, handle, hsd, sdio, card, dma, data>>

-----------------------------------------------------------------------------
(* BSP_SD_Init, when the user asks for a screenshot and when FatFs         *)
(* initialises the drive, and HAL_SD_GetStatus.                             *)

\* SD_MspInit, and HAL_SD_Init until the first command.
BspInit ==
  /\ MainAt("idle") /\ Goto("CMD0")
  /\ dma' = [d \in Dir |-> HalInit(DeInit(dma[d]))]
  /\ handle' = [FreshHandle EXCEPT !.type = handle.type]
  /\ UNCHANGED <<isr, hsd, sdio, card, data>>

\* MSD_ERROR.
InitFails == Goto("idle") /\ UNCHANGED handle

\* GO_IDLE_STATE: SD_CmdError waits until it is sent, and cannot tell more.
Cmd0 ==
  /\ MainAt("CMD0") /\ Goto("CMD8") /\ ClearFlags
  /\ \/ card' = [card EXCEPT !.mode = "idle", !.wide = FALSE, !.status = "transfer"]
     \/ card.faulty /\ UNCHANGED card
  /\ UNCHANGED <<isr, handle, hsd, dma, data>>

\* SEND_IF_COND: no answer is one, too.  SD_CmdResp7Error leaves the flag of a bad
\* one to the command that follows, which fails at once.
Cmd8 ==
  /\ MainAt("CMD8")
  /\ \/ /\ Hears(card, "CMD8") /\ Goto("ACMD41")
        /\ handle' = [handle EXCEPT !.type = "V2", !.hcs = TRUE]
     \/ /\ card.faulty \/ ~Hears(card, "CMD8")
        /\ Goto("ACMD41") /\ UNCHANGED handle
     \/ card.faulty /\ InitFails
  /\ UNCHANGED <<isr, hsd, sdio, card, dma, data>>

\* Bug: a high-capacity card is not told from another one of version 2.
TypeOf_NoCcs == handle.type

\* CCS of the answer.
TypeOf == IF card.kind = "HC" THEN "HC" ELSE handle.type

\* CMD55 and the loop of SD_APP_OP_COND, until the card is ready or for
\* SD_MAX_VOLT_TRIAL turns.  A card of version 1 finds CMD8 illegal; it may say so in
\* its answer to CMD55, where SD_CmdResp1Error takes that for a failure.
Acmd41 ==
  /\ MainAt("ACMD41")
  /\ \/ /\ BecomesReady(card, handle) /\ card' = [card EXCEPT !.mode = "ready"]
        /\ handle' = [handle EXCEPT !.type = TypeOf]
        /\ Goto("CMD2") /\ ClearFlags
     \/ /\ card.faulty \/ ~BecomesReady(card, handle) \/ card.kind = "V1"
        /\ InitFails /\ UNCHANGED card /\ (ClearFlags \/ UNCHANGED sdio)
  /\ UNCHANGED <<isr, hsd, dma, data>>

\* The answer clears the flags of SDIO, or none arrives; the card may have obeyed.
InitFailsAt(cmd) ==
  /\ card.faulty \/ ~Hears(card, cmd)
  /\ \/ UNCHANGED card
     \/ Hears(card, cmd) /\ card' = Does(card, cmd)
  /\ InitFails

\* SD_Initialize_Cards, SD_Select_Deselect, and the first command of SD_FindSCR.
InitCommand(cmd, next) ==
  /\ MainAt(cmd)
  /\ \/ /\ Hears(card, cmd) /\ card' = Does(card, cmd)
        /\ Goto(next) /\ ClearFlags /\ UNCHANGED handle
     \/ InitFailsAt(cmd) /\ (ClearFlags \/ UNCHANGED sdio)
  /\ UNCHANGED <<isr, hsd, dma, data>>

Identify == \/ InitCommand("CMD2", "CMD3") \/ InitCommand("CMD3", "CMD9")
            \/ InitCommand("CMD9", "CMD7") \/ InitCommand("CMD7", "CMD16")
            \/ InitCommand("CMD16", "ACMD51")

\* SEND_SCR, with the data path waiting for the card.  DMAEN is as the transfers
\* before have left it.
Acmd51 ==
  /\ MainAt("ACMD51")
  /\ \/ /\ Hears(card, "ACMD51") /\ UNCHANGED card /\ Goto("SCR") /\ UNCHANGED handle
        /\ sdio' = [sdio EXCEPT !.end = FALSE, !.err = FALSE, !.act = TRUE, !.fifo = FALSE]
     \/ /\ InitFailsAt("ACMD51")
        /\ sdio' \in {sdio, [sdio EXCEPT !.act = TRUE, !.fifo = FALSE]}
  /\ UNCHANGED <<isr, hsd, dma, data>>

\* The loop of SD_FindSCR, which ends on an error or on DBCKEND, and tests for one
\* error first.
ScrEnds ==
  /\ MainAt("SCR") /\ UNCHANGED <<isr, hsd, card, dma, data>>
  /\ handle' = [handle EXCEPT !.scr = "none"]
  /\ \/ sdio.err /\ sdio' = [sdio EXCEPT !.err = FALSE] /\ Goto("idle")
     \/ /\ ~sdio.err /\ handle.scr # "none" /\ ClearFlags
        /\ Goto(IF handle.scr = "read" THEN "ACMD6" ELSE "idle")

\* Bug: the bus is made wide before the card has said yes.
Acmd6_Early ==
  /\ MainAt("ACMD6") /\ ClearFlags /\ Goto("idle")
  /\ handle' = [handle EXCEPT !.wide = TRUE, !.ready = TRUE]
  /\ card' \in {card, Does(card, "ACMD6")}
  /\ UNCHANGED <<isr, hsd, dma, data>>

\* SET_BUSWIDTH; the host follows a card that has said yes, and MSD_OK.
Acmd6 ==
  /\ MainAt("ACMD6")
  /\ \/ /\ Hears(card, "ACMD6") /\ card' = Does(card, "ACMD6")
        /\ handle' = [handle EXCEPT !.wide = TRUE, !.ready = TRUE]
        /\ Goto("idle") /\ ClearFlags
     \/ InitFailsAt("ACMD6") /\ (ClearFlags \/ UNCHANGED sdio)
  /\ UNCHANGED <<isr, hsd, dma, data>>

Initialise == Cmd0 \/ Cmd8 \/ Acmd41 \/ Identify \/ Acmd51 \/ ScrEnds \/ Acmd6

\* HAL_SD_GetStatus, which FatFs asks for before most calls.
GetStatus ==
  /\ MainAt("idle") /\ handle.ready /\ ClearFlags
  /\ UNCHANGED <<main, isr, handle, hsd, card, dma, data>>

-----------------------------------------------------------------------------
(* The handlers.                                                            *)

\* Bug: the end of the data is not reported.
SdioIRQ_NoCplt ==
  /\ SdioPending /\ sdErr' = ~sdio.end
  /\ sdio' = [sdio EXCEPT !.ie = FALSE, !.end = FALSE, !.err = FALSE]
  /\ UNCHANGED <<main, isr, handle, sdCplt, dmaCplt, card, dma, data>>

\* HAL_SD_IRQHandler serves one flag, the end of the data first, and disables
\* every interrupt of SDIO.
SdioIRQ ==
  /\ SdioPending
  /\ sdCplt' = (sdCplt \/ sdio.end) /\ sdErr' = ~sdio.end
  /\ sdio' = [sdio EXCEPT !.ie = FALSE, !.end = FALSE,
                          !.err = IF sdio.end THEN @ ELSE FALSE]
  /\ UNCHANGED <<main, isr, handle, dmaCplt, card, dma, data>>

\* Bug: the callback does not wait for the card.
DmaIRQ_NoSpin(d) ==
  /\ isr = "none" /\ ~SdioPending /\ Pending(dma[d])
  /\ dmaCplt' = (dmaCplt \/ "cplt" \in Callbacks(dma[d]))
  /\ dma' = [dma EXCEPT ![d] = IRQHandler(@, FALSE)]
  /\ UNCHANGED <<main, isr, handle, sdCplt, sdErr, sdio, card, data>>

\* BSP_SD_DMA_Rx_IRQHandler and BSP_SD_DMA_Tx_IRQHandler, up to the loop of
\* SD_DMA_RxCplt and SD_DMA_TxCplt.
DmaIRQ(d) ==
  /\ isr = "none" /\ ~SdioPending /\ Pending(dma[d])
  /\ dma' = [dma EXCEPT ![d] = IRQHandler(@, FALSE)]
  /\ IF "cplt" \in Callbacks(dma[d])
     THEN dmaCplt' = TRUE /\ isr' = d
     ELSE UNCHANGED <<dmaCplt, isr>>
  /\ UNCHANGED <<main, handle, sdCplt, sdErr, sdio, card, data>>

\* The end of the loop.
SpinEnds ==
  /\ isr # "none" /\ ~SdioPending /\ sdCplt
  /\ isr' = "none"
  /\ dma' = [dma EXCEPT ![isr] = Abort(@)]
  /\ UNCHANGED <<main, handle, hsd, sdio, card, data>>

-----------------------------------------------------------------------------
(* The hardware.                                                            *)

\* The card answers a command of this transfer, not of one before.
Asked == pc \notin {"enableIT", "startDma", "blockLen", "command"}

Serves(d) == dma[d].en /\ sdio.dma

\* A stream ends by itself with the transfer of SDIO, and raises TC.
StreamDone(d) == dma' = [dma EXCEPT ![d].en = FALSE, ![d].flags = @ \cup {"TC"}]

\* The last block of a read is in the FIFO of SDIO; the stream empties it, at
\* once unless it lags.
CardSends ==
  /\ handle.ready /\ sdio.act /\ dir = "read" /\ Serves("read")
  /\ ended' = Asked
  /\ \/ /\ card.lag /\ UNCHANGED <<dma, moved>>
        /\ sdio' = [sdio EXCEPT !.act = FALSE, !.end = TRUE, !.fifo = TRUE]
     \/ /\ StreamDone("read") /\ moved' = target["read"]
        /\ sdio' = [sdio EXCEPT !.act = FALSE, !.end = TRUE]
  /\ UNCHANGED <<main, isr, handle, hsd, card, target>>

StreamEmptiesFifo ==
  /\ sdio.fifo /\ Serves("read") /\ StreamDone("read")
  /\ moved' = target["read"]
  /\ sdio' = [sdio EXCEPT !.fifo = FALSE]
  /\ UNCHANGED <<main, isr, handle, hsd, card, target, ended>>

\* The stream of a write has put its last block in the FIFO; the card takes it.
StreamFillsFifo ==
  /\ handle.ready /\ sdio.act /\ dir = "write" /\ Serves("write") /\ StreamDone("write")
  /\ moved' = target["write"]
  /\ sdio' = [sdio EXCEPT !.fifo = TRUE]
  /\ UNCHANGED <<main, isr, handle, hsd, card, target, ended>>

CardReceives ==
  /\ handle.ready /\ sdio.act /\ dir = "write" /\ sdio.fifo
  /\ sdio' = [sdio EXCEPT !.act = FALSE, !.end = TRUE, !.fifo = FALSE]
  /\ ended' = Asked /\ card' = [card EXCEPT !.status = "programming"]
  /\ UNCHANGED <<main, isr, handle, hsd, dma, target, moved>>

CardIsReady ==
  /\ card.status = "programming" /\ card' = [card EXCEPT !.status = "transfer"]
  /\ UNCHANGED <<main, isr, handle, hsd, sdio, dma, data>>

\* DCRCFAIL, DTIMEOUT, RXOVERR or TXUNDERR: the data path stops, with the last
\* data of a read in its FIFO or not.
DataError ==
  /\ sdio.act /\ card.faulty
  /\ \E left \in BOOLEAN :
       /\ left => dir = "read"
       /\ sdio' = [sdio EXCEPT !.act = FALSE, !.err = TRUE, !.fifo = left]
  /\ UNCHANGED <<main, isr, handle, hsd, card, dma, data>>

\* Nobody empties or fills the FIFO: RXOVERR or TXUNDERR.
NoStream ==
  /\ handle.ready /\ sdio.act /\ ~sdio.fifo /\ ~Serves(dir)
  /\ sdio' = [sdio EXCEPT !.act = FALSE, !.err = TRUE]
  /\ UNCHANGED <<main, isr, handle, hsd, card, dma, data>>

\* The card sends SCR.  main() reads it from the FIFO, unless a stream that a
\* transfer has left enabled takes it.
ScrArrives ==
  /\ pc = "SCR" /\ sdio.act
  /\ sdio' = [sdio EXCEPT !.act = FALSE, !.end = TRUE]
  /\ \/ handle' = [handle EXCEPT !.scr = "read"] /\ UNCHANGED dma
     \/ \E d \in Dir : /\ Serves(d) /\ StreamDone(d)
                       /\ handle' = [handle EXCEPT !.scr = "lost"]
  /\ UNCHANGED <<main, isr, hsd, card, data>>

\* The card is taken out, or another one put in.  Elsewhere it is a card that fails.
Swap(k) ==
  /\ pc = "idle" /\ k \in card.kinds
  /\ card' = [card EXCEPT !.kind = k, !.mode = "idle", !.wide = FALSE,
                          !.status = "transfer"]
  /\ handle' = [handle EXCEPT !.ready = FALSE]
  /\ UNCHANGED <<main, isr, hsd, sdio, dma, data>>

\* A transfer error stops the stream.
StreamError(d) ==
  /\ dma[d].en /\ card.faulty
  /\ dma' = [dma EXCEPT ![d].en = FALSE, ![d].flags = @ \cup {"TE"}]
  /\ UNCHANGED <<main, isr, handle, hsd, sdio, card, data>>

\* The card fails while it programs, and says so ever after.
CardFails ==
  /\ card.status = "programming" /\ card.faulty /\ card' = [card EXCEPT !.status = "error"]
  /\ UNCHANGED <<main, isr, handle, hsd, sdio, dma, data>>

Transfer == \/ EnableIT \/ StartDma \/ BlockLen \/ Command \/ Response
            \/ DataConfig \/ SetErr \/ WaitEnd \/ WaitIdle \/ Stop \/ Clear
            \/ Programming \/ Initialise

Hardware == \/ CardSends \/ StreamEmptiesFifo \/ StreamFillsFifo
            \/ CardReceives \/ CardIsReady \/ NoStream \/ ScrArrives

Next == \/ \E d \in Dir, m \in BOOLEAN : Begin(d, m)
        \/ Transfer \/ BspInit \/ GetStatus \/ \E k \in Kinds : Swap(k)
        \/ SdioIRQ \/ SpinEnds
        \/ \E d \in Dir : DmaIRQ(d) \/ StreamError(d)
        \/ Hardware \/ DataError \/ CardFails

\* The processor runs and serves its interrupts; a card that does not fail
\* does its part.  Nothing makes FatFs ask for another transfer.
Fairness == /\ WF_vars(Transfer) /\ WF_vars(SdioIRQ) /\ WF_vars(SpinEnds)
            /\ \A d \in Dir : WF_vars(DmaIRQ(d))
            /\ WF_vars(Hardware)

Spec == Init /\ [][Next]_vars

FairSpec == Spec /\ Fairness

-----------------------------------------------------------------------------
(* Properties.                                                              *)

SdTypeOK ==
  /\ pc \in Labels \cup InitLabels /\ dir \in Dir /\ multi \in BOOLEAN /\ failed \in BOOLEAN
  /\ result \in {"none", "ok", "error"} /\ isr \in Dir \cup {"none"}
  /\ sdCplt \in BOOLEAN /\ dmaCplt \in BOOLEAN /\ sdErr \in BOOLEAN
  /\ sdio \in Sdio /\ card \in Card /\ handle \in Handle
  /\ dma \in [Dir -> Stream] /\ target \in [Dir -> BOOLEAN]
  /\ ended \in BOOLEAN /\ moved \in BOOLEAN

Good == ~card.faulty /\ ~card.lag

\* hal_sd.c:1123: CheckReadOperation waits until the transfer is finished.  A
\* transfer that returns SD_OK has moved all its blocks.
OkMeansMoved == Good /\ result = "ok" => moved

\* The loop of the callback is what lets CheckReadOperation stop at the first
\* flag: main() never sees DmaTransferCplt without SdTransferCplt, even after
\* an error.
DmaEndsAfterCard == dmaCplt /\ isr = "none" => sdCplt

\* The flags of SDIO outlive a transfer that fails: none of them ever ends a
\* later one, whose card has not sent or taken its data yet.
CompletionIsMine == sdCplt /\ pc \in Labels \ {"idle"} => ended

\* Between two transfers each stream can be started, has nothing to say and
\* will not move a word into a buffer its owner has taken back.
StreamsAreFree ==
  Good /\ pc = "idle" => \A d \in Dir : ~dma[d].lock /\ ~dma[d].en /\ ~Pending(dma[d])

\* stm32f4_sd.c:401: "Deinitialize the stream for new transfer".  After
\* BSP_SD_Init both streams can be started.
InitFreesStreams == [][BspInit => \A d \in Dir : ~dma'[d].lock]_vars

\* BSP_SD_Init tells the truth: after MSD_OK the card is selected and both sides use
\* four lines, whatever was lost before.  It refuses no card of version 2 where nothing
\* fails (Good, of the whole behaviour): neither the transfers that went well nor a
\* card of another kind have left anything behind.  (After a transfer that failed it
\* may: DCTRL keeps DMAEN, and a stream takes the register SCR.)
InitTells ==
  [][pc' = "idle" /\ pc \in InitLabels =>
       /\ (handle'.ready => card'.mode = "tran" /\ card'.wide /\ handle'.wide)
       /\ (Good /\ card.kind \in {"V2", "HC"} => handle'.ready)]_vars

\* hal_sd.c:932: a high-capacity card is addressed by blocks, and a standard one of
\* version 2 by bytes.  (One of version 1 keeps the type of the card before.)
AddressFits ==
  handle.ready => /\ (card.kind = "HC" => handle.type = "HC")
                  /\ (Good /\ card.kind = "V2" => handle.type = "V2")

\* Each transfer returns, and each BSP_SD_Init.
TransferReturns == Good /\ pc # "idle" ~> pc = "idle"

\* hal_sd.c:1128: a timeout bounds CheckReadOperation: each read returns.
ReadReturns == pc # "idle" /\ dir = "read" ~> pc = "idle"
=============================================================================
