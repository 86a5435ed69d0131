-------------------------- MODULE SdTransfer_proofs --------------------------
(***************************************************************************)
(* Proofs about the transfers of the SD card, for every set of Conditions: *)
(* any mix of cards, with or without faults, whose streams lag or not.     *)
(* PathInv, SpinInv and AddressInv hold whatever fails; MoveInv and        *)
(* IdentInv of a card that works and streams that do not lag.              *)
(***************************************************************************)
EXTENDS SdTransfer, TLAPS

-----------------------------------------------------------------------------
(* The HAL operators on one stream.                                         *)

\* HAL_DMA_Abort and HAL_DMA_Start_IT keep the type.
LEMMA StartType ==
  ASSUME NEW s \in Stream
  PROVE  StartIT(s) \in Stream /\ Abort(s) \in Stream
<1>1. Disable(s) \in Stream /\ Claim(s) \in Stream /\ Abort(s) \in Stream
  BY DEF Disable, Claim, Abort, Stream, DmaState, Flags
<1>2. Program(Claim(s)) \in Stream
  BY <1>1 DEF Program, Disable, Stream, Flags
<1> QED BY <1>1, <1>2 DEF StartIT, Enable, Stream

\* So do HAL_DMA_DeInit and HAL_DMA_Init.
LEMMA InitStreamType ==
  ASSUME NEW s \in Stream
  PROVE  HalInit(DeInit(s)) \in Stream
BY DEF HalInit, DeInit, Stream, DmaState, Flags

\* And HAL_DMA_IRQHandler on a stream that is not circular.
LEMMA HandlerType ==
  ASSUME NEW s \in Stream
  PROVE  IRQHandler(s, FALSE) \in Stream
<1> DEFINE e == HandleErrors(s)
           h == HandleHalf(e, FALSE)
<1>1. e \in Stream
  BY DEF HandleErrors, Raised, Stream, DmaState, Flags, ErrFlags
<1>2. h \in Stream
  BY <1>1 DEF HandleHalf, Raised, Stream, DmaState, Flags, ErrFlags
<1>3. HandleComplete(h, FALSE) \in Stream
  BY <1>2 DEF HandleComplete, Raised, Stream, DmaState, Flags, ErrFlags
<1> QED BY <1>3 DEF IRQHandler

\* A stream that ends raises TC, and one that fails TE.
LEMMA EndType ==
  ASSUME NEW s \in Stream, NEW g \in Flags
  PROVE  [s EXCEPT !.en = FALSE, !.flags = @ \cup {g}] \in Stream
BY DEF Stream, Flags

-----------------------------------------------------------------------------
(* Type correctness.                                                        *)

\* At reset everything is well typed.
LEMMA InitSdType == Init => SdTypeOK
<1> SUFFICES ASSUME Init PROVE SdTypeOK
  OBVIOUS
<1>1. card \in Card
  BY ConditionsAssumption DEF Init, Card, Modes
<1>2. FreshStream \in Stream
  BY DEF FreshStream, Stream, DmaState
<1>3. dma \in [Dir -> Stream] /\ target \in [Dir -> BOOLEAN]
  BY <1>2 DEF Init
<1>4. sdio \in Sdio
  BY DEF Init, Sdio
<1>5. handle \in Handle
  BY DEF Init, FreshHandle, Handle, Types, Kinds, Scr
<1> QED BY <1>1, <1>3, <1>4, <1>5 DEF Init, SdTypeOK, Labels, Dir

\* Every step of main() in a transfer keeps the types.
LEMMA TransferType ==
  ASSUME SdTypeOK,
         \/ \E d \in Dir, m \in BOOLEAN : Begin(d, m)
         \/ EnableIT \/ StartDma \/ BlockLen \/ Command \/ Response \/ DataConfig
         \/ SetErr \/ WaitEnd \/ WaitIdle \/ Stop \/ Clear \/ Programming \/ GetStatus
  PROVE  SdTypeOK'
<1> USE DEF Goto, Return, ClearFlags, hsd, main, data
<1>0. sdio' \in Sdio
  <2> USE DEF SdTypeOK, Sdio
  <2>1. CASE \E d \in Dir, m \in BOOLEAN : Begin(d, m)
    BY <2>1 DEF Begin
  <2>2. CASE EnableIT \/ StartDma \/ BlockLen \/ Command \/ Response \/ DataConfig
    BY <2>2 DEF EnableIT, StartDma, BlockLen, Command, Response, DataConfig
  <2>3. CASE SetErr \/ WaitEnd \/ WaitIdle \/ Stop \/ Clear \/ Programming \/ GetStatus
    BY <2>3 DEF SetErr, WaitEnd, WaitIdle, Stop, Clear, Programming, GetStatus
  <2> QED BY <2>1, <2>2, <2>3
<1> USE <1>0 DEF SdTypeOK, Labels
<1>1. CASE \E d \in Dir, m \in BOOLEAN : Begin(d, m)
  BY <1>1 DEF Begin
<1>2. CASE EnableIT
  BY <1>2 DEF EnableIT
<1>3. CASE StartDma
  <2>1. StartIT(dma[dir]) \in Stream
    BY StartType
  <2> QED BY <1>3, <2>1 DEF StartDma
<1>4. CASE BlockLen
  <2>1. pc' \in {"command", "idle"} /\ failed' \in BOOLEAN /\ result' \in {result, "error"}
    BY <1>4 DEF BlockLen
  <2>2. UNCHANGED <<dir, multi, isr, hsd, card, handle, dma, data>>
    BY <1>4 DEF BlockLen
  <2> QED BY <2>1, <2>2
<1>5. CASE Command
  BY <1>5 DEF Command
<1>6. CASE Response
  <2>1. /\ pc' \in {"setErr", "dataConfig", "idle"} /\ failed' \in BOOLEAN
        /\ result' \in {result, "error"} /\ sdErr' \in BOOLEAN
    BY <1>6 DEF Response
  <2>2. UNCHANGED <<dir, multi, isr, sdCplt, dmaCplt, card, handle, dma, data>>
    BY <1>6 DEF Response
  <2> QED BY <2>1, <2>2
<1>7. CASE DataConfig
  BY <1>7 DEF DataConfig
<1>8. CASE SetErr
  BY <1>8 DEF SetErr
<1>9. CASE WaitEnd
  BY <1>9 DEF WaitEnd
<1>10. CASE WaitIdle
  BY <1>10 DEF WaitIdle
<1>11. CASE Stop
  <2>1. pc' = "clear" /\ failed' \in BOOLEAN
    BY <1>11 DEF Stop
  <2>2. UNCHANGED <<dir, multi, result, isr, hsd, card, handle, dma, data>>
    BY <1>11 DEF Stop
  <2> QED BY <2>1, <2>2
<1>12. CASE Clear
  <2>1. /\ pc' \in {"programming", "idle"} /\ failed' \in BOOLEAN
        /\ result' \in {result, "ok", "error"}
    BY <1>12 DEF Clear
  <2>2. UNCHANGED <<dir, multi, isr, hsd, card, handle, dma, data>>
    BY <1>12 DEF Clear
  <2> QED BY <2>1, <2>2
<1>13. CASE Programming
  BY <1>13 DEF Programming
<1>14. CASE GetStatus
  BY <1>14 DEF GetStatus
<1> QED BY <1>1, <1>2, <1>3, <1>4, <1>5, <1>6, <1>7, <1>8, <1>9, <1>10, <1>11, <1>12,
           <1>13, <1>14

\* The commands of which Obeyed knows the mode.
Commands == {"CMD2", "CMD3", "CMD9", "CMD7", "CMD16", "ACMD51", "ACMD6"}

\* A card that obeys a command is still a card.
LEMMA DoesType ==
  ASSUME NEW c \in Card, NEW cmd \in Commands
  PROVE  Does(c, cmd) \in Card
<1>1. Obeyed[cmd][2] \in Modes
  BY DEF Obeyed, Commands, Modes
<1> QED BY <1>1 DEF Does, Card

\* Every step of BSP_SD_Init keeps the types.
LEMMA InitialiseType ==
  ASSUME SdTypeOK, BspInit \/ Initialise
  PROVE  SdTypeOK'
<1> USE DEF hsd, data, main, Goto, ClearFlags, InitFails
<1>1. CASE BspInit
  <2>1. \A d \in Dir : HalInit(DeInit(dma[d])) \in Stream
    BY InitStreamType DEF SdTypeOK
  <2>2. handle' \in Handle
    BY <1>1 DEF BspInit, SdTypeOK, FreshHandle, Handle, Scr
  <2> QED BY <1>1, <2>1, <2>2 DEF BspInit, InitLabels, SdTypeOK
<1>2. CASE Cmd0
  <2>1. sdio' \in Sdio /\ card' \in Card
    BY <1>2 DEF Cmd0, SdTypeOK, Sdio, Card, Modes
  <2> QED BY <1>2, <2>1 DEF Cmd0, SdTypeOK, InitLabels
<1>3. CASE Cmd8
  <2>1. handle' \in Handle
    BY <1>3 DEF Cmd8, SdTypeOK, Handle, Types, Kinds
  <2> QED BY <1>3, <2>1 DEF Cmd8, SdTypeOK, InitLabels, Labels
<1>4. CASE Acmd41
  <2>1. sdio' \in Sdio
    BY <1>4 DEF Acmd41, SdTypeOK, Sdio
  <2>2. card' \in Card
    BY <1>4 DEF Acmd41, SdTypeOK, Card, Modes
  <2>3. TypeOf \in Types
    BY DEF TypeOf, SdTypeOK, Handle, Types, Kinds
  <2>4. handle' \in Handle
    BY <1>4, <2>3 DEF Acmd41, SdTypeOK, Handle
  <2> QED BY <1>4, <2>1, <2>2, <2>4 DEF Acmd41, SdTypeOK, InitLabels, Labels
<1>5. ASSUME NEW cmd \in Commands, NEW next \in InitLabels, InitCommand(cmd, next)
      PROVE  SdTypeOK'
  <2>1. sdio' \in Sdio /\ card' \in Card
    BY <1>5, DoesType DEF InitCommand, InitFailsAt, SdTypeOK, Sdio
  <2> QED BY <1>5, <2>1 DEF InitCommand, InitFailsAt, SdTypeOK, Labels
<1>6. CASE Identify
  BY <1>5, <1>6 DEF Identify, Commands, InitLabels
<1>7. CASE Acmd51
  <2>1. sdio' \in Sdio
    BY <1>7 DEF Acmd51, SdTypeOK, Sdio
  <2>2. card' \in Card
    BY <1>7, DoesType DEF Acmd51, InitFailsAt, SdTypeOK, Commands
  <2> QED BY <1>7, <2>1, <2>2 DEF Acmd51, InitFailsAt, SdTypeOK, InitLabels, Labels
<1>8. CASE ScrEnds
  <2>1. sdio' \in Sdio /\ handle' \in Handle
    BY <1>8 DEF ScrEnds, SdTypeOK, Sdio, Handle, Scr
  <2> QED BY <1>8, <2>1 DEF ScrEnds, SdTypeOK, InitLabels, Labels
<1>9. CASE Acmd6
  <2>1. sdio' \in Sdio /\ handle' \in Handle
    BY <1>9 DEF Acmd6, InitFailsAt, SdTypeOK, Sdio, Handle
  <2>2. card' \in Card
    BY <1>9, DoesType DEF Acmd6, InitFailsAt, SdTypeOK, Commands
  <2> QED BY <1>9, <2>1, <2>2 DEF Acmd6, InitFailsAt, SdTypeOK, Labels
<1> QED BY <1>1, <1>2, <1>3, <1>4, <1>6, <1>7, <1>8, <1>9 DEF Initialise

\* The handlers and the hardware keep the types.
LEMMA OtherType ==
  ASSUME SdTypeOK,
         \/ SdioIRQ \/ SpinEnds \/ Hardware \/ DataError \/ CardFails
         \/ \E k \in Kinds : Swap(k)
         \/ \E d \in Dir : DmaIRQ(d) \/ StreamError(d)
  PROVE  SdTypeOK'
<1> USE DEF hsd, main, data
<1>0. \A d \in Dir : /\ IRQHandler(dma[d], FALSE) \in Stream /\ Abort(dma[d]) \in Stream
                     /\ [dma[d] EXCEPT !.en = FALSE, !.flags = @ \cup {"TC"}] \in Stream
                     /\ [dma[d] EXCEPT !.en = FALSE, !.flags = @ \cup {"TE"}] \in Stream
  <2>1. "TC" \in Flags /\ "TE" \in Flags
    BY DEF Flags, ErrFlags
  <2>2. ASSUME NEW d \in Dir PROVE dma[d] \in Stream
    BY DEF SdTypeOK
  <2> QED BY <2>1, <2>2, HandlerType, StartType, EndType
<1>1. CASE SdioIRQ
  <2>1. sdio' \in Sdio
    BY <1>1 DEF SdioIRQ, SdTypeOK, Sdio
  <2> QED BY <1>1, <2>1 DEF SdioIRQ, SdTypeOK, Sdio
<1>2. CASE SpinEnds
  <2>1. dma' \in [Dir -> Stream]
    BY <1>2, <1>0 DEF SpinEnds, SdTypeOK
  <2>2. isr' = "none" /\ UNCHANGED <<main, handle, hsd, sdio, card, data>>
    BY <1>2 DEF SpinEnds
  <2> QED BY <2>1, <2>2 DEF SdTypeOK
<1>3. CASE Hardware
  <2>1. ASSUME NEW d \in Dir, StreamDone(d) PROVE dma' \in [Dir -> Stream]
    BY <1>0, <2>1 DEF StreamDone, SdTypeOK
  <2>2. dma' \in [Dir -> Stream]
    BY <1>3, <2>1 DEF Hardware, CardSends, StreamEmptiesFifo, StreamFillsFifo, CardReceives,
                      CardIsReady, NoStream, ScrArrives, Dir, SdTypeOK
  <2>3. sdio' \in Sdio
    <3> USE DEF SdTypeOK, Sdio
    <3>1. CASE CardSends \/ CardIsReady \/ ScrArrives
      BY <3>1 DEF CardSends, CardIsReady, ScrArrives
    <3>2. CASE StreamEmptiesFifo \/ StreamFillsFifo
      BY <3>2 DEF StreamEmptiesFifo, StreamFillsFifo
    <3>3. CASE CardReceives \/ NoStream
      BY <3>3 DEF CardReceives, NoStream
    <3> QED BY <1>3, <3>1, <3>2, <3>3 DEF Hardware
  <2>4. card' \in Card
    BY <1>3 DEF Hardware, CardSends, StreamEmptiesFifo, StreamFillsFifo, CardReceives,
                CardIsReady, NoStream, ScrArrives, SdTypeOK, Card
  <2>5. handle' \in Handle
    BY <1>3 DEF Hardware, CardSends, StreamEmptiesFifo, StreamFillsFifo, CardReceives,
                CardIsReady, NoStream, ScrArrives, SdTypeOK, Handle, Scr
  <2>6. /\ UNCHANGED <<main, isr, hsd, target>>
        /\ ended' \in BOOLEAN /\ moved' \in BOOLEAN
    BY <1>3 DEF Hardware, CardSends, StreamEmptiesFifo, StreamFillsFifo, CardReceives,
                CardIsReady, NoStream, ScrArrives, SdTypeOK, Asked, Dir
  <2> QED BY <2>2, <2>3, <2>4, <2>5, <2>6 DEF SdTypeOK
<1>4. CASE DataError
  <2>1. sdio' \in Sdio
    BY <1>4 DEF DataError, SdTypeOK, Sdio
  <2>2. UNCHANGED <<main, isr, handle, hsd, card, dma, data>>
    BY <1>4 DEF DataError
  <2> QED BY <2>1, <2>2 DEF SdTypeOK
<1>5. CASE CardFails
  <2>1. card' \in Card
    BY <1>5 DEF CardFails, SdTypeOK, Card
  <2>2. UNCHANGED <<main, isr, handle, hsd, sdio, dma, data>>
    BY <1>5 DEF CardFails
  <2> QED BY <2>1, <2>2 DEF SdTypeOK
<1>6. ASSUME NEW k \in Kinds, Swap(k) PROVE SdTypeOK'
  <2>1. card' \in Card
    BY <1>6 DEF Swap, SdTypeOK, Card, Modes
  <2>2. handle' \in Handle
    BY <1>6 DEF Swap, SdTypeOK, Handle
  <2>3. UNCHANGED <<main, isr, hsd, sdio, dma, data>>
    BY <1>6 DEF Swap
  <2> QED BY <2>1, <2>2, <2>3 DEF SdTypeOK
<1>7. ASSUME NEW d \in Dir, DmaIRQ(d) PROVE SdTypeOK'
  <2>1. dma' \in [Dir -> Stream]
    BY <1>7, <1>0 DEF DmaIRQ, SdTypeOK
  <2>2. dmaCplt' \in BOOLEAN /\ isr' \in {isr, d}
    BY <1>7 DEF DmaIRQ, SdTypeOK
  <2>3. UNCHANGED <<main, handle, sdCplt, sdErr, sdio, card, data>>
    BY <1>7 DEF DmaIRQ
  <2> QED BY <2>1, <2>2, <2>3 DEF SdTypeOK
<1>8. ASSUME NEW d \in Dir, StreamError(d) PROVE SdTypeOK'
  <2>1. dma' \in [Dir -> Stream]
    BY <1>8, <1>0 DEF StreamError, SdTypeOK
  <2>2. UNCHANGED <<main, isr, handle, hsd, sdio, card, data>>
    BY <1>8 DEF StreamError
  <2> QED BY <2>1, <2>2 DEF SdTypeOK
<1> QED BY <1>1, <1>2, <1>3, <1>4, <1>5, <1>6, <1>7, <1>8, Zenon

\* The types hold of every state the driver, the card and the streams can reach.
THEOREM SdTypesHold == Spec => []SdTypeOK
<1>1. Init => SdTypeOK
  BY InitSdType
<1>2. SdTypeOK /\ [Next]_vars => SdTypeOK'
  <2> SUFFICES ASSUME SdTypeOK, [Next]_vars PROVE SdTypeOK'
    OBVIOUS
  <2>1. CASE Next
    BY <2>1, TransferType, InitialiseType, OtherType DEF Next, Transfer
  <2>2. CASE UNCHANGED vars
    BY <2>2 DEF vars, main, hsd, data, SdTypeOK
  <2> QED BY <2>1, <2>2
<1> QED BY <1>1, <1>2, PTL DEF Spec

-----------------------------------------------------------------------------
(* The data path and its flags.                                             *)

\* The steps before the card has been asked for data, and those after.
Early == {"enableIT", "startDma", "blockLen", "command"}
Late  == Labels \ (Early \cup {"idle"})

\* The data path of the transfer waits to be started.
BeforePath == \/ pc \in {"startDma", "blockLen", "command", "dataConfig"}
              \/ dir = "write" /\ pc = "response"

Silent == ~sdio.act /\ ~sdio.end /\ ~sdio.err

\* Which steps have a card that is ready.
ReadyInv == /\ pc \in InitLabels => ~handle.ready
            /\ pc \in Early \cup Late => handle.ready

\* SCR is read in one step of BSP_SD_Init, after which the data path is at rest.
ScrInv == /\ handle.scr # "none" => pc = "SCR" /\ ~sdio.act
          /\ pc = "ACMD6" => ~sdio.act

\* With a card that is ready, the data path works, has ended or has failed, and in
\* each case the SDIO handler will hear of it; so nothing of a transfer before is left
\* when the next one enables its interrupts.
FlagInv ==
  /\ handle.ready => /\ ~(sdio.act /\ (sdio.end \/ sdio.err)) /\ ~(sdio.end /\ sdio.err)
                     /\ (sdio.act \/ sdio.end \/ sdio.err => sdio.ie)
  /\ pc = "enableIT" => Silent
  /\ BeforePath => Silent /\ sdio.ie

\* The end of the data is that of this transfer.
EndInv == /\ pc \in Early => ~sdCplt
          /\ pc \in Late /\ (sdCplt \/ sdio.end) => ended

PathInv == SdTypeOK /\ ReadyInv /\ ScrInv /\ FlagInv /\ EndInv

\* What main() does in a transfer keeps PathInv.
LEMMA TransferPath ==
  ASSUME PathInv,
         \/ \E d \in Dir, m \in BOOLEAN : Begin(d, m)
         \/ EnableIT \/ StartDma \/ BlockLen \/ Command \/ Response \/ DataConfig
         \/ SetErr \/ WaitEnd \/ WaitIdle \/ Stop \/ Clear \/ Programming \/ GetStatus
  PROVE  PathInv'
<1>0. SdTypeOK /\ SdTypeOK' /\ sdio \in Sdio /\ dir \in Dir
  BY TransferType DEF PathInv, SdTypeOK
<1> USE <1>0 DEF Goto, Return, ClearFlags, hsd, main, data, Labels, InitLabels, Early, Late, MainAt,
            PathInv, ReadyInv, ScrInv, FlagInv, EndInv, BeforePath, Silent, Sdio
<1>1. CASE \E d \in Dir, m \in BOOLEAN : Begin(d, m)
  BY <1>1 DEF Begin, SdioPending
<1>2. CASE EnableIT
  BY <1>2 DEF EnableIT
<1>3. CASE StartDma
  BY <1>3 DEF StartDma
<1>4. CASE BlockLen
  BY <1>4 DEF BlockLen
<1>5. CASE Command
  BY <1>5 DEF Command
<1>6. CASE Response
  BY <1>6 DEF Response, Dir
<1>7. CASE DataConfig
  BY <1>7 DEF DataConfig
<1>8. CASE SetErr
  BY <1>8 DEF SetErr
<1>9. CASE WaitEnd
  BY <1>9 DEF WaitEnd
<1>10. CASE WaitIdle
  BY <1>10 DEF WaitIdle
<1>11. CASE Stop
  BY <1>11 DEF Stop
<1>12. CASE Clear
  BY <1>12 DEF Clear
<1>13. CASE Programming
  BY <1>13 DEF Programming
<1>14. CASE GetStatus
  BY <1>14 DEF GetStatus
<1> QED BY <1>1, <1>2, <1>3, <1>4, <1>5, <1>6, <1>7, <1>8, <1>9, <1>10, <1>11, <1>12,
           <1>13, <1>14

\* Neither BSP_SD_Init nor what a card does to it breaks PathInv.
LEMMA InitialisePath ==
  ASSUME PathInv, BspInit \/ Initialise
  PROVE  PathInv'
<1>0. SdTypeOK /\ SdTypeOK' /\ sdio \in Sdio /\ handle \in Handle
  BY InitialiseType DEF PathInv, SdTypeOK
<1> USE <1>0 DEF Goto, InitFails, ClearFlags, hsd, main, data, Labels, InitLabels, Early, Late,
            MainAt, PathInv, ReadyInv, ScrInv, FlagInv, EndInv, BeforePath, Silent, Sdio
<1>1. CASE BspInit
  BY <1>1 DEF BspInit, FreshHandle
<1>2. CASE Cmd0
  BY <1>2 DEF Cmd0
<1>3. CASE Cmd8
  BY <1>3 DEF Cmd8, Handle
<1>4. CASE Acmd41
  BY <1>4 DEF Acmd41, Handle
<1>5. ASSUME NEW cmd \in InitLabels \ {"SCR"}, NEW next \in InitLabels \ {"ACMD6"},
             InitCommand(cmd, next)
      PROVE  PathInv'
  BY <1>5 DEF InitCommand, InitFailsAt
<1>6. CASE Identify
  BY <1>5, <1>6 DEF Identify
<1>7. CASE Acmd51
  BY <1>7 DEF Acmd51, InitFailsAt
<1>8. CASE ScrEnds
  BY <1>8 DEF ScrEnds, Handle
<1>9. CASE Acmd6
  BY <1>9 DEF Acmd6, InitFailsAt, Handle
<1> QED BY <1>1, <1>2, <1>3, <1>4, <1>6, <1>7, <1>8, <1>9 DEF Initialise

\* Nor the handlers and the hardware.
LEMMA OtherPath ==
  ASSUME PathInv,
         \/ SdioIRQ \/ SpinEnds \/ Hardware \/ DataError \/ CardFails
         \/ \E k \in Kinds : Swap(k)
         \/ \E d \in Dir : DmaIRQ(d) \/ StreamError(d)
  PROVE  PathInv'
<1>0. SdTypeOK /\ SdTypeOK' /\ sdio \in Sdio /\ handle \in Handle
  BY OtherType DEF PathInv, SdTypeOK
<1> USE <1>0 DEF hsd, main, data, Labels, InitLabels, Early, Late,
            PathInv, ReadyInv, ScrInv, FlagInv, EndInv, BeforePath, Silent, Sdio
<1>1. CASE SdioIRQ
  BY <1>1 DEF SdioIRQ, SdioPending, SdTypeOK
<1>2. CASE SpinEnds \/ CardFails
  BY <1>2 DEF SpinEnds, CardFails
<1>3. CASE CardSends
  BY <1>3 DEF CardSends, Asked
<1>4. CASE StreamEmptiesFifo \/ StreamFillsFifo
  BY <1>4 DEF StreamEmptiesFifo, StreamFillsFifo
<1>5. CASE CardReceives
  BY <1>5 DEF CardReceives, Asked
<1>6. CASE CardIsReady
  BY <1>6 DEF CardIsReady
<1>7. CASE NoStream \/ DataError
  <2>1. /\ sdio.act /\ ~sdio'.act /\ sdio'.err /\ sdio'.end = sdio.end /\ sdio'.ie = sdio.ie
        /\ UNCHANGED <<pc, dir, handle, sdCplt, ended>>
    BY <1>7 DEF NoStream, DataError
  <2> QED BY <2>1
<1>8. CASE ScrArrives
  BY <1>8 DEF ScrArrives, Handle
<1>9. ASSUME NEW k \in Kinds, Swap(k) PROVE PathInv'
  BY <1>9 DEF Swap, Handle
<1>10. ASSUME NEW d \in Dir, DmaIRQ(d) \/ StreamError(d) PROVE PathInv'
  <2>1. UNCHANGED <<pc, dir, handle, sdio, sdCplt, ended>>
    BY <1>10 DEF DmaIRQ, StreamError
  <2> QED BY <2>1
<1> QED BY <1>1, <1>2, <1>3, <1>4, <1>5, <1>6, <1>7, <1>8, <1>9, <1>10 DEF Hardware

\* The invariant of the data path, for every set of conditions.
LEMMA PathInvariant == Spec => []PathInv
<1>1. Init => PathInv
  <2> SUFFICES ASSUME Init PROVE PathInv
    OBVIOUS
  <2>1. pc = "idle" /\ ~handle.ready /\ handle.scr = "none"
    BY DEF Init, FreshHandle
  <2> QED BY <2>1, InitSdType DEF PathInv, ReadyInv, ScrInv, FlagInv, EndInv, BeforePath,
                                  InitLabels, Early, Late, Labels
<1>2. PathInv /\ [Next]_vars => PathInv'
  <2> SUFFICES ASSUME PathInv, [Next]_vars PROVE PathInv'
    OBVIOUS
  <2>1. CASE Next
    BY <2>1, TransferPath, InitialisePath, OtherPath DEF Next, Transfer
  <2>2. CASE UNCHANGED vars
    BY <2>2 DEF vars, main, hsd, data, PathInv, SdTypeOK, ReadyInv, ScrInv, FlagInv, EndInv,
                BeforePath, Silent, Early, Late, Labels, InitLabels
  <2> QED BY <2>1, <2>2
<1> QED BY <1>1, <1>2, PTL DEF Spec

\* A completion that ends a transfer is one of its own data, whatever failed before it:
\* the flags of SDIO that outlive a transfer are gone when the next one looks.
THEOREM CompletionsAreMine == Spec => []CompletionIsMine
<1>1. PathInv => CompletionIsMine
  BY DEF PathInv, EndInv, CompletionIsMine, Early, Late, Labels
<1> QED BY <1>1, PathInvariant, PTL

-----------------------------------------------------------------------------
(* The callback that waits.                                                 *)

\* A stream's completion is told while its callback still waits for the card, or
\* after the card is done.
SpinInv == dmaCplt => sdCplt \/ isr # "none"

\* The steps of main() never change the completions but where a transfer begins.
LEMMA MainKeepsFlags ==
  ASSUME Transfer \/ BspInit \/ GetStatus
  PROVE  UNCHANGED <<isr, sdCplt, dmaCplt>>
<1> USE DEF hsd, main, data
<1>1. CASE EnableIT \/ StartDma \/ BlockLen \/ Command \/ Response \/ DataConfig \/ SetErr
  BY <1>1 DEF EnableIT, StartDma, BlockLen, Command, Response, DataConfig, SetErr
<1>2. CASE WaitEnd \/ WaitIdle \/ Stop \/ Clear \/ Programming \/ GetStatus
  BY <1>2 DEF WaitEnd, WaitIdle, Stop, Clear, Programming, GetStatus
<1>3. CASE BspInit \/ Initialise
  BY <1>3 DEF BspInit, Initialise, Cmd0, Cmd8, Acmd41, Identify, InitCommand, Acmd51, ScrEnds,
              Acmd6
<1> QED BY <1>1, <1>2, <1>3 DEF Transfer

\* Nor do the card and the hardware.
LEMMA HardwareKeepsFlags ==
  ASSUME \/ Hardware \/ DataError \/ CardFails
         \/ \E k \in Kinds : Swap(k)
         \/ \E d \in Dir : StreamError(d)
  PROVE  UNCHANGED <<isr, sdCplt, dmaCplt>>
BY DEF hsd, main, data, Hardware, CardSends, StreamEmptiesFifo, StreamFillsFifo, CardReceives,
       CardIsReady, NoStream, ScrArrives, DataError, CardFails, Swap, StreamError

\* main() never sees the end of a stream before the end of the data: the callback of
\* the stream does not return before, so that CheckReadOperation may stop at the first
\* of the flags.
THEOREM StreamEndsLast == Spec => []DmaEndsAfterCard
<1>1. Init => SpinInv
  BY DEF Init, SpinInv
<1>2. SpinInv /\ [Next]_vars => SpinInv'
  <2> SUFFICES ASSUME SpinInv, [Next]_vars PROVE SpinInv'
    OBVIOUS
  <2>1. CASE UNCHANGED <<isr, sdCplt, dmaCplt>>
    BY <2>1 DEF SpinInv
  <2>2. ASSUME NEW d \in Dir, NEW m \in BOOLEAN, Begin(d, m) PROVE SpinInv'
    BY <2>2 DEF Begin, SpinInv
  <2>3. CASE SdioIRQ
    BY <2>3 DEF SdioIRQ, SpinInv
  <2>4. CASE SpinEnds
    BY <2>4 DEF SpinEnds, SpinInv, hsd
  <2>5. ASSUME NEW d \in Dir, DmaIRQ(d) PROVE SpinInv'
    BY <2>5 DEF DmaIRQ, SpinInv, Dir
  <2> QED BY <2>1, <2>2, <2>3, <2>4, <2>5, MainKeepsFlags, HardwareKeepsFlags
          DEF Next, vars, hsd
<1>3. SpinInv => DmaEndsAfterCard
  BY DEF SpinInv, DmaEndsAfterCard
<1> QED BY <1>1, <1>2, <1>3, PTL DEF Spec

-----------------------------------------------------------------------------
(* The type of the card.                                                    *)

\* The steps of BSP_SD_Init after ACMD41 has told the type.
Known == InitLabels \ {"CMD0", "CMD8", "ACMD41"}

Fits == /\ (card.kind = "HC" => handle.type = "HC")
        /\ (Good /\ card.kind = "V2" => handle.type = "V2")

\* A card that does not fail is idle after CMD0, so that CMD8 sets its type, which
\* ACMD41 changes only for a high-capacity one.
AddressInv ==
  /\ pc \in Known \/ handle.ready => Fits
  /\ Good /\ pc = "CMD8" => card.mode = "idle"
  /\ Good /\ pc = "ACMD41" /\ card.kind = "V2" => handle.type = "V2"

\* A transfer changes neither the card's type nor the handle's.
LEMMA TransferAddress ==
  ASSUME PathInv, AddressInv,
         \/ \E d \in Dir, m \in BOOLEAN : Begin(d, m)
         \/ EnableIT \/ StartDma \/ BlockLen \/ Command \/ Response \/ DataConfig
         \/ SetErr \/ WaitEnd \/ WaitIdle \/ Stop \/ Clear \/ Programming \/ GetStatus
  PROVE  AddressInv'
<1>1. UNCHANGED <<card, handle>>
  BY DEF Begin, EnableIT, StartDma, BlockLen, Command, Response, DataConfig, SetErr,
         WaitEnd, WaitIdle, Stop, Clear, Programming, GetStatus
<1>2. pc' \notin InitLabels \/ pc' = pc
  BY DEF Begin, EnableIT, StartDma, BlockLen, Command, Response, DataConfig, SetErr,
         WaitEnd, WaitIdle, Stop, Clear, Programming, GetStatus, Goto, Return, main, InitLabels
<1> QED BY <1>1, <1>2 DEF AddressInv, Fits, Good, Known, InitLabels

\* BSP_SD_Init keeps the invariant.
LEMMA InitialiseAddress ==
  ASSUME PathInv, AddressInv, BspInit \/ Initialise
  PROVE  AddressInv'
<1>0. card \in Card /\ handle \in Handle /\ (pc \in InitLabels => ~handle.ready)
  BY DEF PathInv, SdTypeOK, ReadyInv
<1> USE <1>0 DEF Goto, InitFails, InitLabels, Known, MainAt, AddressInv, Fits, Good, Card
<1>1. CASE BspInit
  BY <1>1 DEF BspInit, FreshHandle
<1>2. CASE Cmd0
  BY <1>2 DEF Cmd0
<1>3. CASE Cmd8
  BY <1>3 DEF Cmd8, Handle, Hears, Kinds
<1>4. CASE Acmd41
  BY <1>4 DEF Acmd41, Handle, TypeOf, BecomesReady
<1>5. ASSUME NEW cmd \in Known, InitCommand(cmd, "CMD3") \/ InitCommand(cmd, "CMD9")
                                  \/ InitCommand(cmd, "CMD7") \/ InitCommand(cmd, "CMD16")
                                  \/ InitCommand(cmd, "ACMD51")
      PROVE  AddressInv'
  BY <1>5 DEF InitCommand, InitFailsAt, Does
<1>6. CASE Identify
  BY <1>5, <1>6 DEF Identify
<1>7. CASE Acmd51
  BY <1>7 DEF Acmd51, InitFailsAt, Does
<1>8. CASE ScrEnds
  BY <1>8 DEF ScrEnds, Handle
<1>9. CASE Acmd6
  BY <1>9 DEF Acmd6, InitFailsAt, Does, Handle
<1> QED BY <1>1, <1>2, <1>3, <1>4, <1>6, <1>7, <1>8, <1>9 DEF Initialise

\* So do the handlers and the hardware, and a card that is taken out.
LEMMA OtherAddress ==
  ASSUME PathInv, AddressInv,
         \/ SdioIRQ \/ SpinEnds \/ Hardware \/ DataError \/ CardFails
         \/ \E k \in Kinds : Swap(k)
         \/ \E d \in Dir : DmaIRQ(d) \/ StreamError(d)
  PROVE  AddressInv'
<1>0. card \in Card /\ handle \in Handle
  BY DEF PathInv, SdTypeOK
<1> USE DEF AddressInv, Fits, Good
<1>1. CASE \E k \in Kinds : Swap(k)
  BY <1>0, <1>1 DEF Swap, Card, Handle, Known, InitLabels, main
<1>2. CASE \/ SdioIRQ \/ SpinEnds \/ Hardware \/ DataError \/ CardFails
           \/ \E d \in Dir : DmaIRQ(d) \/ StreamError(d)
  <2>1. UNCHANGED <<pc, card.kind, card.mode, card.faulty, card.lag, handle.type, handle.ready>>
    BY <1>0, <1>2 DEF SdioIRQ, SpinEnds, Hardware, CardSends, StreamEmptiesFifo,
         StreamFillsFifo, CardReceives, CardIsReady, NoStream, ScrArrives, DataError, CardFails,
         DmaIRQ, StreamError, Card, Handle, main
  <2> QED BY <2>1
<1> QED BY <1>1, <1>2

\* Once BSP_SD_Init has succeeded the card is addressed in its own unit.
THEOREM CardIsAddressed == Spec => []AddressFits
<1>1. Init => AddressInv
  <2> SUFFICES ASSUME Init PROVE AddressInv
    OBVIOUS
  <2>1. pc = "idle" /\ ~handle.ready
    BY DEF Init, FreshHandle
  <2> QED BY <2>1 DEF AddressInv, Known, InitLabels
<1>2. PathInv /\ AddressInv /\ [Next]_vars => AddressInv'
  <2> SUFFICES ASSUME PathInv, AddressInv, [Next]_vars PROVE AddressInv'
    OBVIOUS
  <2>1. CASE Next
    BY <2>1, TransferAddress, InitialiseAddress, OtherAddress DEF Next, Transfer
  <2>2. CASE UNCHANGED vars
    BY <2>2 DEF vars, main, AddressInv, Fits, Good, Known, InitLabels
  <2> QED BY <2>1, <2>2
<1>3. AddressInv => AddressFits
  BY DEF AddressInv, Fits, AddressFits
<1> QED BY <1>1, <1>2, <1>3, PathInvariant, PTL DEF Spec

-----------------------------------------------------------------------------
(* A card that works moves the data.                                        *)

\* The states of a stream in a transfer without an error: at rest, moving data, and at
\* the end of its data, before its handler.
Clean(s)   == ~s.lock /\ ~s.en /\ s.flags = {}
Running(s) == s.en /\ s.ie = Flags /\ s.flags = {}
Finished(s) == ~s.en /\ s.ie = Flags /\ s.flags = {"TC"}

\* A stream at rest can be initialised, started and aborted, and says nothing.
LEMMA CleanFacts ==
  ASSUME NEW s \in Stream, Clean(s)
  PROVE  /\ Clean(HalInit(DeInit(s))) /\ Clean(Abort(s)) /\ Running(StartIT(s))
         /\ ~s.lock /\ ~s.en /\ ~Pending(s)
<1>1. Clean(HalInit(DeInit(s))) /\ Clean(Abort(s))
  BY DEF Clean, HalInit, DeInit, Abort, Disable, Stream
<1>2. Claim(s) \in Stream /\ ~Claim(s).en /\ Claim(s).flags = {}
  BY DEF Clean, Claim, Stream, DmaState
<1>3. Program(Claim(s)) \in Stream /\ Program(Claim(s)).flags = {}
      /\ Program(Claim(s)).ie = Flags
  BY <1>2 DEF Program, Disable, Stream
<1>4. Running(StartIT(s))
  BY <1>3 DEF StartIT, Enable, Running, Clean, Stream
<1> QED BY <1>1, <1>4 DEF Clean, Pending

\* A stream that ends raises TC; its handler calls SD_DMA_RxCplt or SD_DMA_TxCplt and
\* leaves it at rest.
LEMMA FinishedFacts ==
  ASSUME NEW s \in Stream
  PROVE  /\ Running(s) => Finished([s EXCEPT !.en = FALSE, !.flags = @ \cup {"TC"}])
         /\ Finished(s) => /\ Pending(s) /\ "cplt" \in Callbacks(s)
                           /\ Clean(IRQHandler(s, FALSE))
<1>1. ASSUME Finished(s)
      PROVE  /\ HandleErrors(s) = s /\ HandleHalf(s, FALSE) = s
             /\ Clean(HandleComplete(s, FALSE))
             /\ Pending(s) /\ "cplt" \in Callbacks(s)
  <2>1. Raised(s) = {"TC"}
    BY <1>1 DEF Finished, Raised, Flags
  <2>2. HandleErrors(s) = s /\ HandleHalf(s, FALSE) = s
    BY <2>1 DEF HandleErrors, HandleHalf, ErrFlags
  <2>3. Clean(HandleComplete(s, FALSE))
    BY <1>1, <2>1 DEF HandleComplete, Finished, Clean, Stream
  <2> QED BY <2>1, <2>2, <2>3 DEF Pending, Raised, Callbacks
<1>2. Running(s) => Finished([s EXCEPT !.en = FALSE, !.flags = @ \cup {"TC"}])
  BY DEF Running, Finished, Stream
<1> QED BY <1>1, <1>2 DEF IRQHandler

\* The steps at which no stream has been started, those after it was but before the data
\* path, those at which the data moves, and those after main() has seen the end.
Rest    == {"idle", "enableIT", "startDma"} \cup InitLabels
Started == \/ pc \in {"blockLen", "command", "dataConfig"}
           \/ dir = "write" /\ pc = "response"
Moving  == \/ pc \in {"setErr", "waitEnd"}
           \/ dir = "read" /\ pc = "response"
Moved   == {"waitIdle", "stop", "clear", "programming"}

Mine == dma[dir]

\* The stream is started and nothing is over.
Fresh == /\ Running(Mine) /\ target[dir] /\ sdio.dma /\ ~sdio.fifo
         /\ isr = "none" /\ ~sdCplt /\ ~dmaCplt

\* The stream is done, and its handler has not run or waits for the card.
StreamDoneFirst == \/ Finished(Mine) /\ isr = "none" /\ ~dmaCplt
                   \/ Clean(Mine) /\ isr = dir /\ dmaCplt

\* The data path works, with the stream or, for a write, after it; or it is done, and the
\* SDIO handler has not run or has.
Progress ==
  \/ sdio.act /\ Fresh
  \/ dir = "write" /\ sdio.act /\ sdio.fifo /\ moved /\ StreamDoneFirst /\ ~sdCplt
  \/ /\ ~sdio.act /\ moved /\ (sdio.end <=> ~sdCplt)
     /\ StreamDoneFirst \/ (Clean(Mine) /\ isr = "none")

Moves ==
  /\ \A d \in Dir : d # dir => Clean(dma[d])
  /\ isr \in {"none", dir} /\ ~failed /\ ~sdErr /\ ~sdio.err
  /\ pc \in Rest => Clean(Mine) /\ isr = "none" /\ (result = "ok" => moved)
  /\ pc \in Early => ~sdio.fifo /\ ~sdCplt /\ ~dmaCplt
  /\ pc \in Labels \ {"idle"} => result = "none"
  /\ handle.ready /\ pc = "idle" => ~sdio.act
  /\ Started => Fresh
  /\ Moving => Progress
  /\ pc \in Moved => ~sdio.act /\ moved /\ Clean(Mine) /\ isr = "none"

MoveInv == Good => Moves

\* A card keeps the conditions it works under.
LEMMA GoodStays == ASSUME SdTypeOK, [Next]_vars PROVE Good' = Good
<1>1. ASSUME NEW cmd, NEW next, InitCommand(cmd, next)
      PROVE  UNCHANGED <<card.faulty, card.lag>>
  BY <1>1 DEF InitCommand, InitFailsAt, Does, SdTypeOK, Card
<1>2. UNCHANGED <<card.faulty, card.lag>>
  <2> USE DEF SdTypeOK, Card
  <2>1. CASE UNCHANGED card
    BY <2>1
  <2>2. CASE BspInit \/ Initialise
    BY <1>1, <2>2 DEF BspInit, Initialise, Cmd0, Cmd8, Acmd41, Identify, Acmd51, ScrEnds, Acmd6,
                      InitFailsAt, Does
  <2>3. CASE Hardware \/ CardFails \/ \E k \in Kinds : Swap(k)
    BY <2>3 DEF Hardware, CardSends, StreamEmptiesFifo, StreamFillsFifo, CardReceives,
                CardIsReady, NoStream, ScrArrives, CardFails, Swap
  <2>4. \/ UNCHANGED card \/ BspInit \/ Initialise \/ Hardware \/ CardFails
        \/ \E k \in Kinds : Swap(k)
    BY DEF Next, Transfer, Begin, EnableIT, StartDma, BlockLen, Command, Response, DataConfig,
           SetErr, WaitEnd, WaitIdle, Stop, Clear, Programming, GetStatus, SdioIRQ, SpinEnds,
           DmaIRQ, StreamError, DataError, vars
  <2> QED BY <2>1, <2>2, <2>3, <2>4
<1> QED BY <1>2 DEF Good

\* What the steps of a transfer find in a state of a card that works.
LEMMA MoveContext ==
  ASSUME PathInv, Moves
  PROVE  /\ dir \in Dir /\ sdio \in Sdio /\ dma \in [Dir -> Stream]
         /\ \A d \in Dir : dma[d] \in Stream
         /\ \A d \in Dir : Finished(dma[d]) => d = dir
         /\ \A d \in Dir : Pending(dma[d]) => d = dir
         /\ \A d \in Dir : Clean(dma[d]) => ~dma[d].en /\ ~dma[d].lock
         /\ handle.ready /\ sdio.end => sdio.ie
<1>1. /\ dir \in Dir /\ sdio \in Sdio /\ dma \in [Dir -> Stream]
      /\ handle.ready /\ sdio.end => sdio.ie
  BY DEF PathInv, SdTypeOK, FlagInv
<1>2. \A d \in Dir : Clean(dma[d]) => /\ ~Pending(dma[d]) /\ ~dma[d].en /\ ~dma[d].lock
                                      /\ ~Finished(dma[d])
  BY DEF Clean, Pending, Finished
<1> QED BY <1>1, <1>2 DEF Moves

\* What main() does in a transfer keeps Moves.
LEMMA TransferMoves ==
  ASSUME PathInv, Moves, Good,
         \/ \E d \in Dir, m \in BOOLEAN : Begin(d, m)
         \/ EnableIT \/ StartDma \/ BlockLen \/ Command \/ Response \/ DataConfig
         \/ SetErr \/ WaitEnd \/ WaitIdle \/ Stop \/ Clear \/ Programming \/ GetStatus
  PROVE  Moves'
<1>0. /\ dir \in Dir /\ sdio \in Sdio /\ ~card.faulty
      /\ \A d \in Dir : Finished(dma[d]) => Pending(dma[d])
      /\ \A d \in Dir : dma[d] \in Stream
  BY MoveContext, FinishedFacts DEF Good
<1> USE <1>0 DEF Goto, Return, ClearFlags, hsd, main, data, Labels, InitLabels, MainAt, DmaPending,
            Moves, Rest, Started, Moving, Moved, Early, Fresh, Progress, StreamDoneFirst, Mine, Sdio
<1>1. CASE \E d \in Dir, m \in BOOLEAN : Begin(d, m)
  BY <1>1 DEF Begin
<1>2. CASE EnableIT
  BY <1>2 DEF EnableIT
<1>3. CASE StartDma
  <2>1. Running(StartIT(dma[dir])) /\ ~dma[dir].lock
    BY <1>3, CleanFacts DEF StartDma
  <2> QED BY <1>3, <2>1, MoveContext DEF StartDma, PathInv, SdTypeOK
<1>4. CASE BlockLen
  <2>1. /\ pc = "blockLen" /\ pc' = "command" /\ sdio' = [sdio EXCEPT !.end = FALSE, !.err = FALSE]
        /\ UNCHANGED <<dir, failed, result, isr, sdCplt, dmaCplt, sdErr, handle, dma, target,
                       moved>>
    BY <1>4 DEF BlockLen
  <2> QED BY <2>1
<1>5. CASE Command
  BY <1>5 DEF Command, Dir
<1>6. CASE Response
  <2>1. /\ pc = "response" /\ isr = "none" /\ ~SdioPending /\ ~DmaPending
        /\ pc' = IF dir = "read" THEN "setErr" ELSE "dataConfig"
        /\ sdio' = [sdio EXCEPT !.end = FALSE, !.err = FALSE]
        /\ UNCHANGED <<dir, failed, result, isr, sdCplt, dmaCplt, sdErr, handle, dma, target,
                       moved>>
    BY <1>6 DEF Response
  <2>2. CASE dir = "write"
    BY <2>1, <2>2
  <2>3. CASE dir = "read"
    <3>1. ~sdio.end
      BY <2>1, MoveContext DEF SdioPending, PathInv, ReadyInv, Late
    <3> QED BY <2>1, <2>3, <3>1
  <2> QED BY <2>2, <2>3 DEF Dir
<1>7. CASE DataConfig
  BY <1>7 DEF DataConfig
<1>8. CASE SetErr
  BY <1>8 DEF SetErr
<1>9. CASE WaitEnd
  BY <1>9, MoveContext DEF WaitEnd, SdioPending, PathInv, ReadyInv, Late
<1>10. CASE WaitIdle
  BY <1>10 DEF WaitIdle
<1>11. CASE Stop
  <2>1. /\ pc = "stop" /\ pc' = "clear" /\ sdio' = [sdio EXCEPT !.end = FALSE, !.err = FALSE]
        /\ UNCHANGED <<dir, failed, result, isr, sdCplt, dmaCplt, sdErr, handle, dma, target,
                       moved>>
    BY <1>11 DEF Stop
  <2> QED BY <2>1
<1>12. CASE Clear
  BY <1>12 DEF Clear
<1>13. CASE Programming
  BY <1>13 DEF Programming
<1>14. CASE GetStatus
  BY <1>14 DEF GetStatus
<1> QED BY <1>1, <1>2, <1>3, <1>4, <1>5, <1>6, <1>7, <1>8, <1>9, <1>10, <1>11, <1>12,
           <1>13, <1>14

\* BSP_SD_Init finds both streams at rest and leaves them there.
LEMMA InitialiseMoves ==
  ASSUME PathInv, Moves, Good, BspInit \/ Initialise
  PROVE  Moves'
<1>0. /\ sdio \in Sdio /\ handle \in Handle /\ ~sdio.err /\ ~card.faulty
      /\ pc \in InitLabels => ~handle.ready
      /\ pc = "ACMD6" => ~sdio.act
  BY DEF PathInv, SdTypeOK, ReadyInv, ScrInv, Moves, Good
<1>1. /\ UNCHANGED <<dir, failed, result, isr, sdCplt, dmaCplt, sdErr, target, moved>>
      /\ pc \in Rest /\ pc' \in InitLabels \cup {"idle"}
  BY DEF BspInit, Initialise, Cmd0, Cmd8, Acmd41, Identify, InitCommand, InitFailsAt, InitFails,
         Acmd51, ScrEnds, Acmd6, Goto, MainAt, hsd, data, Rest, InitLabels
<1>2. CASE BspInit
  <2>1. \A d \in Dir : Clean(dma'[d])
    BY <1>2, CleanFacts DEF BspInit, PathInv, SdTypeOK, Moves, MainAt, Rest, Mine
  <2> QED BY <1>0, <1>1, <1>2, <2>1 DEF BspInit, Goto, FreshHandle, Moves, Rest, Started, Moving,
                                      Moved,
                                      Early, InitLabels, Labels, Mine, PathInv, SdTypeOK
<1>3. CASE Initialise
  <2>1. UNCHANGED dma /\ pc \in InitLabels
    BY <1>3 DEF Initialise, Cmd0, Cmd8, Acmd41, Identify, InitCommand, Acmd51, ScrEnds, Acmd6,
                MainAt, InitLabels
  <2>2. ~sdio'.err
    BY <1>0, <1>3 DEF Initialise, Cmd0, Cmd8, Acmd41, Identify, InitCommand, Acmd51, ScrEnds,
                      Acmd6, ClearFlags, Sdio
  <2>3. handle'.ready => ~sdio'.act
    BY <1>0, <1>3, <2>1 DEF Initialise, Cmd0, Cmd8, Acmd41, Identify, InitCommand, InitFailsAt,
                      InitFails, Acmd51, ScrEnds, Acmd6, ClearFlags, MainAt, Sdio, Handle
  <2> QED BY <1>1, <2>1, <2>2, <2>3 DEF Moves, Rest, Started, Moving, Moved, Early, InitLabels,
                                        Labels, Mine
<1> QED BY <1>2, <1>3

\* The handlers, the streams and the card move the data on, or change nothing of it.
LEMMA OtherMoves ==
  ASSUME PathInv, Moves, Good,
         \/ SdioIRQ \/ SpinEnds \/ Hardware \/ DataError \/ CardFails
         \/ \E k \in Kinds : Swap(k)
         \/ \E d \in Dir : DmaIRQ(d) \/ StreamError(d)
  PROVE  Moves'
<1>0. /\ dir \in Dir /\ sdio \in Sdio /\ handle \in Handle /\ dma \in [Dir -> Stream]
      /\ ~card.faulty /\ ~card.lag /\ pc \in Labels \cup InitLabels
      /\ pc \in InitLabels => ~handle.ready
      /\ pc \in Early \cup Late => handle.ready
      /\ pc = "enableIT" \/ BeforePath => Silent
  BY DEF PathInv, SdTypeOK, ReadyInv, FlagInv, Good
<1>a. handle.ready /\ sdio.act => Moving /\ Progress
  BY <1>0 DEF Moves, Moving, Progress, Moved, Early, Late, Labels, BeforePath, Silent, Dir
<1>b. Moving => handle.ready
  BY <1>0 DEF Moving, Late, Early, Labels
<1> USE <1>0 DEF hsd, main, data
<1>1. CASE SdioIRQ
  <2>1. /\ sdio.end /\ sdCplt' /\ ~sdErr'
        /\ sdio' = [sdio EXCEPT !.ie = FALSE, !.end = FALSE]
        /\ UNCHANGED <<pc, dir, failed, result, isr, dmaCplt, handle, dma, target, moved>>
    BY <1>1 DEF SdioIRQ, SdioPending, Moves, Sdio
  <2>2. pc \notin Early /\ ~Started /\ (Moving => ~sdio.act)
    BY <1>0, <1>b, <2>1 DEF Started, Early, BeforePath, Silent, PathInv, FlagInv
  <2> QED BY <2>1, <2>2 DEF Moves, Rest, Started, Moving, Progress, Fresh, StreamDoneFirst, Moved,
                            Early, Mine, Sdio
<1>2. CASE SpinEnds
  <2>1. /\ isr = dir /\ sdCplt /\ isr' = "none" /\ Clean(Mine)
        /\ UNCHANGED <<pc, dir, failed, result, sdCplt, dmaCplt, sdErr, sdio, handle, target,
                       moved>>
    BY <1>2 DEF SpinEnds, Moves, Rest, Started, Moving, Progress, Fresh, StreamDoneFirst, Moved,
                Early, Labels, InitLabels, Mine, Dir
  <2>2. Clean(Mine') /\ \A d \in Dir : d # dir => dma'[d] = dma[d]
    BY <1>2, <2>1, CleanFacts DEF SpinEnds, Mine
  <2>3. Moving /\ Progress
    BY <2>1 DEF Moves, Rest, Started, Moving, Fresh, Moved, Early, Labels, Dir
  <2> QED BY <2>1, <2>2, <2>3 DEF Moves, Rest, Started, Moving, Progress, Fresh, StreamDoneFirst,
                                  Moved, Early, Mine, Dir, InitLabels
<1>3. ASSUME NEW d \in Dir, DmaIRQ(d) PROVE Moves'
  <2>1. isr = "none" /\ Pending(dma[d]) /\ ~Clean(dma[d])
    BY <1>3 DEF DmaIRQ, Clean, Pending
  <2>2. d = dir /\ Moving /\ Progress /\ Finished(Mine) /\ ~dmaCplt
    <3>1. d = dir /\ ~Clean(Mine) /\ ~Running(Mine)
      BY <2>1 DEF Moves, Mine, Running, Pending
    <3>2. Moving /\ Progress
      BY <3>1 DEF Moves, Rest, Started, Moving, Fresh, Moved, Labels, Dir
    <3> QED BY <3>1, <3>2 DEF Progress, Fresh, StreamDoneFirst
  <2>3. /\ Clean(dma'[dir]) /\ \A e \in Dir : e # dir => dma'[e] = dma[e]
        /\ dmaCplt' = TRUE /\ isr' = dir
        /\ UNCHANGED <<pc, dir, failed, result, sdCplt, sdErr, sdio, handle, target, moved>>
    BY <1>3, <2>2, FinishedFacts DEF DmaIRQ, Mine
  <2> QED BY <2>2, <2>3 DEF Moves, Rest, Started, Moving, Progress, Fresh, StreamDoneFirst,
                            Moved, Early, Labels, InitLabels, Mine, Running, Finished, Clean
<1>4. CASE CardSends
  <2>1. /\ dir = "read" /\ sdio.act /\ handle.ready /\ ~sdio.end
        /\ sdio' = [sdio EXCEPT !.act = FALSE, !.end = TRUE]
        /\ StreamDone(dir) /\ moved' = target[dir]
        /\ UNCHANGED <<pc, dir, failed, result, isr, sdCplt, dmaCplt, sdErr, handle, target>>
    BY <1>4 DEF CardSends, PathInv, FlagInv
  <2>2. Moving /\ Fresh
    BY <1>a, <2>1 DEF Progress
  <2>3. Finished(dma'[dir]) /\ \A e \in Dir : e # dir => dma'[e] = dma[e]
    BY <2>1, <2>2, FinishedFacts DEF StreamDone, Fresh, Mine
  <2> QED BY <2>1, <2>2, <2>3 DEF Moves, Rest, Started, Moving, Progress, Fresh, StreamDoneFirst,
                                  Moved, Early, Labels, InitLabels, Mine, Sdio
<1>5. CASE StreamEmptiesFifo
  <2>1. sdio.fifo /\ ~Clean(dma["read"]) /\ ~Finished(dma["read"])
    BY <1>5 DEF StreamEmptiesFifo, Serves, Clean, Finished
  <2>2. dir = "read" /\ ~Clean(Mine) /\ ~Finished(Mine)
    BY <2>1 DEF Moves, Mine, Dir
  <2>3. Moving /\ Progress
    BY <2>1, <2>2 DEF Moves, Rest, Started, Moving, Fresh, Moved, Labels
  <2> QED BY <2>1, <2>2, <2>3 DEF Progress, Fresh, StreamDoneFirst
<1>6. CASE StreamFillsFifo
  <2>1. /\ dir = "write" /\ sdio.act /\ handle.ready /\ Mine.en
        /\ sdio' = [sdio EXCEPT !.fifo = TRUE]
        /\ StreamDone(dir) /\ moved' = target[dir]
        /\ UNCHANGED <<pc, dir, failed, result, isr, sdCplt, dmaCplt, sdErr, handle, target>>
    BY <1>6 DEF StreamFillsFifo, Serves, Mine
  <2>2. Moving /\ Fresh
    BY <1>a, <2>1 DEF Progress, StreamDoneFirst, Clean, Finished
  <2>3. Finished(dma'[dir]) /\ \A e \in Dir : e # dir => dma'[e] = dma[e]
    BY <2>1, <2>2, FinishedFacts DEF StreamDone, Fresh, Mine
  <2> QED BY <2>1, <2>2, <2>3 DEF Moves, Rest, Started, Moving, Progress, Fresh, StreamDoneFirst,
                                  Moved, Early, Labels, InitLabels, Mine, Sdio
<1>7. CASE CardReceives
  <2>1. /\ sdio.act /\ sdio.fifo /\ handle.ready
        /\ sdio' = [sdio EXCEPT !.act = FALSE, !.end = TRUE, !.fifo = FALSE]
        /\ UNCHANGED <<pc, dir, failed, result, isr, sdCplt, dmaCplt, sdErr, handle, dma, target,
                       moved>>
    BY <1>7 DEF CardReceives
  <2>2. Moving /\ moved /\ StreamDoneFirst /\ ~sdCplt
    BY <1>a, <2>1 DEF Progress, Fresh
  <2> QED BY <2>1, <2>2 DEF Moves, Rest, Started, Moving, Progress, Fresh, StreamDoneFirst,
                            Moved, Early, Labels, InitLabels, Mine, Sdio
<1>8. CASE CardIsReady \/ CardFails \/ DataError \/ \E d \in Dir : StreamError(d)
  <2>1. UNCHANGED <<pc, dir, failed, result, isr, sdCplt, dmaCplt, sdErr, sdio, handle, dma,
                    target, moved>>
    BY <1>8 DEF CardIsReady, CardFails, DataError, StreamError
  <2> QED BY <2>1 DEF Moves, Rest, Started, Moving, Progress, Fresh, StreamDoneFirst, Moved,
                      Early, Mine
<1>9. CASE NoStream
  <2>1. handle.ready /\ sdio.act /\ ~sdio.fifo /\ ~Serves(dir)
    BY <1>9 DEF NoStream
  <2>2. Fresh
    BY <1>a, <2>1 DEF Progress
  <2> QED BY <2>1, <2>2 DEF Serves, Fresh, Running, Mine
<1>10. CASE ScrArrives
  <2>1. \A d \in Dir : ~Serves(d)
    BY <1>10 DEF ScrArrives, Serves, Moves, Rest, InitLabels, Clean, Mine
  <2>2. /\ pc = "SCR" /\ handle' = [handle EXCEPT !.scr = "read"]
        /\ sdio' = [sdio EXCEPT !.act = FALSE, !.end = TRUE]
        /\ UNCHANGED <<pc, dir, failed, result, isr, sdCplt, dmaCplt, sdErr, dma, target, moved>>
    BY <1>10, <2>1 DEF ScrArrives
  <2> QED BY <2>2 DEF Moves, Rest, Started, Moving, Moved, Early, Mine, Sdio
<1>11. ASSUME NEW k \in Kinds, Swap(k) PROVE Moves'
  <2>1. /\ pc = "idle" /\ ~handle'.ready
        /\ UNCHANGED <<pc, dir, failed, result, isr, sdCplt, dmaCplt, sdErr, sdio, dma, target,
                       moved>>
    BY <1>11 DEF Swap, Handle
  <2> QED BY <2>1 DEF Moves, Rest, Started, Moving, Moved, Early, Mine
<1> QED BY <1>1, <1>2, <1>3, <1>4, <1>5, <1>6, <1>7, <1>8, <1>9, <1>10, <1>11 DEF Hardware

\* With a card that works and streams that do not lag, the invariant of the data, for every
\* mix of cards.
LEMMA MoveInvariant == Spec => [](PathInv /\ MoveInv)
<1>1. Init => MoveInv
  <2> SUFFICES ASSUME Init PROVE Moves
    BY DEF MoveInv
  <2>1. pc = "idle" /\ ~handle.ready /\ ~sdio.err /\ \A d \in Dir : Clean(dma[d])
    BY DEF Init, FreshHandle, Clean, FreshStream
  <2> QED BY <2>1 DEF Init, Moves, Rest, Started, Moving, Moved, Early, Labels, Mine, Dir
<1>2. PathInv /\ MoveInv /\ [Next]_vars => MoveInv'
  <2> SUFFICES ASSUME PathInv, MoveInv, [Next]_vars, Good' PROVE Moves'
    BY DEF MoveInv
  <2>1. Good /\ Moves
    BY GoodStays DEF MoveInv, PathInv
  <2>2. CASE Next
    BY <2>1, <2>2, TransferMoves, InitialiseMoves, OtherMoves DEF Next, Transfer
  <2>3. CASE UNCHANGED vars
    BY <2>1, <2>3 DEF vars, main, hsd, data, Moves, Rest, Started, Moving, Progress, Fresh,
                      StreamDoneFirst, Moved, Early, Labels, InitLabels, Mine
  <2> QED BY <2>2, <2>3
<1> QED BY <1>1, <1>2, PathInvariant, PTL DEF Spec

\* A transfer that returns SD_OK has moved all its blocks, with a card that works and
\* streams that do not lag: main() sees the end of the data only with that of the stream.
THEOREM OkIsMoved == Spec => []OkMeansMoved
<1>1. PathInv /\ MoveInv => OkMeansMoved
  BY DEF PathInv, SdTypeOK, MoveInv, Moves, OkMeansMoved, Rest, Labels, InitLabels
<1> QED BY <1>1, MoveInvariant, PTL

\* Between two transfers both streams can be started and have nothing to say.
THEOREM StreamsEndFree == Spec => []StreamsAreFree
<1>1. PathInv /\ MoveInv => StreamsAreFree
  BY DEF MoveInv, Moves, StreamsAreFree, Rest, Mine, Clean, Pending
<1> QED BY <1>1, MoveInvariant, PTL

-----------------------------------------------------------------------------
(* BSP_SD_Init tells the truth.                                             *)

\* At each command a card that works is in the mode that obeys it, and no stream takes the
\* words of SCR.
Modal ==
  /\ pc \in {"CMD8", "ACMD41"} => card.mode = "idle"
  /\ pc = "ACMD41" /\ card.kind = "HC" => handle.hcs
  /\ pc \in Commands => card.mode = Obeyed[pc][1]
  /\ pc = "SCR" => card.mode = "tran"
  /\ pc \in Known => card.kind # "none"
  /\ handle.scr # "lost"

IdentInv == Good => Modal

\* BSP_SD_Init takes a card that works from mode to mode.
LEMMA InitialiseModal ==
  ASSUME PathInv, Moves, Modal, Good, BspInit \/ Initialise
  PROVE  Modal'
<1>0. card \in Card /\ handle \in Handle /\ ~card.faulty
  BY DEF PathInv, SdTypeOK, Good
<1> USE <1>0 DEF Goto, InitFails, MainAt, Modal, Known, Commands, InitLabels
<1>1. CASE BspInit
  BY <1>1 DEF BspInit, FreshHandle
<1>2. CASE Cmd0
  BY <1>2 DEF Cmd0, Card
<1>3. CASE Cmd8
  BY <1>3 DEF Cmd8, Handle, Hears
<1>4. CASE Acmd41
  BY <1>4 DEF Acmd41, Handle, Card, BecomesReady, Hears, Obeyed
<1>5. CASE Identify
  <2>1. ASSUME NEW cmd \in {"CMD2", "CMD3", "CMD9", "CMD7", "CMD16"}, NEW next,
               InitCommand(cmd, next)
        PROVE  /\ pc' \in {next, "idle"} /\ UNCHANGED handle
               /\ pc' = "idle" \/ (card'.mode = Obeyed[cmd][2] /\ card'.kind # "none")
    BY <2>1 DEF InitCommand, InitFailsAt, Hears, Does, Card
  <2> QED BY <1>5, <2>1 DEF Identify, Obeyed
<1>6. CASE Acmd51
  BY <1>6 DEF Acmd51, InitFailsAt, Obeyed
<1>7. CASE ScrEnds
  BY <1>7 DEF ScrEnds, Handle, Obeyed
<1>8. CASE Acmd6
  BY <1>8 DEF Acmd6, InitFailsAt, Handle
<1> QED BY <1>1, <1>2, <1>3, <1>4, <1>5, <1>6, <1>7, <1>8 DEF Initialise

\* No other step touches the card in BSP_SD_Init, and no stream is there to take SCR.
LEMMA OtherModal ==
  ASSUME PathInv, Moves, Modal, Good, [Next]_vars, ~(BspInit \/ Initialise)
  PROVE  /\ Modal'
         /\ pc \in InitLabels => pc' = pc
<1>0. card \in Card /\ handle \in Handle
  BY DEF PathInv, SdTypeOK
<1>1. pc' = pc \/ (pc \notin InitLabels /\ pc' \notin InitLabels)
  BY DEF Next, vars, main, Transfer, Begin, EnableIT, StartDma, BlockLen, Command, Response,
         DataConfig, SetErr, WaitEnd, WaitIdle, Stop, Clear, Programming, GetStatus, Swap, SdioIRQ,
         SpinEnds, DmaIRQ, StreamError, Hardware, CardSends, StreamEmptiesFifo, StreamFillsFifo,
         CardReceives, CardIsReady, NoStream, ScrArrives, DataError, CardFails, Goto, Return,
         MainAt, InitLabels
<1>2. CASE ScrArrives
  <2>1. \A d \in Dir : ~Serves(d)
    BY <1>2 DEF ScrArrives, Serves, Moves, Rest, InitLabels, Clean, Mine
  <2>2. UNCHANGED <<pc, card, handle.hcs>> /\ handle'.scr = "read"
    BY <1>0, <1>2, <2>1 DEF ScrArrives, main, Handle
  <2> QED BY <1>1, <2>2 DEF Modal
<1>3. CASE ~ScrArrives
  <2>1. UNCHANGED <<handle.hcs, handle.scr>>
    BY <1>0, <1>3 DEF Next, vars, Transfer, Begin, EnableIT, StartDma, BlockLen, Command, Response,
         DataConfig, SetErr, WaitEnd, WaitIdle, Stop, Clear, Programming, GetStatus, Swap, SdioIRQ,
         SpinEnds, DmaIRQ, StreamError, Hardware, CardSends, StreamEmptiesFifo, StreamFillsFifo,
         CardReceives, CardIsReady, NoStream, DataError, CardFails, Handle
  <2>2. pc = "idle" \/ UNCHANGED <<card.mode, card.kind>>
    BY <1>0, <1>3 DEF Next, vars, Transfer, Begin, EnableIT, StartDma, BlockLen, Command, Response,
         DataConfig, SetErr, WaitEnd, WaitIdle, Stop, Clear, Programming, GetStatus, Swap, SdioIRQ,
         SpinEnds, DmaIRQ, StreamError, Hardware, CardSends, StreamEmptiesFifo, StreamFillsFifo,
         CardReceives, CardIsReady, NoStream, DataError, CardFails, Card
  <2> QED BY <1>1, <2>1, <2>2 DEF Modal, Commands, Known, InitLabels
<1> QED BY <1>1, <1>2, <1>3

\* BSP_SD_Init (stm32f4_sd.c:147-186): after MSD_OK the card is selected and both sides
\* use four lines, whatever was lost before. Where nothing fails from the first step on
\* (Good), a card of version 2 is never refused, whichever sequence of cards and of
\* transfers that succeeded came before. Nothing is said of a refusal after a failure:
\* the stream it leaves may take SCR (hal_sd.c:3224).
THEOREM InitTellsTruth == Spec => InitTells
<1> DEFINE Tells == pc' = "idle" /\ pc \in InitLabels =>
              /\ (handle'.ready => card'.mode = "tran" /\ card'.wide /\ handle'.wide)
              /\ (Good /\ card.kind \in {"V2", "HC"} => handle'.ready)
<1>1. Init => IdentInv
  <2> SUFFICES ASSUME Init PROVE Modal
    BY DEF IdentInv
  <2>1. pc = "idle" /\ handle.scr = "none"
    BY DEF Init, FreshHandle
  <2> QED BY <2>1 DEF Modal, Commands, Known, InitLabels
<1>2. PathInv /\ MoveInv /\ IdentInv /\ [Next]_vars => IdentInv'
  <2> SUFFICES ASSUME PathInv, MoveInv, IdentInv, [Next]_vars, Good' PROVE Modal'
    BY DEF IdentInv
  <2>1. Good /\ Moves /\ Modal
    BY GoodStays DEF MoveInv, PathInv, IdentInv
  <2> QED BY <2>1, InitialiseModal, OtherModal
<1>3. PathInv /\ MoveInv /\ IdentInv /\ [Next]_vars => Tells
  <2> SUFFICES ASSUME PathInv, MoveInv, IdentInv, [Next]_vars, pc' = "idle", pc \in InitLabels
               PROVE  /\ (handle'.ready => card'.mode = "tran" /\ card'.wide /\ handle'.wide)
                      /\ (Good /\ card.kind \in {"V2", "HC"} => handle'.ready)
    OBVIOUS
  <2>0. card \in Card /\ handle \in Handle /\ ~handle.ready /\ pc # "idle"
    BY DEF PathInv, SdTypeOK, ReadyInv, InitLabels
  <2>1. handle'.ready => card'.mode = "tran" /\ card'.wide /\ handle'.wide
    <3>1. CASE Acmd6
      BY <2>0, <3>1 DEF Acmd6, InitFailsAt, InitFails, Does, Obeyed, Card, Handle
    <3>2. CASE ~Acmd6
      <4>1. ~handle'.ready
        BY <2>0, <3>2 DEF Next, vars, Transfer, Initialise, Begin, EnableIT, StartDma, BlockLen,
           Command, Response, DataConfig, SetErr, WaitEnd, WaitIdle, Stop, Clear, Programming,
           GetStatus, Swap, SdioIRQ, SpinEnds, DmaIRQ, StreamError, Hardware, CardSends,
           StreamEmptiesFifo, StreamFillsFifo, CardReceives, CardIsReady, NoStream, ScrArrives,
           DataError, CardFails, BspInit, Cmd0, Cmd8, Acmd41, Identify, InitCommand, InitFailsAt,
           InitFails, Acmd51, ScrEnds, FreshHandle, Handle
      <4> QED BY <4>1
    <3> QED BY <3>1, <3>2
  <2>2. ASSUME Good, card.kind \in {"V2", "HC"} PROVE handle'.ready
    <3>1. ~card.faulty /\ Moves /\ Modal /\ ~sdio.err
      BY <2>2 DEF Good, MoveInv, IdentInv, Moves
    <3>2. Initialise
      BY <2>0, <2>2, <3>1, OtherModal DEF BspInit, MainAt
    <3>3. ~Cmd0 /\ ~Cmd8
      BY <3>1 DEF Cmd0, Cmd8, Goto, InitFails
    <3>4. ~Acmd41
      BY <2>2, <3>1 DEF Acmd41, Goto, BecomesReady, Hears, MainAt, Modal
    <3>5. ASSUME NEW cmd \in Commands, pc = cmd PROVE Hears(card, cmd)
      BY <2>2, <3>1, <3>5 DEF Modal, Hears, Commands
    <3>6. ~Identify
      BY <3>1, <3>5 DEF Identify, InitCommand, InitFailsAt, Goto, MainAt, Commands
    <3>7. ~Acmd51
      BY <3>1, <3>5 DEF Acmd51, InitFailsAt, Goto, MainAt, Commands
    <3>8. ~ScrEnds
      BY <2>0, <3>1 DEF ScrEnds, Goto, Modal, Handle, Scr
    <3>9. Acmd6
      BY <3>2, <3>3, <3>4, <3>6, <3>7, <3>8 DEF Initialise
    <3> QED BY <2>0, <3>1, <3>5, <3>9 DEF Acmd6, InitFailsAt, MainAt, Commands, Handle
  <2> QED BY <2>1, <2>2
<1>4. Spec => []IdentInv
  BY <1>1, <1>2, MoveInvariant, PTL DEF Spec
<1>5. Spec => [][Tells]_vars
  BY <1>3, <1>4, MoveInvariant, PTL DEF Spec
<1> QED BY <1>5 DEF InitTells
=============================================================================
