------------------------------- MODULE SdCard -------------------------------
(***************************************************************************)
(* The SD card and the handle of its driver, as the commands of            *)
(* BSP_SD_Init see them.  A card is a record of                            *)
(*   kind    of version 1, standard of version 2, high capacity, or no card *)
(*   mode    the state of the specification of SD cards it is in           *)
(*   wide    it uses four data lines                                       *)
(* and a handle of                                                         *)
(*   type    hsd->CardType, which survives BSP_SD_Init                     *)
(*   hcs     sdtype of SD_PowerON                                          *)
(*   scr     what became of the register SCR, which is read as data        *)
(*   wide    CLKCR.WIDBUS                                                  *)
(*   ready   the last BSP_SD_Init succeeded, with the card that is there   *)
(* The commands of the application (ACMD) stand for CMD55 and themselves.  *)
(* RCA, CID and CSD are left out: they are used as they were received.     *)
(***************************************************************************)

Kinds == {"none", "V1", "V2", "HC"}
Types == Kinds \ {"none"}
Modes == {"idle", "ready", "ident", "stby", "tran"}
Scr   == {"none", "read", "lost"}

\* What the card says of its last write, and the conditions it works under.
Card   == [kind : Kinds, mode : Modes, wide : BOOLEAN,
           status : {"transfer", "programming", "error"},
           faulty : BOOLEAN, lag : BOOLEAN, kinds : SUBSET Kinds]
Handle == [type : Types, hcs : BOOLEAN, scr : Scr, wide : BOOLEAN, ready : BOOLEAN]

\* uSdHandle, zeroed at reset: STD_CAPACITY_SD_CARD_V1_1 is 0.
FreshHandle == [type |-> "V1", hcs |-> FALSE, scr |-> "none", wide |-> FALSE,
                ready |-> FALSE]

\* The mode in which a card obeys a command, and the one it goes to.
Obeyed ==
  [CMD2 |-> <<"ready", "ident">>, CMD3 |-> <<"ident", "stby">>,
   CMD9 |-> <<"stby", "stby">>,   CMD7 |-> <<"stby", "tran">>,
   CMD16 |-> <<"tran", "tran">>,  ACMD51 |-> <<"tran", "tran">>,
   ACMD6 |-> <<"tran", "tran">>]

\* Does a card answer the command?
Hears(card, cmd) ==
  /\ card.kind # "none"
  /\ CASE cmd = "CMD8"   -> card.mode = "idle" /\ card.kind # "V1"
       [] cmd = "ACMD41" -> card.mode = "idle"
       [] OTHER          -> card.mode = Obeyed[cmd][1]

Does(card, cmd) == [card EXCEPT !.mode = Obeyed[cmd][2],
                                !.wide = @ \/ cmd = "ACMD6"]

\* ACMD41: a high-capacity card waits for a host that says it knows such cards.
BecomesReady(card, handle) ==
  Hears(card, "ACMD41") /\ (card.kind = "HC" => handle.hcs)
=============================================================================
