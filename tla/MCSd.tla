-------------------------------- MODULE MCSd --------------------------------
(* The transfers of the SD card, for model checking: with a card and streams *)
(* that do their part, and with anything that may go wrong.                  *)
EXTENDS SdTransfer

GoodOrNot  == {[faulty |-> FALSE, lag |-> FALSE, kinds |-> Kinds],
               [faulty |-> TRUE, lag |-> TRUE, kinds |-> {"V1", "HC"}]}
FaultyCard == {[faulty |-> TRUE, lag |-> FALSE, kinds |-> {"V2"}]}
=============================================================================
