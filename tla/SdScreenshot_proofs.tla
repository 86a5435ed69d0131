------------------------- MODULE SdScreenshot_proofs -------------------------
(***************************************************************************)
(* Proofs about the screenshots, for every length of the picture, every    *)
(* room on the card, every number of presses and every failure.            *)
(***************************************************************************)
EXTENDS SdScreenshot, SequenceTheorems, TLAPS

\* Where the machine may be when the loop comes back to the panel, and within a turn.
TurnOK ==
  /\ turn = "poll" => pos = 0
  /\ pos # 0 => status \in {"MOUNT", "WRITE_TEST_FILE"}
  /\ pos # 0 /\ status = "MOUNT" => pos = 1

\* The first driver that is linked gives volume 0 its work area.
LinksOK == nbr # 0 \/ (status = "MOUNT" /\ pos = 1) => registered[0]

\* The first pieces of a picture, none missing.
Whole(s, n) == Len(s) = n /\ \A k \in 1..n : s[k] = k

\* While a file is written its entry is empty, and what it has taken is what is
\* counted: all that was asked so far, or less.
FileOK ==
  /\ buf \in Seq(Nat) /\ entry \in Seq(Nat)
  /\ status = "WRITE_TEST_FILE" /\ pos # 0 =>
       /\ entry = <<>> /\ Len(buf) = total /\ total <= pos - 1
       /\ total = pos - 1 => Whole(buf, total)

\* Without a fault since the press the card is ready, and no piece is lost.
GoodOK ==
  ~fault =>
    /\ status \in {"MOUNT", "PREPARE_WRITE", "WRITE_TEST_FILE"} => ready
    /\ status = "WRITE_TEST_FILE" /\ pos # 0 => ~err /\ total = pos - 1

ShotInv == /\ ShotTypeOK /\ TurnOK /\ LinksOK /\ FileOK /\ GoodOK
           /\ FileHasItsVolume /\ CountTellsFile /\ GoodShotSaves

\* With a name that is refused the screen never says that a file was opened or written,
\* none is being written, and the card has none.
NothingSaved ==
  ~NameFits =>
    /\ entry = <<>> /\ text \notin {"FileOk", "wrote"}
    /\ status = "WRITE_TEST_FILE" => pos = 0
-----------------------------------------------------------------------------
(* Files.                                                                   *)

\* A file of the length of the picture with its pieces is the picture.
LEMMA WholeIsPicture ==
  ASSUME NEW s \in Seq(Nat), Whole(s, Chunks)
  PROVE  s = Picture
<1>1. s \in [1..Chunks -> Nat]  BY DEF Whole
<1>2. \A k \in 1..Chunks : s[k] = k  BY DEF Whole
<1> QED  BY <1>1, <1>2 DEF Picture

\* One more piece, put after those there are.
LEMMA OneMore ==
  ASSUME NEW s \in Seq(Nat), NEW n \in Nat \ {0}
  PROVE  /\ Append(s, n) \in Seq(Nat) /\ Len(Append(s, n)) = Len(s) + 1
         /\ Whole(s, n - 1) => Whole(Append(s, n), n)
<1>1. Append(s, n) \in Seq(Nat) /\ Len(Append(s, n)) = Len(s) + 1  OBVIOUS
<1>2. ASSUME Whole(s, n - 1), NEW k \in 1..n  PROVE Append(s, n)[k] = k
  <2>1. CASE k = n  BY <1>2, <2>1 DEF Whole
  <2>2. CASE k # n
    <3>1. k \in 1..Len(s) /\ s[k] = k  BY <1>2, <2>2 DEF Whole
    <3> QED  BY <3>1
  <2> QED  BY <2>1, <2>2
<1> QED  BY <1>1, <1>2 DEF Whole

-----------------------------------------------------------------------------
(* The name.                                                                *)

\* sdcard.c:82, the program as it is: a name of more than 8 letters is refused by
\* create_name (ff.c:1971), and no screenshot opens, empties or writes its file.
THEOREM LongNameSavesNothing == Spec => []NothingSaved
<1>1. Init => NothingSaved  BY DEF Init, NothingSaved
<1>2. ASSUME NothingSaved, [Next]_vars  PROVE NothingSaved'
  <2> USE DEF NothingSaved, NameFits
  <2>1. CASE Poll  BY <1>2, <2>1 DEF Poll, PressBmp, PollOther, file
  <2>2. CASE Rest  BY <1>2, <2>2 DEF Rest, Turn
  <2>3. CASE MachineInit  BY <1>2, <2>3 DEF MachineInit, Turn
  <2>4. CASE MachineLink  BY <1>2, <2>4 DEF MachineLink, At, Turn, Same
  <2>5. CASE MachineGetFree  BY <1>2, <2>5 DEF MachineGetFree, At, Turn
  <2>6. CASE MachinePrepare  BY <1>2, <2>6 DEF MachinePrepare, Turn
  <2>7. CASE MachineOpen  BY <1>2, <2>7 DEF MachineOpen, OpenFails, Turn, Same
  <2>8. CASE MachineWrite \/ MachineClose
    <3>1. 0 \notin 1..Chunks /\ Chunks + 1 # 0  BY ShotAssumption
    <3>2. NameFits  BY <1>2, <2>8, <3>1 DEF MachineWrite, MachineClose, At
    <3> QED  BY <2>8, <3>2 DEF MachineWrite, MachineClose, Turn, Same
  <2>9. CASE CardGone  BY <1>2, <2>9 DEF CardGone, file, loop
  <2>10. CASE UNCHANGED vars  BY <1>2, <2>10 DEF vars, file, loop
  <2> QED  BY <1>2, <2>1, <2>2, <2>3, <2>4, <2>5, <2>6, <2>7, <2>8, <2>9, <2>10
         DEF Next, Machine
<1> QED  BY <1>1, <1>2, PTL DEF Spec

-----------------------------------------------------------------------------
(* The steps.                                                               *)

USE DEF VOLUMES, Volume

LEMMA InitInv == Init => ShotInv
<1> SUFFICES ASSUME Init PROVE ShotInv  OBVIOUS
<1>1. ShotTypeOK
  <2>1. initialized \in [Volume -> BOOLEAN] /\ registered \in [Volume -> BOOLEAN]
    BY DEF Init
  <2>2. status \in States /\ text \in Texts  BY DEF Init, States, Texts
  <2>3. /\ turn \in {"poll", "machine"} /\ down \in BOOLEAN /\ fsType \in BOOLEAN
        /\ ready \in BOOLEAN /\ err \in BOOLEAN /\ fault \in BOOLEAN /\ room \in Rooms
        /\ body \in Bodies
    BY DEF Init
  <2>4. nbr = 0 /\ pos = 0 /\ total = 0 /\ presses = 0  BY DEF Init
  <2> QED  BY <2>1, <2>2, <2>3, <2>4, ShotAssumption DEF ShotTypeOK
<1>2. TurnOK /\ LinksOK /\ GoodOK  BY DEF Init, TurnOK, LinksOK, GoodOK
<1>3. FileOK
  <2>1. buf = <<>> /\ entry = <<>> /\ pos = 0  BY DEF Init
  <2> QED  BY <2>1 DEF FileOK
<1>4. FileHasItsVolume /\ CountTellsFile /\ GoodShotSaves
  <2>1. status = "IDLE" /\ text = "PressBMP" /\ presses = 0  BY DEF Init
  <2>2. FileHasItsVolume  BY <2>1 DEF FileHasItsVolume
  <2>3. CountTellsFile  BY <2>1 DEF CountTellsFile
  <2>4. GoodShotSaves  BY <2>1 DEF GoodShotSaves, NameFits
  <2> QED  BY <2>2, <2>3, <2>4
<1> QED  BY <1>1, <1>2, <1>3, <1>4 DEF ShotInv

LEMMA PollInv == ASSUME ShotInv, Poll PROVE ShotInv'
<1> USE ShotAssumption DEF volumes, file
<1>1. CASE PressBmp
  <2>a. /\ presses' \in 0..MaxPresses /\ status' \in States /\ turn' = "machine"
        /\ down' \in BOOLEAN /\ fault' \in BOOLEAN
    <3>1. presses' \in 0..MaxPresses  BY <1>1 DEF PressBmp, ShotInv, ShotTypeOK
    <3> QED  BY <1>1, <3>1 DEF PressBmp, States
  <2>1. ShotTypeOK'
    BY <1>1, <2>a DEF PressBmp, ShotInv, ShotTypeOK
  <2>2. (TurnOK /\ LinksOK /\ GoodOK)'
    BY <1>1 DEF PressBmp, ShotInv, TurnOK, LinksOK, GoodOK
  <2>3. FileOK'  BY <1>1 DEF PressBmp, ShotInv, FileOK
  <2>4. (FileHasItsVolume /\ CountTellsFile /\ GoodShotSaves)'
    BY <1>1 DEF PressBmp, FileHasItsVolume, CountTellsFile, GoodShotSaves, NameFits
  <2> QED  BY <2>1, <2>2, <2>3, <2>4 DEF ShotInv
<1>2. CASE PollOther
  <2>1. ShotTypeOK'  BY <1>2 DEF PollOther, ShotInv, ShotTypeOK
  <2>2. (TurnOK /\ LinksOK /\ GoodOK)'
    BY <1>2 DEF PollOther, ShotInv, TurnOK, LinksOK, GoodOK
  <2>3. FileOK'  BY <1>2 DEF PollOther, ShotInv, FileOK
  <2>4. (FileHasItsVolume /\ CountTellsFile /\ GoodShotSaves)'
    BY <1>2 DEF PollOther, ShotInv, FileHasItsVolume, CountTellsFile, GoodShotSaves, NameFits,
                Picture
  <2> QED  BY <2>1, <2>2, <2>3, <2>4 DEF ShotInv
<1> QED  BY <1>1, <1>2 DEF Poll

LEMMA RestInv == ASSUME ShotInv, Rest PROVE ShotInv'
<1> USE DEF Rest, At, Turn, volumes
<1>1. ShotTypeOK'  BY DEF ShotInv, ShotTypeOK
<1>2. (TurnOK /\ LinksOK /\ GoodOK)'  BY DEF ShotInv, TurnOK, LinksOK, GoodOK
<1>3. FileOK'  BY DEF ShotInv, FileOK
<1>4. (FileHasItsVolume /\ CountTellsFile /\ GoodShotSaves)'
  BY DEF ShotInv, FileHasItsVolume, CountTellsFile, GoodShotSaves, NameFits, Picture
<1> QED  BY <1>1, <1>2, <1>3, <1>4 DEF ShotInv

LEMMA InitCardInv == ASSUME ShotInv, MachineInit PROVE ShotInv'
<1> USE DEF MachineInit, At, Turn, volumes, Fails
<1>1. ShotTypeOK'  BY DEF ShotInv, ShotTypeOK, States, Texts
<1>2. (TurnOK /\ LinksOK /\ GoodOK)'  BY DEF ShotInv, TurnOK, LinksOK, GoodOK
<1>3. FileOK'  BY DEF ShotInv, FileOK
<1>4. (FileHasItsVolume /\ CountTellsFile /\ GoodShotSaves)'
  BY DEF ShotInv, FileHasItsVolume, CountTellsFile, GoodShotSaves, NameFits
<1> QED  BY <1>1, <1>2, <1>3, <1>4 DEF ShotInv

\* The number of drivers after one more is linked, and the volume it gave.
LEMMA Linked ==
  ASSUME NEW n \in 0..VOLUMES \cup {DriverByte + 1}, Links(n)
  PROVE  /\ (PathNumber(n) + 1) % 256 = PathNumber(n) + 1
         /\ PathNumber(n) \in Volume => n \in Volume /\ PathNumber(n) = n
         /\ PathNumber(n) \notin Volume => PathNumber(n) = DriverByte
         /\ PathNumber(n) + 1 \in 0..VOLUMES \cup {DriverByte + 1}
BY ShotAssumption DEF Links, PathNumber

LEMMA LinkInv == ASSUME ShotInv, MachineLink PROVE ShotInv'
<1> USE ShotAssumption DEF MachineLink, At, Turn, Same
<1>t. /\ nbr \in 0..VOLUMES \cup {DriverByte + 1} /\ registered \in [Volume -> BOOLEAN]
      /\ initialized \in [Volume -> BOOLEAN]
  BY DEF ShotInv, ShotTypeOK
<1>1. CASE ~Links(nbr)
  <2> USE <1>1, <1>t DEF volumes, Links
  <2>1. ShotTypeOK'  BY DEF ShotInv, ShotTypeOK, States, Texts
  <2>2. (TurnOK /\ LinksOK /\ GoodOK)'  BY DEF ShotInv, TurnOK, LinksOK, GoodOK
  <2>3. FileOK'  BY DEF ShotInv, FileOK
  <2>4. (FileHasItsVolume /\ CountTellsFile /\ GoodShotSaves)'
    BY DEF ShotInv, FileHasItsVolume, CountTellsFile, GoodShotSaves, NameFits
  <2> QED  BY <2>1, <2>2, <2>3, <2>4 DEF ShotInv
<1>2. CASE Links(nbr) /\ PathNumber(nbr) \in Volume
  <2> USE <1>2, <1>t
  <2>a. nbr \in Volume /\ PathNumber(nbr) = nbr /\ nbr' = nbr + 1  BY Linked
  <2>1. ShotTypeOK'
    <3>1. nbr' \in 0..VOLUMES /\ pos' \in 0..Chunks + 1  BY <2>a
    <3>2. /\ initialized' = [initialized EXCEPT ![nbr] = FALSE]
          /\ registered' = [registered EXCEPT ![nbr] = TRUE]
      OBVIOUS
    <3>4. initialized' \in [Volume -> BOOLEAN] /\ registered' \in [Volume -> BOOLEAN]
      BY <1>t, <3>2
    <3>3. fsType' \in BOOLEAN  OBVIOUS
    <3> QED  BY <3>1, <3>4, <3>3 DEF ShotInv, ShotTypeOK
  <2>b. TurnOK' /\ FileOK'  BY DEF ShotInv, TurnOK, FileOK
  <2>2. LinksOK'  BY <2>a DEF ShotInv, LinksOK
  <2>3. GoodOK'  BY DEF ShotInv, GoodOK
  <2>4. (FileHasItsVolume /\ CountTellsFile)'  BY DEF FileHasItsVolume, CountTellsFile
  <2>5. GoodShotSaves'  BY DEF GoodShotSaves, NameFits
  <2> QED  BY <2>1, <2>b, <2>2, <2>3, <2>4, <2>5 DEF ShotInv
<1>3. CASE Links(nbr) /\ PathNumber(nbr) \notin Volume
  <2> USE <1>3, <1>t
  <2>a. nbr' = DriverByte + 1 /\ nbr # 0
    <3>1. PathNumber(nbr) = DriverByte /\ nbr' = PathNumber(nbr) + 1  BY Linked
    <3>2. nbr # 0  BY DEF PathNumber
    <3> QED  BY <3>1, <3>2
  <2>1. ShotTypeOK'  BY <2>a DEF ShotInv, ShotTypeOK, States
  <2>b. TurnOK' /\ FileOK'  BY DEF ShotInv, TurnOK, FileOK
  <2>2. LinksOK'  BY <2>a DEF ShotInv, LinksOK
  <2>3. GoodOK'  BY DEF ShotInv, GoodOK
  <2>4. (FileHasItsVolume /\ CountTellsFile)'  BY DEF FileHasItsVolume, CountTellsFile
  <2>5. GoodShotSaves'  BY <2>a DEF GoodShotSaves, NameFits
  <2> QED  BY <2>1, <2>b, <2>2, <2>3, <2>4, <2>5 DEF ShotInv
<1> QED  BY <1>1, <1>2, <1>3

\* What find_volume leaves, in its two outcomes.
LEMMA Finds ==
  ASSUME ShotTypeOK, Found \/ NotFound
  PROVE  /\ initialized' \in [Volume -> BOOLEAN] /\ fsType' \in BOOLEAN
         /\ ready' \in BOOLEAN
         /\ Found => registered[0] /\ initialized'[0] /\ fsType' /\ ready'
         /\ NotFound /\ registered[0] /\ (initialized[0] => ready) => fault'
<1>1. 0 \in Volume  OBVIOUS
<1>2. CASE Found  BY <1>1, <1>2 DEF ShotTypeOK, Found, NotFound, Fails
<1>3. CASE NotFound
  <2>1. initialized' \in [Volume -> BOOLEAN]  BY <1>3 DEF ShotTypeOK, NotFound
  <2>2. fsType' \in BOOLEAN /\ ready' \in BOOLEAN  BY <1>3 DEF ShotTypeOK, NotFound
  <2>3. registered[0] /\ (initialized[0] => ready) => fault'  BY <1>3 DEF NotFound, Fails
  <2>4. Found => registered[0] /\ initialized'[0] /\ fsType' /\ ready'
    BY <1>1 DEF Found, ShotTypeOK
  <2> QED  BY <2>1, <2>2, <2>3, <2>4
<1> QED  BY <1>2, <1>3

LEMMA GetFreeInv == ASSUME ShotInv, MachineGetFree PROVE ShotInv'
<1> USE DEF MachineGetFree, At, Turn
<1>t. ShotTypeOK  BY DEF ShotInv
<1>f. fault' \in BOOLEAN
  BY <1>t DEF ShotTypeOK, Fails, NotFound
<1>k. initialized' \in [Volume -> BOOLEAN] /\ fsType' \in BOOLEAN /\ ready' \in BOOLEAN
  BY <1>t, Finds
<1>l. status' \in States /\ text' \in Texts
  BY <1>t DEF ShotTypeOK, States, Texts
<1>m. /\ turn' = "poll" /\ pos' \in 0..Chunks + 1
      /\ UNCHANGED <<down, presses, nbr, registered, err, total, room>>
  BY ShotAssumption
<1>1. ShotTypeOK'  BY <1>t, <1>f, <1>k, <1>l, <1>m DEF ShotTypeOK
<1>a. TurnOK'  BY DEF TurnOK
<1>b. LinksOK'  BY DEF ShotInv, LinksOK
<1>c. FileOK'  BY DEF ShotInv, FileOK
<1>2. TurnOK' /\ LinksOK' /\ FileOK'  BY <1>a, <1>b, <1>c
<1>3. CASE Found /\ UNCHANGED fault /\ status' = "PREPARE_WRITE"
  <2>1. registered'[0] /\ initialized'[0] /\ fsType' /\ ready'  BY <1>t, <1>3, Finds
  <2>2. GoodOK'  BY <1>3, <2>1 DEF GoodOK
  <2>3. (FileHasItsVolume /\ CountTellsFile /\ GoodShotSaves)'
    BY <1>3, <2>1 DEF FileHasItsVolume, CountTellsFile, GoodShotSaves, NameFits
  <2> QED  BY <1>1, <1>2, <2>2, <2>3 DEF ShotInv
<1>4. CASE (NotFound \/ (Found /\ Fails)) /\ status' = "END_WITH_ERROR"
  <2>1. fault'
    <3>1. registered[0]  BY DEF ShotInv, LinksOK
    <3>2. ~fault => ready  BY DEF ShotInv, GoodOK
    <3>3. fault => fault'  BY <1>4 DEF NotFound, Fails
    <3> QED  BY <1>4, <1>t, <3>1, <3>2, <3>3, Finds DEF Fails
  <2>3. GoodOK'  BY <1>4 DEF GoodOK
  <2>4. GoodShotSaves'  BY <1>4, <2>1 DEF GoodShotSaves, NameFits
  <2>5. (FileHasItsVolume /\ CountTellsFile)'
    BY <1>4 DEF FileHasItsVolume, CountTellsFile
  <2> QED  BY <1>1, <1>2, <2>3, <2>4, <2>5 DEF ShotInv
<1> QED  BY <1>3, <1>4

LEMMA PrepareInv == ASSUME ShotInv, MachinePrepare PROVE ShotInv'
<1> USE DEF MachinePrepare, At, Turn, volumes
<1>1. ShotTypeOK'  BY DEF ShotInv, ShotTypeOK, States, Texts
<1>2. TurnOK' /\ GoodOK'  BY DEF ShotInv, TurnOK, GoodOK
<1>3. LinksOK'  BY DEF ShotInv, LinksOK
<1>4. FileOK'  BY DEF ShotInv, FileOK
<1>5. (FileHasItsVolume /\ CountTellsFile /\ GoodShotSaves)'
  BY DEF ShotInv, FileHasItsVolume, CountTellsFile, GoodShotSaves, NameFits
<1> QED  BY <1>1, <1>2, <1>3, <1>4, <1>5 DEF ShotInv

LEMMA OpenInv == ASSUME ShotInv, NothingSaved, MachineOpen PROVE ShotInv'
<1> USE DEF MachineOpen, OpenFails, At
<1>t. ShotTypeOK  BY DEF ShotInv
<1>f. fault' \in BOOLEAN  BY <1>t DEF ShotTypeOK, Fails, NotFound
<1>k. initialized' \in [Volume -> BOOLEAN] /\ fsType' \in BOOLEAN /\ ready' \in BOOLEAN
  BY <1>t, Finds
<1>v. registered[0] /\ (~fault => ready)  BY DEF ShotInv, FileHasItsVolume, GoodOK
<1>b. LinksOK'  BY <1>v DEF LinksOK
<1>1. CASE /\ Found /\ NameFits /\ Same /\ pos' = 1 /\ entry' = <<>> /\ text' = "FileOk"
           /\ buf' = <<>> /\ err' = FALSE /\ total' = 0 /\ room' \in Rooms
           /\ UNCHANGED <<status, fault>>
  <2> USE <1>1
  <2>1. ShotTypeOK'
    <3>1. 1 \in 0..Chunks + 1 /\ 0 \in 0..Chunks  BY ShotAssumption
    <3> QED  BY <1>t, <1>f, <1>k, <3>1 DEF Same, ShotTypeOK, Texts
  <2>2. TurnOK'  BY DEF TurnOK, Same
  <2>3. registered'[0] /\ initialized'[0] /\ fsType' /\ ready'  BY <1>t, Finds
  <2>4. FileOK'
    <3>1. buf' \in Seq(Nat) /\ entry' \in Seq(Nat) /\ Len(buf') = 0  OBVIOUS
    <3>2. Whole(buf', 0)  BY <3>1 DEF Whole
    <3>3. entry' = <<>> /\ Len(buf') = total' /\ total' <= pos' - 1
          /\ (total' = pos' - 1 => Whole(buf', total'))
      BY <3>1, <3>2
    <3> QED  BY <3>1, <3>3 DEF FileOK
  <2>5. GoodOK'  BY <2>3 DEF GoodOK
  <2>6. FileHasItsVolume'  BY <2>3 DEF FileHasItsVolume
  <2>7. CountTellsFile' /\ GoodShotSaves'  BY DEF CountTellsFile, GoodShotSaves, NameFits
  <2> QED  BY <1>b, <2>1, <2>2, <2>4, <2>5, <2>6, <2>7 DEF ShotInv
<1>2. CASE OpenFails /\ entry' \in {entry, <<>>}
  <2> USE <1>2
  <2>1. ShotTypeOK'
    <3>1. pos' \in 0..Chunks + 1  BY ShotAssumption DEF Turn
    <3> QED  BY <1>t, <1>f, <1>k, <3>1 DEF Turn, ShotTypeOK, States, Texts
  <2>2. TurnOK'  BY DEF TurnOK, Turn
  <2>3. NameFits => fault'  BY <1>t, <1>v, Finds DEF NotFound, Fails
  <2>4. FileOK'
    <3>1. <<>> \in Seq(Nat)  OBVIOUS
    <3> QED  BY <3>1 DEF ShotInv, FileOK
  <2>5. GoodOK'  BY DEF GoodOK, Turn
  <2>7. GoodShotSaves'
    <3>1. body' = body /\ text' = "FailOpen" /\ status' = "IDLE"  BY DEF Turn
    <3>2. ~NameFits => entry' = <<>>  BY DEF NothingSaved
    <3> QED  BY <2>3, <3>1, <3>2 DEF GoodShotSaves, NameFits
  <2>6. FileHasItsVolume' /\ CountTellsFile'  BY DEF FileHasItsVolume, CountTellsFile
  <2> QED  BY <1>b, <2>1, <2>2, <2>4, <2>5, <2>6, <2>7 DEF ShotInv
<1> QED  BY <1>1, <1>2

LEMMA WriteInv == ASSUME ShotInv, MachineWrite PROVE ShotInv'
<1> USE DEF MachineWrite, Same, volumes
<1>t. ShotTypeOK  BY DEF ShotInv
<1>p. /\ turn = "machine" /\ pos \in 1..Chunks /\ status = "WRITE_TEST_FILE"
      /\ pos' = pos + 1 /\ pos' \in 1..Chunks + 1
      /\ UNCHANGED <<turn, down, presses, status, text, nbr, initialized, registered,
                     fsType, ready, room, entry>>
  BY ShotAssumption
<1>w. /\ entry = <<>> /\ Len(buf) = total /\ total <= pos - 1 /\ total \in 0..Chunks
      /\ (total = pos - 1 => Whole(buf, total))
      /\ buf \in Seq(Nat) /\ entry \in Seq(Nat)
  BY <1>p, <1>t DEF ShotInv, FileOK, ShotTypeOK
<1>1. TurnOK'  BY <1>p DEF TurnOK
<1>2. LinksOK'  BY <1>p DEF ShotInv, LinksOK
<1>3. FileHasItsVolume'  BY <1>p DEF ShotInv, FileHasItsVolume
<1>4. CountTellsFile' /\ GoodShotSaves'  BY <1>p DEF CountTellsFile, GoodShotSaves, NameFits
<1>5. CASE /\ ~err /\ ready /\ Len(buf) < room
           /\ buf' = Append(buf, pos) /\ total' = total + 1
           /\ UNCHANGED <<err, fault>>
  <2>1. total' \in 0..Chunks  BY <1>5, <1>p, <1>w, ShotAssumption
  <2>2. ShotTypeOK'
    <3>1. pos' \in 0..Chunks + 1  BY <1>p, ShotAssumption
    <3> QED  BY <1>5, <1>t, <1>p, <2>1, <3>1 DEF ShotTypeOK
  <2>3. FileOK'
    <3>1. pos \in Nat \ {0}  BY <1>p, ShotAssumption
    <3>2. buf' \in Seq(Nat) /\ Len(buf') = total'  BY <1>5, <1>w, <3>1, OneMore
    <3>3. total' <= pos' - 1  BY <1>5, <1>p, <1>w, ShotAssumption
    <3>4. ASSUME total' = pos' - 1  PROVE Whole(buf', total')
      <4>1. total = pos - 1 /\ total' = pos
        BY <1>5, <1>p, <1>w, <3>4, ShotAssumption
      <4> QED  BY <1>5, <1>w, <3>1, <4>1, OneMore
    <3> QED  BY <1>p, <1>w, <3>2, <3>3, <3>4 DEF FileOK
  <2>4. GoodOK'
    <3>1. fault' = fault /\ err' = err /\ ~err /\ ready  BY <1>5
    <3>2. total = pos - 1 => total' = pos' - 1  BY <1>5, <1>p, <1>w, ShotAssumption
    <3>3. ~fault => total = pos - 1  BY <1>p DEF ShotInv, GoodOK
    <3> QED  BY <1>p, <3>1, <3>2, <3>3 DEF GoodOK
  <2> QED  BY <1>1, <1>2, <1>3, <1>4, <2>2, <2>3, <2>4 DEF ShotInv
<1>6. CASE fault' = TRUE /\ err' \in {err, TRUE} /\ UNCHANGED <<buf, total>>
  <2>1. ShotTypeOK'
    <3>1. pos' \in 0..Chunks + 1  BY <1>p, ShotAssumption
    <3> QED  BY <1>6, <1>t, <1>p, <3>1 DEF ShotTypeOK
  <2>2. FileOK'
    <3>1. total' <= pos' - 1 /\ total' # pos' - 1  BY <1>6, <1>p, <1>w, ShotAssumption
    <3> QED  BY <1>6, <1>p, <1>w, <3>1 DEF FileOK
  <2>3. GoodOK'  BY <1>6 DEF GoodOK
  <2> QED  BY <1>1, <1>2, <1>3, <1>4, <2>1, <2>2, <2>3 DEF ShotInv
<1> QED  BY <1>5, <1>6 DEF Fails

LEMMA CloseInv == ASSUME ShotInv, NothingSaved, MachineClose PROVE ShotInv'
<1> USE DEF MachineClose, At, Turn, volumes, Fails
<1>t. ShotTypeOK  BY DEF ShotInv
<1>p. status = "WRITE_TEST_FILE" /\ pos = Chunks + 1 /\ pos # 0 /\ pos - 1 = Chunks
  BY ShotAssumption
<1>w. /\ entry = <<>> /\ Len(buf) = total
      /\ (total = Chunks => Whole(buf, Chunks))
      /\ buf \in Seq(Nat) /\ entry \in Seq(Nat)
  BY <1>p DEF ShotInv, FileOK
<1>b. total = Chunks => buf = Picture  BY <1>w, WholeIsPicture
<1>1. ShotTypeOK'
  <2>1. pos' \in 0..Chunks + 1  BY ShotAssumption
  <2> QED  BY <1>t, <2>1 DEF ShotTypeOK, States, Texts
<1>2. TurnOK' /\ GoodOK'  BY DEF TurnOK, GoodOK
<1>3. LinksOK'
  <2>1. registered'[0]  BY <1>p DEF ShotInv, FileHasItsVolume
  <2> QED  BY <2>1 DEF LinksOK
<1>4. entry' \in {<<>>, buf}  BY <1>w
<1>5. FileOK'
  <2>1. <<>> \in Seq(Nat)  OBVIOUS
  <2>2. entry' \in Seq(Nat) /\ buf' \in Seq(Nat) /\ status' = "IDLE"  BY <1>4, <1>w, <2>1
  <2> QED  BY <2>2 DEF FileOK
<1>6. FileHasItsVolume'  BY DEF FileHasItsVolume
<1>7. CountTellsFile'  BY <1>4, <1>w, <1>b DEF CountTellsFile, Picture
<1>8. GoodShotSaves'
  <2>1. ASSUME ~fault'  PROVE entry' = Picture
    <3>1. ~fault /\ ready /\ entry' = buf  BY <1>p, <2>1 DEF ShotInv, GoodOK
    <3>2. total = Chunks  BY <1>p, <3>1 DEF ShotInv, GoodOK
    <3> QED  BY <1>b, <3>1, <3>2
  <2>2. status' = "IDLE" /\ Picture' = Picture  BY DEF Picture
  <2>3. NameFits'  BY <1>p DEF NothingSaved, NameFits
  <2> QED  BY <2>1, <2>2, <2>3 DEF GoodShotSaves
<1> QED  BY <1>1, <1>2, <1>3, <1>5, <1>6, <1>7, <1>8 DEF ShotInv

LEMMA CardGoneInv == ASSUME ShotInv, CardGone PROVE ShotInv'
<1> USE DEF CardGone, loop, volumes, file, Fails
<1>1. ShotTypeOK'  BY DEF ShotInv, ShotTypeOK
<1>2. TurnOK' /\ GoodOK'  BY DEF ShotInv, TurnOK, GoodOK
<1>3. LinksOK'  BY DEF ShotInv, LinksOK
<1>4. FileOK'  BY DEF ShotInv, FileOK
<1>5. (FileHasItsVolume /\ GoodShotSaves)'
  BY DEF ShotInv, FileHasItsVolume, GoodShotSaves, NameFits
<1>6. CountTellsFile'  BY DEF ShotInv, CountTellsFile, Picture
<1> QED  BY <1>1, <1>2, <1>3, <1>4, <1>5, <1>6 DEF ShotInv

\* A step that changes nothing.
LEMMA StutterInv == ASSUME ShotInv, UNCHANGED vars PROVE ShotInv'
<1> USE DEF vars, loop, volumes, file
<1>1. ShotTypeOK'  BY DEF ShotInv, ShotTypeOK
<1>2. TurnOK' /\ GoodOK'  BY DEF ShotInv, TurnOK, GoodOK
<1>3. LinksOK'  BY DEF ShotInv, LinksOK
<1>4. FileOK'  BY DEF ShotInv, FileOK, Whole
<1>5. FileHasItsVolume'  BY DEF ShotInv, FileHasItsVolume
<1>6. CountTellsFile' /\ GoodShotSaves'
  BY DEF ShotInv, CountTellsFile, GoodShotSaves, NameFits, Picture
<1> QED  BY <1>1, <1>2, <1>3, <1>4, <1>5, <1>6 DEF ShotInv

-----------------------------------------------------------------------------
(* The theorems.                                                            *)

\* The invariant of the screenshots is inductive, whatever fails and whether the name
\* fits or not.
THEOREM ShotInvariant == Spec => []ShotInv
<1>1. ShotInv /\ NothingSaved /\ [Next]_vars => ShotInv'
  BY PollInv, RestInv, InitCardInv, LinkInv, GetFreeInv, PrepareInv, OpenInv, WriteInv,
     CloseInv, CardGoneInv, StutterInv DEF Next, Machine
<1> QED  BY <1>1, InitInv, LongNameSavesNothing, PTL DEF Spec

\* The machine stays in the states of its switch, and the count of drivers in the values
\* that FATFS_LinkDriver can leave, for every picture, room and number of presses.
THEOREM ShotIsTyped == Spec => []ShotTypeOK
<1>1. ShotInv => ShotTypeOK  BY DEF ShotInv
<1> QED  BY <1>1, ShotInvariant, PTL

\* sdcard.c:61 and :82: each screenshot mounts another volume number, but the file of
\* any of them is looked for on volume 0, with its drive initialised.
THEOREM FileOnVolume == Spec => []FileHasItsVolume
<1>1. ShotInv => FileHasItsVolume  BY DEF ShotInv
<1> QED  BY <1>1, ShotInvariant, PTL

\* sdcard.c:116, for a name that fits: whatever writes and closes fail, whose results
\* nobody reads, the file has the bytes announced or none, and is the picture if none
\* was lost.
THEOREM CountIsTrue == Spec => []CountTellsFile
<1>1. ShotInv => CountTellsFile  BY DEF ShotInv
<1> QED  BY <1>1, ShotInvariant, PTL

\* The machine of sdcard.c forgets the failures of the screenshots before, while the
\* drivers are counted right: one without a failure of its own saves the whole picture,
\* if its name fits, or saves nothing and says so.
THEOREM GoodShotIsSaved == Spec => []GoodShotSaves
<1>1. ShotInv => GoodShotSaves  BY DEF ShotInv
<1> QED  BY <1>1, ShotInvariant, PTL
=============================================================================
