---------------------------- MODULE SdScreenshot ----------------------------
(***************************************************************************)
(* The screenshot: the button BMP, the state machine main() runs once per  *)
(* turn of its loop, the table of drivers FatFs reaches the card through,  *)
(* and the file.                                                           *)
(*                                                                         *)
(* The file is a sequence of chunks, of which the first is the header; a   *)
(* chunk stands for writes that are all kept or all lost.  Whatever FatFs  *)
(* asks of the card may fail with CardErrors; SdTransfer shows how.        *)
(*                                                                         *)
(* FatFs is built without long names: of the name of a file, only 8        *)
(* letters may stand before the dot.  The program's "scope_screen.bmp" has *)
(* 12, so that no file is ever opened; the machine is modelled for it and  *)
(* for names that fit.                                                     *)
(***************************************************************************)
EXTENDS Integers, Sequences

CONSTANTS Bodies,       \* letters before the dot that the name may have
          CardErrors,   \* may the card fail, or be taken away?
          Chunks,       \* chunks of a whole picture
          Rooms,        \* how many of them the card may have room for
          DriverByte,   \* the low byte of the address of SD_Driver
          MaxPresses    \* bound on the presses of BMP

ASSUME ShotAssumption ==
  /\ Bodies \subseteq Nat \ {0} /\ CardErrors \in BOOLEAN /\ Chunks \in Nat \ {0} /\ Rooms \subseteq 0..Chunks
  /\ DriverByte \in 4..252 /\ MaxPresses \in Nat

VOLUMES == 2
Volume  == 0..VOLUMES - 1

VARIABLES
  turn, down,            \* the part of main()'s loop; changed, as main() saw it
  status, text,          \* the state of the machine, and what the screen says
  nbr, initialized,      \* disk
  registered, fsType,    \* FatFs[] # 0; SDFatFs.fs_type # 0
  ready,                 \* the last BSP_SD_Init succeeded, with this card
  pos, buf, err, total,  \* the file being written: FIL, and the bytes counted
  entry,                 \* the file as the card's directory has it
  room,                  \* the chunks the card has room for
  presses, fault,        \* bound; history: something failed since the press
  body                   \* letters before the dot in the name of the file

loop    == <<turn, down, presses, body>>
volumes == <<nbr, initialized, registered, fsType>>
file    == <<pos, buf, err, total, room>>
vars    == <<loop, status, text, volumes, ready, file, entry, fault>>

States  == {"INIT", "MOUNT", "PREPARE_WRITE", "WRITE_TEST_FILE",
            "END_WITH_ERROR", "IDLE"}
Texts   == {"PressBMP", "initialized", "FailInitialized", "NotMounted",
            "mounted", "wait", "FileOk", "wrote", "FailOpen"}
Picture == [k \in 1..Chunks |-> k]

Init ==
  /\ turn = "poll" /\ down = TRUE /\ presses = 0
  /\ status = "IDLE" /\ text = "PressBMP"
  /\ nbr = 0 /\ initialized = [v \in Volume |-> FALSE]
  /\ registered = [v \in Volume |-> FALSE] /\ fsType = FALSE /\ ready = FALSE
  /\ pos = 0 /\ buf = <<>> /\ err = FALSE /\ total = 0
  /\ room \in Rooms /\ entry = <<>> /\ fault = FALSE
  /\ body \in Bodies

-----------------------------------------------------------------------------
(* The poll of the panel.                                                   *)

\* The finger lands on BMP: the machine starts again, wherever it was.
PressBmp ==
  /\ turn = "poll" /\ ~down /\ presses < MaxPresses
  /\ turn' = "machine" /\ down' = TRUE /\ presses' = presses + 1
  /\ status' = "INIT" /\ fault' = FALSE
  /\ UNCHANGED <<text, volumes, ready, file, entry, body>>

\* Nothing changes, or it lands elsewhere, or it leaves.
PollOther ==
  /\ turn = "poll" /\ turn' = "machine"
  /\ down' \in BOOLEAN
  /\ UNCHANGED <<presses, status, text, volumes, ready, file, entry, fault, body>>

Poll == PressBmp \/ PollOther

-----------------------------------------------------------------------------
(* What FatFs does, as far as the machine can tell.                         *)

\* A failure of the card, which only CardErrors allows.
Fails == CardErrors /\ fault' = TRUE

\* find_volume on a path without a drive: volume 0.  A volume that is mounted
\* is asked for its status; any other, or one that does not answer, is mounted
\* again.  disk_initialize calls the driver, and BSP_SD_Init, the first time
\* only: it remembers the drive as initialized even if that failed.
Found ==
  /\ registered[0] /\ (initialized[0] => ready)
  /\ fsType' = TRUE /\ ready' = TRUE
  /\ initialized' = [initialized EXCEPT ![0] = TRUE]

NotFound ==
  /\ fsType' = FALSE
  /\ initialized' = [initialized EXCEPT ![0] = @ \/ registered[0]]
  /\ IF registered[0] /\ ~initialized[0] THEN ready' \in BOOLEAN ELSE ready' = ready
  /\ IF registered[0] /\ (initialized[0] => ready) THEN Fails ELSE UNCHANGED fault

\* FATFS_LinkDriver, with n drivers linked before: does it accept one more, and
\* which number does the path get?  With n = _VOLUMES the store to disk.drv[n]
\* falls on disk.nbr, which is then read again for the path.
\* Bug: the number of drivers is not tested.
Links_Always(n) == n <= 255

Links(n) == n <= VOLUMES
PathNumber(n) == IF n = VOLUMES THEN DriverByte ELSE n

-----------------------------------------------------------------------------
(* The machine: one step a turn, but for MOUNT and WRITE_TEST_FILE, which   *)
(* are cut where the card is asked for something.                           *)

At(s, p) == turn = "machine" /\ status = s /\ pos = p
Turn     == turn' = "poll" /\ pos' = 0 /\ UNCHANGED <<down, presses, body>>
Same     == UNCHANGED <<turn, down, presses, body>>

\* IDLE and END_WITH_ERROR do nothing.
Rest ==
  /\ At("IDLE", 0) \/ At("END_WITH_ERROR", 0)
  /\ Turn
  /\ UNCHANGED <<status, text, volumes, ready, buf, err, total, room, entry, fault>>

\* Bug: the card of the last screenshot is taken for granted.
MachineInit_Granted ==
  /\ At("INIT", 0) /\ Turn
  /\ status' = "MOUNT" /\ text' = "initialized"
  /\ UNCHANGED <<volumes, ready, buf, err, total, room, entry, fault>>

\* BSP_SD_Init.
MachineInit ==
  /\ At("INIT", 0) /\ Turn
  /\ \/ /\ ready' = TRUE /\ status' = "MOUNT" /\ text' = "initialized"
        /\ UNCHANGED fault
     \/ /\ ready' = FALSE /\ status' = "END_WITH_ERROR"
        /\ text' = "FailInitialized" /\ Fails
  /\ UNCHANGED <<volumes, buf, err, total, room, entry>>

\* FATFS_LinkDriver and f_mount, which registers SDFatFs for one more volume
\* and forgets what it knew of the card, or refuses the number of the path.
MachineLink ==
  /\ At("MOUNT", 0)
  /\ IF ~Links(nbr)
     THEN /\ text' = "NotMounted" /\ status' = "END_WITH_ERROR" /\ Turn
          /\ UNCHANGED volumes
     ELSE /\ nbr' = (PathNumber(nbr) + 1) % 256 /\ UNCHANGED text
          /\ IF PathNumber(nbr) \in Volume
             THEN /\ Same /\ pos' = 1 /\ UNCHANGED status
                  /\ initialized' = [initialized EXCEPT ![nbr] = FALSE]
                  /\ registered' = [registered EXCEPT ![nbr] = TRUE]
                  /\ fsType' = FALSE
             ELSE /\ Turn /\ status' = "END_WITH_ERROR"
                  /\ UNCHANGED <<initialized, registered, fsType>>
  /\ UNCHANGED <<ready, buf, err, total, room, entry, fault>>

\* Bug: the result of f_getfree is not tested.
MachineGetFree_Unchecked ==
  /\ At("MOUNT", 1) /\ Turn
  /\ (Found /\ UNCHANGED fault) \/ NotFound
  /\ status' = "PREPARE_WRITE" /\ text' = "mounted"
  /\ UNCHANGED <<nbr, registered, buf, err, total, room, entry>>

\* f_getfree: find_volume, and a count of the free clusters.
MachineGetFree ==
  /\ At("MOUNT", 1) /\ Turn
  /\ \/ /\ Found /\ UNCHANGED fault
        /\ status' = "PREPARE_WRITE" /\ text' = "mounted"
     \/ /\ NotFound \/ (Found /\ Fails)
        /\ status' = "END_WITH_ERROR" /\ UNCHANGED text
  /\ UNCHANGED <<nbr, registered, buf, err, total, room, entry>>

\* Bug: the machine stays where it is.
MachinePrepare_Stays ==
  /\ At("PREPARE_WRITE", 0) /\ Turn
  /\ text' = "wait"
  /\ UNCHANGED <<status, volumes, ready, buf, err, total, room, entry, fault>>

MachinePrepare ==
  /\ At("PREPARE_WRITE", 0) /\ Turn
  /\ status' = "WRITE_TEST_FILE" /\ text' = "wait"
  /\ UNCHANGED <<volumes, ready, buf, err, total, room, entry, fault>>

\* create_name, without long names: the ninth letter is refused.
NameFits == body <= 8

\* f_open returns an error: the machine says so and is done.
OpenFails ==
  /\ Turn /\ text' = "FailOpen" /\ status' = "IDLE"
  /\ UNCHANGED <<buf, err, total, room>>

\* f_open finds the volume, then makes the name; a name that is refused ends it
\* before the card is asked for the directory.  With another it empties the file,
\* if it gets that far.
MachineOpen ==
  /\ At("WRITE_TEST_FILE", 0)
  /\ \/ /\ Found /\ NameFits /\ Same /\ pos' = 1 /\ entry' = <<>> /\ text' = "FileOk"
        /\ buf' = <<>> /\ err' = FALSE /\ total' = 0 /\ room' \in Rooms
        /\ UNCHANGED <<status, fault>>
     \/ Found /\ ~NameFits /\ OpenFails /\ UNCHANGED <<entry, fault>>
     \/ NotFound /\ OpenFails /\ UNCHANGED entry
     \/ Found /\ NameFits /\ OpenFails /\ Fails /\ entry' \in {entry, <<>>}
  /\ UNCHANGED <<nbr, registered>>

\* Bug: the bytes asked for are counted, not those written.
MachineWrite_CountsAsked ==
  /\ turn = "machine" /\ pos \in 1..Chunks /\ status = "WRITE_TEST_FILE"
  /\ Same /\ pos' = pos + 1 /\ total' = total + 1
  /\ \/ /\ ~err /\ ready /\ Len(buf) < room
        /\ buf' = Append(buf, pos) /\ UNCHANGED <<err, fault>>
     \/ /\ Fails /\ err' \in {err, TRUE} /\ UNCHANGED buf
  /\ UNCHANGED <<status, text, volumes, ready, room, entry>>

\* f_write, whose result is not read; a write that fails adds nothing to total.
\* A disk error marks the file; a card that did not answer, or is full, does not.
MachineWrite ==
  /\ turn = "machine" /\ pos \in 1..Chunks /\ status = "WRITE_TEST_FILE"
  /\ Same /\ pos' = pos + 1
  /\ \/ /\ ~err /\ ready /\ Len(buf) < room
        /\ buf' = Append(buf, pos) /\ total' = total + 1
        /\ UNCHANGED <<err, fault>>
     \/ /\ err \/ ~ready \/ Len(buf) = room
        /\ fault' = TRUE /\ UNCHANGED <<err, buf, total>>
     \/ /\ Fails /\ err' \in {err, TRUE} /\ UNCHANGED <<buf, total>>
  /\ UNCHANGED <<status, text, volumes, ready, room, entry>>

\* f_close, whose result is not read, writes the last sector and the entry.
MachineClose ==
  /\ At("WRITE_TEST_FILE", Chunks + 1) /\ Turn
  /\ status' = "IDLE" /\ text' = "wrote"
  /\ \/ /\ ready /\ entry' = buf /\ UNCHANGED fault
     \/ /\ ready /\ Fails /\ entry' \in {entry, buf}
     \/ /\ ~ready /\ UNCHANGED <<entry, fault>>
  /\ UNCHANGED <<volumes, ready, buf, err, total, room>>

Machine == \/ Rest \/ MachineInit \/ MachineLink \/ MachineGetFree
           \/ MachinePrepare \/ MachineOpen \/ MachineWrite \/ MachineClose

\* The card is taken out, or stops answering until BSP_SD_Init.
CardGone ==
  /\ ready /\ Fails /\ ready' = FALSE
  /\ UNCHANGED <<loop, status, text, volumes, file, entry>>

Next == Poll \/ Machine \/ CardGone

Spec == Init /\ [][Next]_vars

\* The loop turns; nothing makes the user press, or the card fail.
FairSpec == Spec /\ WF_vars(Poll) /\ WF_vars(Machine)

-----------------------------------------------------------------------------
(* Properties.                                                              *)

\* The machine is in a state of its switch, and the count of drivers is one
\* that FATFS_LinkDriver can leave.
ShotTypeOK ==
  /\ turn \in {"poll", "machine"} /\ down \in BOOLEAN
  /\ status \in States /\ text \in Texts
  /\ nbr \in 0..VOLUMES \cup {DriverByte + 1}
  /\ initialized \in [Volume -> BOOLEAN] /\ registered \in [Volume -> BOOLEAN]
  /\ fsType \in BOOLEAN /\ ready \in BOOLEAN /\ err \in BOOLEAN
  /\ pos \in 0..Chunks + 1 /\ total \in 0..Chunks /\ room \in Rooms
  /\ presses \in 0..MaxPresses /\ fault \in BOOLEAN /\ body \in Bodies

\* sdcard.c:116, "Data wrote", for a name that fits: nobody reads the results of
\* f_write and f_close, but whatever fails, the file on the card has the bytes
\* announced or none at all, and if they are as many as the picture has, it is the
\* picture.
CountTellsFile ==
  status = "IDLE" /\ text = "wrote" =>
    \/ entry = <<>>
    \/ Len(entry) = total /\ (total = Chunks => entry = Picture)

\* Each screenshot links one more volume, but the file is always on volume 0:
\* it is mounted, with an initialized drive, whenever the file is to be opened.
FileHasItsVolume ==
  status \in {"PREPARE_WRITE", "WRITE_TEST_FILE"} =>
    registered[0] /\ initialized[0] /\ fsType

\* What failed before is forgotten by the next press: without a fault since, the first
\* two screenshots end with the whole picture on the card, as sdcard.c:81 says, if the
\* name fits; and with one that does not, as the program's, with nothing there and the
\* words "FAIL to open Testfile" (sdcard.c:119).
GoodShotSaves ==
  ~fault /\ nbr <= VOLUMES =>
    /\ status # "END_WITH_ERROR"
    /\ status = "IDLE" /\ presses > 0 =>
         IF NameFits THEN entry = Picture ELSE entry = <<>> /\ text = "FailOpen"

\* Each press ends in IDLE or END_WITH_ERROR, once the user stops pressing.
ShotEnds == [](status = "INIT" => <>(status \in {"IDLE", "END_WITH_ERROR"}))

\* ff_gen_drv.c:40: FATFS_LinkDriver "increments the number of active linked
\* drivers".
LinkCounts == [][nbr' # nbr => nbr' = nbr + 1]_vars
=============================================================================
