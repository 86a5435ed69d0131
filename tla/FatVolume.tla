------------------------------ MODULE FatVolume ------------------------------
(***************************************************************************)
(* FatFs on the card, under the calls of a screenshot: f_getfree, which    *)
(* mounts the volume, f_open, f_write for each pixel, and f_close.  The    *)
(* name a file is opened with may be refused: that is how f_open ends with *)
(* the name of the program, and what follows Open is FatFs with one that   *)
(* fits.                                                                   *)
(*                                                                         *)
(* A step is what FatFs does between two accesses of the card.  Its        *)
(* functions see the FAT, the directory and FSINFO through one window:     *)
(* move_window is the actions Sync and Load, which run until the sector    *)
(* the next step looks at is in the window.  The power may be cut between  *)
(* any two steps, and with faulty any access of the card may fail: a       *)
(* sector that was being written is then the old one or the new one.       *)
(*                                                                         *)
(* A cluster is one sector, and holds two pieces of a file.  The header is *)
(* one piece and each other write is two, so that it crosses the end of a  *)
(* sector, as a pixel of 3 bytes may.  The root directory is one sector    *)
(* with an entry to spare; an entry that is not there is an empty one.     *)
(***************************************************************************)
EXTENDS Integers, Sequences, FiniteSets

CONSTANTS LastCluster,   \* n_fatent - 1
          Split,         \* the last cluster of the first sector of the FAT
          Lines,         \* the writes of a picture after its header
          Cards,         \* the cards there may be
          Bodies,        \* letters before the dot in the names f_open is given
          TornReads,     \* may a read that fails leave its data in the window?
          MaxPics,       \* bound on the screenshots
          MaxCuts        \* bound on the cuts of the power

ASSUME VolumeAssumption ==
  /\ LastCluster \in Nat /\ Split \in 2..LastCluster - 1
  /\ Lines \in Nat \ {0} /\ Bodies \subseteq Nat \ {0} /\ TornReads \in BOOLEAN
  /\ MaxPics \in Nat /\ MaxCuts \in Nat

Clusters == 2..LastCluster
EOC      == LastCluster + 1       \* 0x0FFFFFFF
Unknown  == -1                    \* 0xFFFFFFFF
Names    == {"ours", "other"}
FatSectors == <<"fat1", "fat2">>
FatOf(c) == IF c <= Split THEN "fat1" ELSE "fat2"
Piece    == 1..2

\* A card, what is on it, the clusters of the other files and, of the two files whose
\* entries the directory has here, the clusters in order.  The other files keep their
\* clusters to themselves: these are in use, and no other chain leads into them.
ASSUME CardAssumption ==
  \A c \in Cards :
    /\ c.card \in [boot : {"FAT16", "FAT32"},
                   fsinfo : [free : Nat \cup {Unknown}, next : Nat \cup {Unknown}],
                   dir : [Names -> [size : Nat, clust : Clusters \cup {0}]],
                   fat1 : [2..Split -> Nat], fat2 : [Split + 1..LastCluster -> Nat]]
    /\ c.others \subseteq Clusters /\ DOMAIN c.data = Clusters
    /\ c.card.dir["ours"].clust \notin c.others
    /\ \A cl \in Clusters : LET nxt == c.card[FatOf(cl)][cl]
                            IN  /\ nxt \in Clusters \cup {0, EOC}
                                /\ nxt = 0 => cl \notin c.others
                                /\ nxt \in c.others => cl \in c.others

\* The FAT of a card, by cluster.
FatOn(k) == [c \in Clusters |-> k[FatOf(c)][c]]

\* A chain of a FAT: it starts at head, ends with a mark and meets no cluster twice.
Chained(fat, head, s) ==
  /\ s \in Seq(Clusters)
  /\ \A i, j \in DOMAIN s : s[i] = s[j] => i = j
  /\ \A i \in 1..Len(s) - 1 : fat[s[i]] = s[i + 1]
  /\ IF s = <<>> THEN head = 0 ELSE head = s[1] /\ fat[s[Len(s)]] = EOC

ClustersIn(s) == {s[i] : i \in DOMAIN s}

\* ff.h:128: the first cluster is "always 0 when fsize is 0".
Fits(entry, s) == entry.size <= 2 * Len(s) /\ (entry.size = 0 <=> entry.clust = 0)

\* Both files can be read; there may be clusters in use that no file has.
ASSUME FilesAssumption ==
  \A c \in Cards :
    /\ \A name \in Names : /\ Chained(FatOn(c.card), c.card.dir[name].clust, c.chain[name])
                           /\ Fits(c.card.dir[name], c.chain[name])
    /\ ClustersIn(c.chain["ours"]) \cap c.others = {}
    /\ ClustersIn(c.chain["other"]) \subseteq c.others

\* On tidy cards no cluster was lost before, and FSINFO tells how many are free, if it
\* tells.  Only NothingLeaks and FreeTells are about these.
Tidy(c) ==
  LET free == {cl \in Clusters : FatOn(c.card)[cl] = 0}
  IN  /\ Clusters \ free = ClustersIn(c.chain["ours"]) \cup c.others
      /\ c.others = ClustersIn(c.chain["other"])
      /\ c.card.fsinfo.free \in {Unknown, Cardinality(free)}

TidyCards == \A c \in Cards : Tidy(c)

VARIABLES
  card,               \* the sectors of the card but those of the files
  data,               \* the sectors of the files, by cluster
  win, fs, fil,       \* fs->win with its number and flag; the rest of FATFS; FIL
  pc, clst, scl, n,   \* where FatFs is, and its local variables
  line, btw,          \* the write under way, and the pieces left of it
  pic, cuts,          \* screenshots asked for, cuts of the power
  faulty, others,     \* does the card fail? the clusters of other files
  lost                \* history: a call of this screenshot did not succeed

memory == <<win, fs, fil>>
local  == <<pc, clst, scl, n, line, btw>>
media  == <<card, data>>
world  == <<pic, cuts, faulty, others>>
vars   == <<media, memory, local, world, lost>>

\* A directory entry, and what the FAT says of each cluster.
NoEntry == [size |-> 0, clust |-> 0]
Fat     == FatOn(card)

Window(s, v, d) == [sect |-> s, val |-> v, dirty |-> d]
NoWindow == Window("none", "none", FALSE)
NoVolume == [type |-> "none", fsi |-> "disabled", last |-> Unknown, free |-> Unknown]

\* FIL, when f_open returns.
Opened(e) == [sclust |-> e.clust, clust |-> 0, fsize |-> e.size, fptr |-> 0, dsect |-> 0,
              buf |-> [p \in Piece |-> <<0, 0>>], dirty |-> FALSE, err |-> FALSE]
NoFile    == Opened(NoEntry)

Init ==
  /\ \E c \in Cards : card = c.card /\ data = c.data /\ others = c.others
  /\ win = NoWindow /\ fs = NoVolume /\ fil = NoFile
  /\ pc = "idle" /\ clst = 0 /\ scl = 0 /\ n = 0 /\ line = 0 /\ btw = 0
  /\ pic = 0 /\ cuts = 0 /\ faulty \in BOOLEAN /\ lost = FALSE

-----------------------------------------------------------------------------
(* The window.                                                              *)

\* The sector the next step looks at.
Need ==
  CASE pc = "count" -> FatSectors[clst]
    [] pc \in {"find", "reopen", "entry"} -> "dir"
    [] pc \in {"remove", "search"} -> FatOf(clst)
    [] pc \in {"stretch", "link"} -> FatOf(fil.clust)
    [] OTHER -> win.sect

At(label) == pc = label /\ win.sect = Need

Put(x, y) == win' = Window(win.sect, [win.val EXCEPT ![x] = y], TRUE)

\* fsi_flag |= 1.
Touched(fsi) == IF fsi = "clean" THEN "dirty" ELSE fsi

InWrite == {"write", "stretch", "search", "link", "flush", "copy"}

\* The last call is over: what was local to it is gone, and FIL is not used again.
Done == /\ pc' = "idle" /\ clst' = 0 /\ scl' = 0 /\ n' = 0 /\ line' = 0 /\ btw' = 0
        /\ fil' = NoFile

\* f_write returns; the program goes on with the next write.
WriteReturns(f) ==
  /\ fil' = f /\ pc' = "write" /\ line' = line + 1 /\ btw' = 0
  /\ clst' = 0 /\ scl' = 0 /\ UNCHANGED n

\* How each call ends when the card fails: f_getfree keeps what it has counted,
\* f_write marks the file, and the program does not look.
Fail ==
  /\ faulty /\ lost' = TRUE
  /\ fs' = IF pc = "count" THEN [fs EXCEPT !.free = n, !.fsi = Touched(@)] ELSE fs
  /\ IF pc \in InWrite
     THEN WriteReturns([fil EXCEPT !.err = TRUE])
     ELSE Done

Proceed == UNCHANGED <<local, fs, fil, lost>>

\* Bug: the window is clean even if it could not be written.
Sync_Forgets ==
  /\ win.dirty /\ (win.sect # Need \/ pc = "sync")
  /\ win' = Window(win.sect, win.val, FALSE)
  /\ \/ card' = [card EXCEPT ![win.sect] = win.val] /\ Proceed
     \/ card' \in {card, [card EXCEPT ![win.sect] = win.val]} /\ Fail
  /\ UNCHANGED <<data, world>>

\* sync_window.
Sync ==
  /\ win.dirty /\ (win.sect # Need \/ pc = "sync")
  /\ \/ /\ card' = [card EXCEPT ![win.sect] = win.val]
        /\ win' = Window(win.sect, win.val, FALSE) /\ Proceed
     \/ /\ card' \in {card, [card EXCEPT ![win.sect] = win.val]}
        /\ UNCHANGED win /\ Fail
  /\ UNCHANGED <<data, world>>

\* The rest of move_window.
Load ==
  /\ ~win.dirty /\ win.sect # Need
  /\ \/ win' = Window(Need, card[Need], FALSE) /\ Proceed
     \/ /\ \/ UNCHANGED win
           \/ TornReads /\ win' = Window(win.sect, card[Need], FALSE)
        /\ Fail
  /\ UNCHANGED <<media, world>>

-----------------------------------------------------------------------------
(* f_mount and f_getfree.                                                   *)

\* f_mount forgets the volume; the calls that follow are f_getfree's.
Press ==
  /\ pc = "idle" /\ pic < MaxPics
  /\ pic' = pic + 1 /\ pc' = "mount" /\ lost' = FALSE
  /\ fs' = NoVolume
  /\ UNCHANGED <<media, win, fil, clst, scl, n, line, btw, cuts, faulty, others>>

\* find_volume, for a volume that is not mounted: the boot sector, and FSINFO if
\* it is a FAT32 one and can be read.  The window is invalidated first.
Mounted ==
  \/ /\ card.boot = "FAT32"
     /\ win' = Window("fsinfo", card.fsinfo, FALSE)
     /\ fs' = [type |-> "FAT32", fsi |-> "clean",
               last |-> card.fsinfo.next, free |-> card.fsinfo.free]
  \/ /\ card.boot = "FAT16" \/ faulty
     /\ win' = Window("boot", card.boot, FALSE)
     /\ fs' = [NoVolume EXCEPT !.type = card.boot]

NotMounted == faulty /\ win' = NoWindow /\ fs' = NoVolume /\ lost' = TRUE /\ Done

\* f_getfree counts the free clusters unless FSINFO has told their number.
Mount ==
  /\ pc = "mount"
  /\ \/ /\ Mounted
        /\ IF fs'.free \in 0..LastCluster - 1
           THEN pc' = "open" /\ UNCHANGED clst
           ELSE pc' = "count" /\ clst' = 1
        /\ UNCHANGED <<fil, scl, n, line, btw, lost>>
     \/ NotMounted
  /\ UNCHANGED <<media, world>>

\* One sector of the FAT.
Count ==
  /\ At("count")
  /\ LET found == n + Cardinality({c \in DOMAIN win.val : win.val[c] = 0})
     IN  IF clst < Len(FatSectors)
         THEN clst' = clst + 1 /\ n' = found /\ UNCHANGED <<pc, fs>>
         ELSE /\ pc' = "open" /\ clst' = 0 /\ n' = 0
              /\ fs' = [fs EXCEPT !.free = found, !.fsi = Touched(@)]
  /\ UNCHANGED <<media, win, fil, scl, line, btw, world, lost>>

-----------------------------------------------------------------------------
(* f_open with FA_CREATE_ALWAYS.                                            *)

\* create_name, without long names: the ninth letter is refused.
Fitting(body) == body <= 8

\* find_volume again: a volume whose drive does not answer is mounted once more.
\* Then the name is made, before the directory is looked at.
Open ==
  /\ pc = "open"
  /\ \/ /\ UNCHANGED <<win, fs>> \/ (faulty /\ Mounted)
        /\ \E body \in Bodies : Fitting(body)
        /\ pc' = "find" /\ UNCHANGED <<fil, clst, scl, n, line, btw, lost>>
     \/ NotMounted
  /\ UNCHANGED <<media, world>>

\* FR_INVALID_NAME.
Refuse ==
  /\ pc = "open"
  /\ UNCHANGED <<win, fs>> \/ (faulty /\ Mounted)
  /\ \E body \in Bodies : ~Fitting(body)
  /\ lost' = TRUE /\ Done
  /\ UNCHANGED <<media, world>>

\* Bug: a file that exists is opened as it is.
Find_Opens ==
  /\ At("find")
  /\ pc' = "reopen"
  /\ UNCHANGED <<media, memory, clst, scl, n, line, btw, world, lost>>

\* Bug: the entry keeps its chain while it is freed.
Find_KeepsChain ==
  /\ At("find")
  /\ Put("ours", [win.val["ours"] EXCEPT !.size = 0])
  /\ clst' = win.val["ours"].clust /\ scl' = clst'
  /\ pc' = (IF clst' = 0 THEN "reopen" ELSE "remove")
  /\ UNCHANGED <<media, fs, fil, n, line, btw, world, lost>>

\* dir_find, or dir_register, and the truncation of the entry.  scl keeps the
\* chain to remove.
Find ==
  /\ At("find")
  /\ Put("ours", [size |-> 0, clust |-> 0])
  /\ clst' = win.val["ours"].clust /\ scl' = clst'
  /\ pc' = (IF clst' = 0 THEN "reopen" ELSE "remove")
  /\ UNCHANGED <<media, fs, fil, n, line, btw, world, lost>>

\* Bug: the clusters of the old file are not counted.
Freed_Uncounted(f) == f

\* Bug: a number that is not known is counted down, too.
Taken_Always(f, c) == [f EXCEPT !.last = c, !.free = @ - 1, !.fsi = Touched(@)]

\* FSINFO is to be written only if the number of free clusters is known.
Freed(f)    == IF f.free = Unknown THEN f
               ELSE [f EXCEPT !.free = @ + 1, !.fsi = Touched(@)]
Taken(f, c) == IF f.free = Unknown THEN [f EXCEPT !.last = c]
               ELSE [f EXCEPT !.last = c, !.free = @ - 1, !.fsi = Touched(@)]

\* Bug: the last cluster of the chain is not freed.
Remove_KeepsLast ==
  /\ At("remove")
  /\ LET nxt == win.val[clst]
     IN  IF nxt \in Clusters
         THEN Put(clst, 0) /\ clst' = nxt /\ fs' = Freed(fs) /\ UNCHANGED pc
         ELSE /\ pc' = "reopen" /\ UNCHANGED <<win, clst>>
              /\ fs' = [fs EXCEPT !.last = scl - 1]
  /\ UNCHANGED <<media, fil, scl, n, line, btw, world, lost>>

\* A turn of the loop of remove_chain, which also ends on a free cluster; then
\* the search for a cluster is to start in the hole.
Remove ==
  /\ At("remove")
  /\ LET nxt == win.val[clst]
     IN  /\ IF nxt = 0 THEN UNCHANGED win ELSE Put(clst, 0)
         /\ IF nxt \in Clusters
            THEN /\ clst' = nxt /\ fs' = Freed(fs) /\ UNCHANGED pc
            ELSE /\ pc' = "reopen" /\ UNCHANGED clst
                 /\ fs' = [(IF nxt = 0 THEN fs ELSE Freed(fs)) EXCEPT !.last = scl - 1]
  /\ UNCHANGED <<media, fil, scl, n, line, btw, world, lost>>

\* The window is moved back to the directory, and FIL is made.
Reopen ==
  /\ At("reopen")
  /\ fil' = Opened(win.val["ours"])
  /\ pc' = "write" /\ clst' = 0 /\ scl' = 0
  /\ UNCHANGED <<media, win, fs, n, line, btw, world, lost>>

-----------------------------------------------------------------------------
(* f_write, once for the header and once for each line; f_close ends it.    *)

\* The first piece of a write, and how many it has.
FirstOf(l)  == IF l = 0 THEN 1 ELSE 2 * l
LengthOf(l) == IF l = 0 THEN 1 ELSE 2

\* create_chain starts a chain after the cluster that was allocated last, as far
\* as that is known.
Hint == IF fs.last \in Clusters \cup {1} THEN fs.last ELSE 1

\* Bug: the search stays at the end of the FAT.
After_Stays(c) == IF c + 1 > LastCluster THEN LastCluster ELSE c + 1

\* Bug: the search ends with the FAT.
Over_AtEnd(c) == c = LastCluster

\* The next cluster of the search, and whether that search is over.
After(c) == IF c + 1 > LastCluster THEN 2 ELSE c + 1
Over(c)  == c = scl \/ (c = LastCluster /\ scl = 1)

\* Where a turn of the loop of f_write begins: inside a sector, or with a cluster
\* for the first piece of one.
Turn(f) ==
  IF f.fptr % 2 # 0 THEN pc' = "copy" /\ UNCHANGED <<clst, scl>>
  ELSE IF f.fptr # 0 THEN pc' = "stretch" /\ UNCHANGED <<clst, scl>>
  ELSE pc' = "search" /\ scl' = Hint /\ clst' = After(Hint)

\* validate and the sticky error; a drive that does not answer is not remembered.
Write ==
  /\ pc = "write" /\ line <= Lines
  /\ \/ /\ ~fil.err /\ btw' = LengthOf(line) /\ Turn(fil)
        /\ UNCHANGED <<fil, line, n, lost>>
     \/ /\ fil.err \/ faulty
        /\ lost' = TRUE /\ WriteReturns(fil)
  /\ UNCHANGED <<media, win, fs, world>>

\* The end of f_write, after all it was asked for or on a full card.
EndOfWrite(f) ==
  WriteReturns([f EXCEPT !.fsize = IF f.fptr > @ THEN f.fptr ELSE @])

\* create_chain on a chain, which ends here: it was empty when f_open returned.
Stretch ==
  /\ At("stretch") /\ win.val[fil.clust] = EOC
  /\ scl' = fil.clust /\ clst' = After(fil.clust) /\ pc' = "search"
  /\ UNCHANGED <<media, memory, n, line, btw, world, lost>>

\* The buffer is written before it gets the first piece of the next sector.
Allocated(c) ==
  /\ fs' = Taken(fs, c)
  /\ fil' = [fil EXCEPT !.clust = c, !.sclust = IF @ = 0 THEN c ELSE @]
  /\ pc' = (IF fil.dirty THEN "flush" ELSE "copy") /\ clst' = 0 /\ scl' = 0

\* Bug: the cluster that follows is taken without a look at the FAT.
Search_Blind ==
  /\ At("search")
  /\ Put(clst, EOC)
  /\ IF fil.fptr = 0 THEN Allocated(clst)
     ELSE pc' = "link" /\ UNCHANGED <<fs, fil, clst, scl>>
  /\ UNCHANGED <<media, n, line, btw, world, lost>>

\* The search: a free cluster is marked as the last of a chain at once.
Search ==
  /\ At("search") /\ win.val[clst] = 0
  /\ Put(clst, EOC)
  /\ IF fil.fptr = 0 THEN Allocated(clst)
     ELSE pc' = "link" /\ UNCHANGED <<fs, fil, clst, scl>>
  /\ UNCHANGED <<media, n, line, btw, world, lost>>

SearchOn ==
  /\ At("search") /\ win.val[clst] # 0 /\ ~Over(clst)
  /\ clst' = After(clst)
  /\ UNCHANGED <<media, memory, pc, scl, n, line, btw, world, lost>>

\* No free cluster: f_write keeps what it has put, and succeeds.
CardFull ==
  /\ At("search") /\ win.val[clst] # 0 /\ Over(clst)
  /\ EndOfWrite(fil) /\ lost' = TRUE
  /\ UNCHANGED <<media, win, fs, world>>

Link ==
  /\ At("link")
  /\ Put(fil.clust, clst) /\ Allocated(clst)
  /\ UNCHANGED <<media, n, line, btw, world, lost>>

WriteBuffer(next) ==
  /\ \/ /\ data' = [data EXCEPT ![fil.dsect] = fil.buf]
        /\ fil' = [fil EXCEPT !.dirty = FALSE]
        /\ pc' = next /\ UNCHANGED <<clst, scl, n, line, btw, fs, lost>>
     \/ /\ data' \in {data, [data EXCEPT ![fil.dsect] = fil.buf]} /\ Fail
  /\ UNCHANGED <<card, win, world>>

Flush == pc = "flush" /\ WriteBuffer("copy")

Copy ==
  /\ pc = "copy"
  /\ LET piece == FirstOf(line) + LengthOf(line) - btw
         f == [fil EXCEPT !.buf[(fil.fptr % 2) + 1] = <<pic, piece>>,
                          !.fptr = @ + 1, !.dirty = TRUE,
                          !.dsect = IF fil.fptr % 2 = 0 THEN fil.clust ELSE @]
     IN  IF btw = 1 THEN EndOfWrite(f)
         ELSE fil' = f /\ btw' = btw - 1 /\ Turn(f) /\ UNCHANGED <<line, n>>
  /\ UNCHANGED <<media, win, fs, world, lost>>

\* Bug: the last sector stays in the buffer.
Close_KeepsBuffer ==
  /\ pc = "write" /\ line > Lines /\ pc' = "entry"
  /\ UNCHANGED <<media, memory, clst, scl, n, line, btw, world, lost>>

\* f_sync: validate, and the buffer.
Close ==
  /\ pc = "write" /\ line > Lines
  /\ \/ /\ pc' = (IF fil.dirty THEN "last" ELSE "entry")
        /\ UNCHANGED <<fil, clst, scl, n, line, btw, lost>>
     \/ faulty /\ lost' = TRUE /\ Done
  /\ UNCHANGED <<media, win, fs, world>>

FlushLast == pc = "last" /\ WriteBuffer("entry")

\* The entry; move_window has written the FAT before.
Entry ==
  /\ At("entry")
  /\ Put("ours", [size |-> fil.fsize, clust |-> fil.sclust])
  /\ pc' = "sync"
  /\ UNCHANGED <<media, fs, fil, clst, scl, n, line, btw, world, lost>>

\* The rest of sync_fs: nobody looks whether FSINFO could be written.
SyncFs ==
  /\ pc = "sync" /\ ~win.dirty /\ Done
  /\ LET info == [free |-> fs.free, next |-> fs.last]
     IN  IF fs.type = "FAT32" /\ fs.fsi = "dirty"
         THEN /\ win' = Window("fsinfo", info, FALSE)
              /\ fs' = [fs EXCEPT !.fsi = "clean"]
              /\ \/ card' = [card EXCEPT !.fsinfo = info]
                 \/ faulty /\ UNCHANGED card
         ELSE UNCHANGED <<card, win, fs>>
  /\ UNCHANGED <<data, world, lost>>

-----------------------------------------------------------------------------

\* The power is cut; the card keeps what was written.
PowerCut ==
  /\ cuts < MaxCuts /\ cuts' = cuts + 1
  /\ win' = NoWindow /\ fs' = NoVolume /\ lost' = TRUE /\ Done
  /\ UNCHANGED <<media, pic, faulty, others>>

Step == \/ Sync \/ Load \/ Mount \/ Count
        \/ Open \/ Refuse \/ Find \/ Remove \/ Reopen
        \/ Write \/ Stretch \/ Search \/ SearchOn \/ CardFull \/ Link \/ Flush \/ Copy
        \/ Close \/ FlushLast \/ Entry \/ SyncFs

Next == Press \/ Step \/ PowerCut

Spec == Init /\ [][Next]_vars

\* FatFs runs to its end, in one turn of main()'s loop.
FairSpec == Spec /\ WF_vars(Step)

-----------------------------------------------------------------------------
(* What a reader finds on the card.                                         *)

FollowedBy(fat, c) == IF c \in Clusters THEN fat[c] ELSE EOC

\* The clusters from one on, in order, as long as the FAT has them.
ChainFrom(fat, head) ==
  LET at[i \in 0..LastCluster] == IF i = 0 THEN head ELSE FollowedBy(fat, at[i - 1])
      len == CHOOSE k \in 0..LastCluster :
               /\ \A i \in 0..k - 1 : at[i] \in Clusters
               /\ k = LastCluster \/ at[k] \notin Clusters
  IN  [i \in 1..len |-> at[i - 1]]

ChainOf(name) == ChainFrom(Fat, card.dir[name].clust)

FileOf(name) ==
  [k \in 1..card.dir[name].size |-> data[ChainOf(name)[(k + 1) \div 2]][2 - (k % 2)]]

ClustersOf(name) == {ChainOf(name)[i] : i \in DOMAIN ChainOf(name)}
Used             == {c \in Clusters : Fat[c] # 0}

\* The FAT as FatFs sees it.
Seen == [c \in Clusters |-> IF win.sect = FatOf(c) THEN win.val[c] ELSE Fat[c]]

Picture(p) == [k \in 1..1 + 2 * Lines |-> <<p, k>>]

Clean == ~faulty /\ cuts = 0

-----------------------------------------------------------------------------
(* Properties.                                                              *)

VolumeTypeOK ==
  /\ win.sect \in {"none", "boot", "fsinfo", "dir", "fat1", "fat2"}
  /\ win.dirty \in BOOLEAN
  /\ fs.type \in {"none", "FAT16", "FAT32"}
  /\ fs.fsi \in {"disabled", "clean", "dirty"}
  /\ fs.free \in Nat \cup {Unknown} /\ fs.last \in Nat \cup {Unknown}
  /\ fil.sclust \in Clusters \cup {0} /\ fil.clust \in Clusters \cup {0}
  /\ fil.fsize \in 0..1 + 2 * Lines /\ fil.fptr \in 0..1 + 2 * Lines
  /\ card.dir \in [Names -> [size : Nat, clust : Clusters \cup {0}]]
  /\ Fat \in [Clusters -> Clusters \cup {0, EOC}]
  /\ pc \in InWrite \cup {"idle", "mount", "count", "open", "find",
                         "remove", "reopen", "last", "entry", "sync"}

\* Of FatFs, whether it refuses the name (Refuse) or accepts it (Find and what follows):
\* whenever the power is cut or the card fails, a file is readable: its chain is
\* long enough for its size, ends with a mark and shares no cluster; an entry
\* without a size has no chain (ff.h:128: "always 0 when fsize is 0").
FilesReadable ==
  /\ \A name \in Names :
       /\ 2 * Len(ChainOf(name)) >= card.dir[name].size
       /\ card.dir[name].size = 0 <=> card.dir[name].clust = 0
       /\ Len(ChainOf(name)) < LastCluster
       /\ \A c \in ClustersOf(name) : Fat[c] # 0
  /\ ClustersOf("ours") \cap ClustersOf("other") = {}

\* A screenshot changes nothing of the other files, whatever fails: neither the
\* entry, nor a link of a chain, nor the data.
OtherIntact ==
  [][/\ card'.dir["other"] = card.dir["other"]
     /\ \A c \in others : Fat'[c] = Fat[c] /\ data'[c] = data[c]]_vars

\* f_write keeps a picture short only if no cluster is left: the search, which
\* starts at the hint of FSINFO or in the hole of the old file, meets them all.
FullIsFull == [][CardFull => \A c \in Clusters : Seen[c] # 0]_vars

\* Without a fault or a cut no cluster is lost: between two screenshots what is
\* allocated is in one of the files.
NothingLeaks == Clean /\ pc = "idle" =>
  /\ Used = ClustersOf("ours") \cup ClustersOf("other")
  /\ ~win.dirty

\* ff.h: "Number of free clusters", while there is a volume and it is known.
FreeTells == Clean /\ pc \notin {"idle", "mount", "link"} =>
  fs.free \in {Unknown, Cardinality({c \in Clusters : Seen[c] = 0})}

\* A screenshot whose calls all succeeded, f_open with a name that fits among them, is
\* on the card, whole, and stays there if the power is cut next.
GoodCallsSave == pc = "idle" /\ pic > 0 /\ ~lost => FileOf("ours") = Picture(pic)

\* ff.h: "Current sector appearing in the win[]": a clean window on the FAT or
\* the directory has what the card has there.
WindowTells ==
  win.sect \in {"dir", "fat1", "fat2"} /\ ~win.dirty => win.val = card[win.sect]

\* The file is what SavedFile promises.
Reader     == INSTANCE SavedFile WITH Length <- 1 + 2 * Lines, file <- FileOf("ours")
Implements == Reader!Spec

\* Each screenshot ends: the loops over chains and the search do.
SaveEnds == pc # "idle" ~> pc = "idle"
=============================================================================
