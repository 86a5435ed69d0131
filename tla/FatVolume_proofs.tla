-------------------------- MODULE FatVolume_proofs --------------------------
(***************************************************************************)
(* Proofs about FatFs on the card, for every size of the FAT, every number *)
(* of files and clusters of theirs, and any number of failures and cuts,   *)
(* as long as a read that fails leaves the window as it was.               *)
(***************************************************************************)
EXTENDS FatVolume, TLAPS

\* What a screenshot may write to.
Mine  == Clusters \ others
Mine0 == Mine \cup {0}

Cached == {"dir", "fat1", "fat2"}
Part(s) == IF s = "fat1" THEN 2..Split ELSE Split + 1..LastCluster

\* A sector of the directory or the FAT that keeps the other files apart.
Apart(s, v) ==
  IF s = "dir" THEN DOMAIN v = Names /\ v["ours"] \in [size : Nat, clust : Mine0]
  ELSE /\ DOMAIN v = Part(s)
       /\ \A c \in Part(s) : /\ c \in others => v[c] # 0
                             /\ v[c] \in others => c \in others

\* It says of the other files what the card does.
SaysOf(s, v) ==
  IF s = "dir" THEN v["other"] = card["dir"]["other"]
  ELSE \A c \in others : FatOf(c) = s => v[c] = card[s][c]

MediaOK ==
  /\ others \subseteq Clusters /\ DOMAIN data = Clusters
  /\ DOMAIN card = {"boot", "fsinfo"} \cup Cached
  /\ \A s \in Cached : Apart(s, card[s])

WindowOK ==
  /\ win.sect \in {"none", "boot", "fsinfo"} \cup Cached
  /\ win.dirty \in BOOLEAN
  /\ win.dirty => win.sect \in Cached
  /\ win.sect \in Cached => Apart(win.sect, win.val) /\ SaysOf(win.sect, win.val)

OurFile == [sclust : Mine0, clust : Mine0, fsize : Nat, fptr : Nat, dsect : Mine0,
            buf : [Piece -> Int \X Int], dirty : BOOLEAN, err : BOOLEAN]

\* A file with a piece has a cluster.
Placed(f) == f \in OurFile /\ (f.fptr # 0 => f.clust # 0)

ProgramOK ==
  /\ pic \in Int /\ line \in Int /\ btw \in Int
  /\ Placed(fil)
  /\ pc \in {"flush", "copy", "stretch", "link"} => fil.clust # 0
  /\ pc \in {"remove", "link"} => clst \in Mine
  /\ pc = "search" => clst \in Clusters
  /\ pc = "count" => clst \in {1, 2}

Inv == MediaOK /\ WindowOK /\ ProgramOK

-----------------------------------------------------------------------------

\* A cluster has its link in the part of the FAT its sector has.
LEMMA FatOfPart ==
  ASSUME NEW c \in Clusters
  PROVE  FatOf(c) \in {"fat1", "fat2"} /\ c \in Part(FatOf(c))
BY VolumeAssumption DEF FatOf, Part, Clusters

\* The card there is at first.
LEMMA InitInv == Init => Inv
<1> SUFFICES ASSUME Init PROVE Inv
  OBVIOUS
<1>1. PICK k \in Cards : card = k.card /\ data = k.data /\ others = k.others
  BY DEF Init
<1>2. /\ k.card \in [boot : {"FAT16", "FAT32"},
                     fsinfo : [free : Nat \cup {Unknown}, next : Nat \cup {Unknown}],
                     dir : [Names -> [size : Nat, clust : Clusters \cup {0}]],
                     fat1 : [2..Split -> Nat], fat2 : [Split + 1..LastCluster -> Nat]]
      /\ k.others \subseteq Clusters /\ DOMAIN k.data = Clusters
      /\ k.card.dir["ours"].clust \notin k.others
      /\ \A cl \in Clusters : LET nxt == k.card[FatOf(cl)][cl]
                              IN  /\ nxt \in Clusters \cup {0, EOC}
                                  /\ nxt = 0 => cl \notin k.others
                                  /\ nxt \in k.others => cl \in k.others
  BY CardAssumption
<1>3. Apart("dir", card["dir"])
  BY <1>1, <1>2 DEF Apart, Mine0, Mine, Names
<1>4. \A s \in {"fat1", "fat2"} : \A c \in Part(s) : c \in Clusters /\ FatOf(c) = s
  BY VolumeAssumption DEF FatOf, Part, Clusters
<1>5. Apart("fat1", card["fat1"])
  BY <1>1, <1>2, <1>4 DEF Apart, Part
<1>6. Apart("fat2", card["fat2"])
  BY <1>1, <1>2, <1>4 DEF Apart, Part
<1>7. MediaOK
  BY <1>1, <1>2, <1>3, <1>5, <1>6 DEF MediaOK, Cached
<1>8. WindowOK
  BY DEF Init, WindowOK, NoWindow, Window, Cached
<1>9. ProgramOK
  BY DEF Init, ProgramOK, NoFile, Opened, NoEntry, Placed, OurFile, Mine0, Piece
<1> QED BY <1>7, <1>8, <1>9 DEF Inv

-----------------------------------------------------------------------------
(* What the pieces of the actions do.                                       *)

\* A step that changes no sector keeps the media, and with the window nothing
\* changes for the other files.
LEMMA MediaKept ==
  ASSUME MediaOK, UNCHANGED <<card, others>>, DOMAIN data' = Clusters
  PROVE  /\ MediaOK'
         /\ UNCHANGED win /\ WindowOK => WindowOK'
  BY DEF MediaOK, WindowOK, Apart, Part, SaysOf, FatOf, Mine0, Mine, Clusters

\* A change in the window of what belongs to no other file.
LEMMA PutKeeps ==
  ASSUME WindowOK, UNCHANGED <<card, others>>, win.sect \in Cached,
         NEW STATE x, NEW STATE y, Put(x, y),
         win.sect = "dir" => x = "ours" /\ y \in [size : Nat, clust : Mine0],
         win.sect # "dir" => x \notin others /\ y \notin others
  PROVE  WindowOK'
<1> DEFINE v == [win.val EXCEPT ![x] = y]
<1>1. win'.sect = win.sect /\ win'.val = v /\ win'.dirty = TRUE
  BY DEF Put, Window
<1>2. Apart(win.sect, win.val) /\ SaysOf(win.sect, win.val)
  BY DEF WindowOK
<1>3. CASE win.sect = "dir"
  <2>1. DOMAIN v = Names /\ v["ours"] = y /\ v["other"] = win.val["other"]
    BY <1>2, <1>3 DEF Apart, Names
  <2> QED BY <1>1, <1>2, <1>3, <2>1
          DEF WindowOK, Apart, SaysOf, Mine0, Mine, Cached, Clusters
<1>4. CASE win.sect # "dir"
  <2>1. /\ DOMAIN v = Part(win.sect)
        /\ \A c \in Part(win.sect) : v[c] = IF c = x THEN y ELSE win.val[c]
    BY <1>2, <1>4 DEF Apart
  <2>2. \A c \in Part(win.sect) : /\ c \in others => v[c] # 0
                                  /\ v[c] \in others => c \in others
    BY <1>2, <1>4, <2>1 DEF Apart
  <2>3. \A c \in others : v[c] = win.val[c]
    BY <1>2, <1>4
  <2>4. \A c \in others : FatOf(c) = win.sect => v[c] = card[win.sect][c]
    BY <1>2, <1>4, <2>3 DEF SaysOf
  <2>5. Apart(win.sect, win.val)'
    BY <1>4, <2>1, <2>2, <1>1 DEF Apart, Part
  <2>6. SaysOf(win.sect, win.val)'
    BY <1>4, <2>4, <1>1 DEF SaysOf, FatOf
  <2> QED BY <1>1, <1>4, <2>5, <2>6 DEF WindowOK, Cached
<1> QED BY <1>3, <1>4

\* The end of the last call.
LEMMA DoneKeeps ==
  ASSUME Done, pic' \in Int PROVE ProgramOK'
  BY DEF Done, ProgramOK, NoFile, Opened, NoEntry, Placed, OurFile, Mine0, Piece

\* A write that returns with a file of ours.
LEMMA ReturnKeeps ==
  ASSUME ProgramOK, NEW STATE f, Placed(f), WriteReturns(f), UNCHANGED <<others, pic>>
  PROVE  ProgramOK'
  BY DEF WriteReturns, ProgramOK, Placed, OurFile, Mine0, Mine, Clusters

\* A mark, or a longer size, on it.
LEMMA MarkedPlaced ==
  ASSUME NEW STATE f, Placed(f)
  PROVE  /\ Placed([f EXCEPT !.err = TRUE])
         /\ Placed([f EXCEPT !.dirty = FALSE])
         /\ Placed([f EXCEPT !.fsize = IF f.fptr > @ THEN f.fptr ELSE @])
  BY DEF Placed, OurFile

LEMMA FailKeeps ==
  ASSUME ProgramOK, Fail, UNCHANGED <<others, pic>> PROVE ProgramOK'
<1>1. CASE pc \in InWrite
  <2>1. WriteReturns([fil EXCEPT !.err = TRUE])
    BY <1>1 DEF Fail
  <2> QED BY <2>1, ReturnKeeps, MarkedPlaced DEF ProgramOK
<1>2. CASE pc \notin InWrite
  BY <1>2, DoneKeeps DEF Fail, ProgramOK
<1> QED BY <1>1, <1>2

\* The search stays in the FAT.
LEMMA AfterInFat ==
  ASSUME NEW STATE c, c \in Clusters \cup {1} PROVE After(c) \in Clusters
  BY VolumeAssumption DEF After, Clusters

\* The next turn of the loop of f_write.
LEMMA TurnKeeps ==
  ASSUME ProgramOK, NEW STATE f, Placed(f), Turn(f), fil' = f,
         UNCHANGED <<others, pic>>, line' \in Int, btw' \in Int
  PROVE  ProgramOK'
<1>1. Hint \in Clusters \cup {1}
  BY DEF Hint
<1>2. f.fptr \in Nat /\ f \in OurFile
  BY DEF Placed, OurFile
<1>3. CASE f.fptr # 0
  <2>1. pc' \in {"copy", "stretch"} /\ fil'.clust # 0
    BY <1>3 DEF Turn, Placed
  <2> QED BY <2>1, <1>2 DEF ProgramOK, Placed, OurFile, Mine0, Mine, Clusters
<1>4. CASE f.fptr = 0
  <2>1. pc' = "search" /\ clst' \in Clusters
    BY <1>4, <1>1, AfterInFat DEF Turn
  <2> QED BY <2>1, <1>2, <1>4 DEF ProgramOK, Placed, OurFile, Mine0, Mine, Clusters
<1> QED BY <1>2, <1>3, <1>4

\* A sector of the FAT that is in the window has the cluster it was loaded for.
LEMMA Here ==
  ASSUME Inv, NEW STATE c, c \in Clusters, win.sect = FatOf(c)
  PROVE  /\ win.sect \in Cached /\ win.sect # "dir"
         /\ c \in Part(win.sect)
         /\ c \in others => win.val[c] # 0
         /\ win.val[c] \in others => c \in others
<1>1. FatOf(c) \in {"fat1", "fat2"} /\ c \in Part(FatOf(c))
  BY FatOfPart
<1>2. win.sect \in Cached /\ win.sect # "dir" /\ c \in Part(win.sect)
  BY <1>1 DEF Cached
<1>3. Apart(win.sect, win.val)
  BY <1>2 DEF Inv, WindowOK
<1> QED BY <1>2, <1>3 DEF Apart

-----------------------------------------------------------------------------
(* The actions of the window.                                               *)

\* What a write of the window does to the card.
LEMMA WrittenKeeps ==
  ASSUME Inv, win.dirty, card' \in {card, [card EXCEPT ![win.sect] = win.val]},
         UNCHANGED <<data, others>>
  PROVE  /\ MediaOK'
         /\ win'.sect = win.sect /\ win'.val = win.val /\ win'.dirty \in BOOLEAN => WindowOK'
<1>1. win.sect \in Cached /\ Apart(win.sect, win.val) /\ SaysOf(win.sect, win.val)
  BY DEF Inv, WindowOK
<1>2. CASE card' = card
  BY <1>1, <1>2 DEF Inv, MediaOK, WindowOK, Apart, Part, SaysOf, FatOf, Mine0, Mine, Clusters
<1>3. CASE card' = [card EXCEPT ![win.sect] = win.val]
  <2>1. /\ DOMAIN card' = DOMAIN card /\ card'[win.sect] = win.val
        /\ \A s \in Cached : s # win.sect => card'[s] = card[s]
    BY <1>1, <1>3 DEF Inv, MediaOK
  <2>2. \A s \in Cached : Apart(s, card'[s])
    BY <1>1, <2>1 DEF Inv, MediaOK
  <2>3. MediaOK'
    BY <2>1, <2>2 DEF Inv, MediaOK, Apart, Part, Mine0, Mine, Clusters
  <2>4. SaysOf(win.sect, win.val)'
        <=> IF win'.sect = "dir" THEN win'.val["other"] = card'["dir"]["other"]
            ELSE \A c \in others' : FatOf(c) = win'.sect => win'.val[c] = card'[win'.sect][c]
    BY DEF SaysOf, FatOf
  <2>5. ASSUME win'.sect = win.sect, win'.val = win.val, win'.dirty \in BOOLEAN
        PROVE  WindowOK'
    <3>1. SaysOf(win.sect, win.val)'
      BY <2>4, <2>5, <2>1
    <3>2. Apart(win.sect, win.val)'
      BY <1>1, <2>5 DEF Apart, Part, Mine0, Mine, Clusters
    <3> QED BY <1>1, <2>5, <3>1, <3>2 DEF WindowOK, Cached
  <2> QED BY <2>3, <2>5
<1> QED BY <1>2, <1>3

LEMMA ProceedKeeps ==
  ASSUME ProgramOK, Proceed, UNCHANGED <<others, pic>> PROVE ProgramOK'
  BY DEF Proceed, local, ProgramOK, Placed, OurFile, Mine0, Mine, Clusters

LEMMA SyncInv == ASSUME Inv, Sync PROVE Inv'
<1>1. win.dirty /\ UNCHANGED <<data, others, pic>>
  BY DEF Sync, world
<1>2. CASE card' = [card EXCEPT ![win.sect] = win.val]
           /\ win' = Window(win.sect, win.val, FALSE) /\ Proceed
  BY <1>1, <1>2, WrittenKeeps, ProceedKeeps DEF Inv, Window
<1>3. CASE /\ card' \in {card, [card EXCEPT ![win.sect] = win.val]}
           /\ UNCHANGED win /\ Fail
  <2>1. win'.sect = win.sect /\ win'.val = win.val /\ win'.dirty \in BOOLEAN
    BY <1>3 DEF Inv, WindowOK
  <2> QED BY <1>1, <1>3, <2>1, WrittenKeeps, FailKeeps DEF Inv
<1> QED BY <1>2, <1>3 DEF Sync

LEMMA LoadInv == ASSUME TornReads = FALSE, Inv, Load PROVE Inv'
<1>1. UNCHANGED <<card, data, others, pic>>
  BY DEF Load, media, world
<1>2. MediaOK' /\ (UNCHANGED win => WindowOK')
  BY <1>1, MediaKept DEF Inv, MediaOK
<1>3. CASE win' = Window(Need, card[Need], FALSE) /\ Proceed
  <2>1. win.sect # Need
    BY DEF Load
  <2>2. Need \in Cached
    <3>1. pc = "count" => FatSectors[clst] \in Cached
      BY DEF Inv, ProgramOK, FatSectors, Cached
    <3>2. pc \in {"remove", "search"} => clst \in Clusters
      BY DEF Inv, ProgramOK, Mine
    <3>3. pc \in {"stretch", "link"} => fil.clust \in Clusters
      BY DEF Inv, ProgramOK, Placed, OurFile, Mine0, Mine
    <3>4. \A c \in Clusters : FatOf(c) \in Cached
      BY DEF FatOf, Cached
    <3> QED BY <2>1, <3>1, <3>2, <3>3, <3>4 DEF Need, Cached
  <2>3. win'.sect = Need /\ win'.val = card[Need] /\ win'.dirty = FALSE
    BY <1>3 DEF Window
  <2>4. Apart(Need, card[Need]) /\ SaysOf(Need, card[Need])
    BY <2>2 DEF Inv, MediaOK, SaysOf
  <2> DEFINE s == Need
  <2>5. Apart(win.sect, win.val)' /\ SaysOf(win.sect, win.val)'
    <3> HIDE DEF s
    <3>1. win'.sect = s /\ win'.val = card[s] /\ Apart(s, card[s]) /\ SaysOf(s, card[s])
      BY <2>3, <2>4 DEF s
    <3> QED BY <1>1, <3>1 DEF Apart, SaysOf, Part, FatOf, Mine0, Mine, Clusters
  <2>6. WindowOK'
    BY <2>2, <2>3, <2>5 DEF WindowOK, Cached
  <2> QED BY <1>1, <1>2, <1>3, <2>6, ProceedKeeps DEF Inv
<1>4. CASE UNCHANGED win /\ Fail
  BY <1>1, <1>2, <1>4, FailKeeps DEF Inv
<1> QED BY <1>3, <1>4 DEF Load

-----------------------------------------------------------------------------
(* The other actions.  None of them writes the directory or the FAT.        *)

LEMMA MountedKeeps ==
  ASSUME Inv, Mounted, UNCHANGED <<card, data, others>>
  PROVE  MediaOK' /\ WindowOK'
<1>1. win'.sect \in {"boot", "fsinfo"} /\ win'.dirty = FALSE
  BY DEF Mounted, Window
<1> QED BY <1>1, MediaKept DEF Inv, MediaOK, WindowOK, Cached

LEMMA NotMountedInv ==
  ASSUME Inv, NotMounted, UNCHANGED <<card, data, others, pic>> PROVE Inv'
<1>1. WindowOK'
  BY DEF NotMounted, NoWindow, Window, WindowOK, Cached
<1> QED BY <1>1, MediaKept, DoneKeeps DEF Inv, MediaOK, NotMounted, ProgramOK

LEMMA MountInv == ASSUME Inv, Mount PROVE Inv'
<1>1. UNCHANGED <<card, data, others, pic>>
  BY DEF Mount, media, world
<1>2. CASE NotMounted
  BY <1>1, <1>2, NotMountedInv
<1>3. CASE ~NotMounted
  <2>1. Mounted /\ UNCHANGED <<fil, line, btw>>
    BY <1>3 DEF Mount
  <2>2. pc' \in {"open", "count"} /\ (pc' = "count" => clst' = 1)
    BY <1>3 DEF Mount
  <2>3. ProgramOK'
    BY <1>1, <2>1, <2>2 DEF Inv, ProgramOK, Placed, OurFile, Mine0, Mine, Clusters
  <2> QED BY <1>1, <2>1, <2>3, MountedKeeps DEF Inv
<1> QED BY <1>2, <1>3

LEMMA OpenInv == ASSUME Inv, Open PROVE Inv'
<1>1. UNCHANGED <<card, data, others, pic>>
  BY DEF Open, media, world
<1>2. CASE NotMounted
  BY <1>1, <1>2, NotMountedInv
<1>3. CASE ~NotMounted
  <2>1. (UNCHANGED win \/ Mounted) /\ UNCHANGED <<fil, line, btw>> /\ pc' = "find"
    BY <1>3 DEF Open
  <2>2. ProgramOK'
    BY <1>1, <2>1 DEF Inv, ProgramOK, Placed, OurFile, Mine0, Mine, Clusters
  <2> QED BY <1>1, <2>1, <2>2, MountedKeeps, MediaKept DEF Inv, MediaOK
<1> QED BY <1>2, <1>3

LEMMA RefuseInv == ASSUME Inv, Refuse PROVE Inv'
<1>1. UNCHANGED <<card, data, others, pic>>
  BY DEF Refuse, media, world
<1>2. (UNCHANGED win \/ Mounted) /\ Done
  BY DEF Refuse
<1>3. MediaOK' /\ WindowOK'
  BY <1>1, <1>2, MountedKeeps, MediaKept DEF Inv, MediaOK
<1> QED BY <1>1, <1>2, <1>3, DoneKeeps DEF Inv, ProgramOK

\* The steps that look at the window and do not change it.
LEMMA LookInv ==
  ASSUME Inv, Press \/ Count \/ SearchOn \/ Stretch PROVE Inv'
<1>1. UNCHANGED <<card, data, others, win, fil, line, btw>> /\ pic' \in Int
  BY DEF Press, Count, SearchOn, Stretch, media, memory, world, Inv, ProgramOK
<1>2. /\ pc' \in {"mount", "count", "open", "search"}
      /\ pc' = "count" => clst' \in {1, 2}
      /\ pc' = "search" => clst' \in Clusters
  <2>1. CASE Press
    BY <2>1 DEF Press
  <2>2. CASE Count
    BY <2>2 DEF Count, At, Inv, ProgramOK, FatSectors
  <2>3. CASE SearchOn
    BY <2>3, AfterInFat DEF SearchOn, At, Inv, ProgramOK
  <2>4. CASE Stretch
    BY <2>4, AfterInFat DEF Stretch, At, Inv, ProgramOK, Placed, OurFile, Mine0, Mine
  <2> QED BY <2>1, <2>2, <2>3, <2>4
<1>3. ProgramOK'
  BY <1>1, <1>2 DEF Inv, ProgramOK, Placed, OurFile, Mine0, Mine, Clusters
<1> QED BY <1>1, <1>3, MediaKept DEF Inv, MediaOK

LEMMA FindInv == ASSUME Inv, Find PROVE Inv'
<1>1. /\ pc = "find" /\ win.sect = "dir" /\ UNCHANGED <<card, data, others, pic, fil, line, btw>>
      /\ Put("ours", [size |-> 0, clust |-> 0])
      /\ clst' = win.val["ours"].clust /\ pc' = IF clst' = 0 THEN "reopen" ELSE "remove"
  BY DEF Find, At, Need, media, world
<1>2. win.val["ours"].clust \in Mine0
  BY <1>1 DEF Inv, WindowOK, Apart, Cached
<1>3. WindowOK'
  <2>1. [size |-> 0, clust |-> 0] \in [size : Nat, clust : Mine0]
    BY DEF Mine0
  <2> QED BY <1>1, <2>1, PutKeeps DEF Inv, Cached
<1>4. ProgramOK'
  BY <1>1, <1>2 DEF Inv, ProgramOK, Placed, OurFile, Mine0, Mine, Clusters
<1> QED BY <1>1, <1>3, <1>4, MediaKept DEF Inv, MediaOK

LEMMA RemoveInv == ASSUME Inv, Remove PROVE Inv'
<1>1. /\ pc = "remove" /\ win.sect = FatOf(clst) /\ clst \in Mine
      /\ UNCHANGED <<card, data, others, pic, fil, line, btw>>
      /\ UNCHANGED win \/ Put(clst, 0)
      /\ \/ win.val[clst] \in Clusters /\ clst' = win.val[clst] /\ pc' = "remove"
         \/ pc' = "reopen"
  BY DEF Remove, At, Need, media, world, Inv, ProgramOK
<1>2. /\ clst \in Clusters /\ clst \notin others /\ 0 \notin others
      /\ win.sect \in Cached /\ win.sect # "dir" /\ win.val[clst] \notin others
  BY <1>1, Here DEF Mine, Inv, MediaOK, Clusters
<1>3. WindowOK'
  <2>1. CASE UNCHANGED win
    BY <1>1, <2>1, MediaKept DEF Inv, MediaOK
  <2>2. CASE Put(clst, 0)
    BY <1>1, <1>2, <2>2, PutKeeps DEF Inv
  <2> QED BY <1>1, <2>1, <2>2
<1>4. ProgramOK'
  BY <1>1, <1>2 DEF Inv, ProgramOK, Placed, OurFile, Mine0, Mine, Clusters
<1> QED BY <1>1, <1>3, <1>4, MediaKept DEF Inv, MediaOK

LEMMA ReopenInv == ASSUME Inv, Reopen PROVE Inv'
<1>1. /\ pc = "reopen" /\ win.sect = "dir"
      /\ UNCHANGED <<card, data, others, win, pic, line, btw>> /\ pc' = "write"
      /\ fil' = Opened(win.val["ours"])
  BY DEF Reopen, At, Need, media, world
<1>2. win.val["ours"] \in [size : Nat, clust : Mine0]
  BY <1>1 DEF Inv, WindowOK, Apart, Cached
<1>3. Placed(fil')
  BY <1>1, <1>2 DEF Placed, OurFile, Opened, Mine0, Piece
<1>4. ProgramOK'
  BY <1>1, <1>3 DEF Inv, ProgramOK, Placed, OurFile, Mine0, Mine, Clusters
<1> QED BY <1>1, <1>4, MediaKept DEF Inv, MediaOK

-----------------------------------------------------------------------------
(* f_write and f_close.                                                     *)

LEMMA WriteInv == ASSUME Inv, Write PROVE Inv'
<1>1. UNCHANGED <<card, data, others, win, pic>> /\ Placed(fil) /\ line \in Int
  BY DEF Write, media, world, Inv, ProgramOK
<1>2. CASE WriteReturns(fil)
  BY <1>1, <1>2, ReturnKeeps, MediaKept DEF Inv, MediaOK
<1>3. CASE ~WriteReturns(fil)
  <2>1. Turn(fil) /\ fil' = fil /\ line' = line /\ btw' = LengthOf(line)
    BY <1>3 DEF Write
  <2>2. btw' \in Int
    BY <2>1 DEF LengthOf
  <2> QED BY <1>1, <2>1, <2>2, TurnKeeps, MediaKept DEF Inv, MediaOK
<1> QED BY <1>2, <1>3

\* A cluster of ours is the file's from then on.
LEMMA AllocatedKeeps ==
  ASSUME ProgramOK, NEW STATE c, c \in Mine, Allocated(c), UNCHANGED <<others, pic, line, btw>>
  PROVE  ProgramOK'
<1>1. /\ fil' = [fil EXCEPT !.clust = c, !.sclust = IF @ = 0 THEN c ELSE @]
      /\ pc' \in {"flush", "copy"}
  BY DEF Allocated
<1> DEFINE f == [fil EXCEPT !.clust = c]
           a == IF fil.sclust = 0 THEN c ELSE fil.sclust
<1>2. f \in OurFile /\ f.clust = c /\ f.sclust = fil.sclust /\ c # 0
  BY DEF ProgramOK, Placed, OurFile, Mine0, Mine, Clusters
<1>3. a \in Mine0
  BY DEF Mine0, ProgramOK, Placed, OurFile
<1>4. fil' = [f EXCEPT !.sclust = a]
  <2>1. fil' = [fil EXCEPT !.clust = c, !.sclust = a]
    BY <1>1
  <2> QED BY <2>1
<1>5. Placed(fil') /\ fil'.clust # 0
  <2> HIDE DEF f, a
  <2> QED BY <1>2, <1>3, <1>4 DEF Placed, OurFile
<1> QED BY <1>1, <1>5 DEF ProgramOK, Placed, OurFile, Mine0, Mine, Clusters

LEMMA SearchInv == ASSUME Inv, Search PROVE Inv'
<1>1. /\ pc = "search" /\ win.sect = FatOf(clst) /\ clst \in Clusters /\ win.val[clst] = 0
      /\ UNCHANGED <<card, data, others, pic, line, btw>> /\ Put(clst, EOC)
      /\ Placed(fil) /\ fil.fptr \in Nat
  BY DEF Search, At, Need, media, world, Inv, ProgramOK, Placed, OurFile
<1>2. clst \notin others /\ EOC \notin others /\ win.sect \in Cached /\ win.sect # "dir"
  BY <1>1, Here, VolumeAssumption DEF Inv, MediaOK, EOC, Clusters
<1>3. WindowOK'
  BY <1>1, <1>2, PutKeeps DEF Inv
<1>4. ProgramOK'
  <2>1. CASE fil.fptr = 0
    BY <1>1, <1>2, <2>1, AllocatedKeeps DEF Search, Inv, Mine
  <2>2. CASE fil.fptr # 0
    <3>1. pc' = "link" /\ UNCHANGED <<fil, clst>> /\ fil.clust # 0
      BY <1>1, <2>2 DEF Search, Placed
    <3> QED BY <1>1, <1>2, <3>1
            DEF Inv, ProgramOK, Placed, OurFile, Mine0, Mine, Clusters
  <2> QED BY <2>1, <2>2
<1> QED BY <1>1, <1>3, <1>4, MediaKept DEF Inv, MediaOK

LEMMA LinkInv == ASSUME Inv, Link PROVE Inv'
<1>1. /\ pc = "link" /\ win.sect = FatOf(fil.clust) /\ clst \in Mine /\ fil.clust \in Mine
      /\ UNCHANGED <<card, data, others, pic, line, btw>>
      /\ Put(fil.clust, clst) /\ Allocated(clst)
  BY DEF Link, At, Need, media, world, Inv, ProgramOK, Placed, OurFile, Mine0
<1>2. win.sect \in Cached /\ win.sect # "dir"
  BY <1>1, Here DEF Mine
<1>3. WindowOK'
  BY <1>1, <1>2, PutKeeps DEF Inv, Mine
<1>4. ProgramOK'
  BY <1>1, AllocatedKeeps DEF Inv
<1> QED BY <1>1, <1>3, <1>4, MediaKept DEF Inv, MediaOK

LEMMA CardFullInv == ASSUME Inv, CardFull PROVE Inv'
<1>1. UNCHANGED <<card, data, others, win, pic>> /\ EndOfWrite(fil) /\ Placed(fil)
  BY DEF CardFull, media, world, Inv, ProgramOK
<1> DEFINE f == [fil EXCEPT !.fsize = IF fil.fptr > @ THEN fil.fptr ELSE @]
<1>2. Placed(f) /\ WriteReturns(f)
  BY <1>1, MarkedPlaced DEF EndOfWrite
<1>3. ProgramOK'
  <2> HIDE DEF f
  <2> QED BY <1>1, <1>2, ReturnKeeps DEF Inv
<1> QED BY <1>1, <1>3, MediaKept DEF Inv, MediaOK

\* The buffer goes to a cluster that is not another file's.
LEMMA BufferInv ==
  ASSUME Inv, NEW STATE next, WriteBuffer(next), next = "entry" \/ (next = "copy" /\ fil.clust # 0)
  PROVE  Inv'
<1>1. UNCHANGED <<card, others, win, pic>> /\ DOMAIN data' = Clusters
  BY DEF WriteBuffer, world, Inv, MediaOK
<1>2. MediaOK' /\ WindowOK'
  BY <1>1, MediaKept DEF Inv
<1>3. CASE Fail
  BY <1>1, <1>2, <1>3, FailKeeps DEF Inv
<1>4. CASE ~Fail
  <2>1. fil' = [fil EXCEPT !.dirty = FALSE] /\ pc' = next /\ UNCHANGED <<line, btw>>
    BY <1>4 DEF WriteBuffer
  <2>2. Placed(fil') /\ fil'.clust = fil.clust
    BY <2>1, MarkedPlaced DEF Inv, ProgramOK, Placed, OurFile
  <2>3. ProgramOK'
    BY <1>1, <2>1, <2>2 DEF Inv, ProgramOK, Placed, OurFile, Mine0, Mine, Clusters
  <2> QED BY <1>2, <2>3 DEF Inv
<1> QED BY <1>3, <1>4

LEMMA CopyInv == ASSUME Inv, Copy PROVE Inv'
<1> DEFINE piece == FirstOf(line) + LengthOf(line) - btw
           off == (fil.fptr % 2) + 1
           f == [fil EXCEPT !.buf[off] = <<pic, piece>>, !.fptr = @ + 1, !.dirty = TRUE,
                            !.dsect = IF fil.fptr % 2 = 0 THEN fil.clust ELSE @]
<1>1. /\ UNCHANGED <<card, data, others, win, pic>> /\ pc = "copy"
      /\ IF btw = 1 THEN EndOfWrite(f)
         ELSE fil' = f /\ btw' = btw - 1 /\ Turn(f) /\ UNCHANGED line
  BY DEF Copy, media, world
<1>2. Placed(f)
  <2>1. fil \in OurFile /\ fil.clust # 0 /\ pic \in Int /\ line \in Int /\ btw \in Int
    BY <1>1 DEF Inv, ProgramOK, Placed
  <2>2. piece \in Int /\ off \in Piece
    BY <2>1 DEF FirstOf, LengthOf, Piece, OurFile
  <2> DEFINE b == [fil.buf EXCEPT ![off] = <<pic, piece>>]
             d == IF fil.fptr % 2 = 0 THEN fil.clust ELSE fil.dsect
             f1 == [fil EXCEPT !.buf = b]
             f2 == [f1 EXCEPT !.fptr = fil.fptr + 1]
             f3 == [f2 EXCEPT !.dirty = TRUE]
             f4 == [f3 EXCEPT !.dsect = d]
  <2>3. b \in [Piece -> Int \X Int]
    BY <2>1, <2>2 DEF OurFile
  <2>4. d \in Mine0
    BY <2>1 DEF OurFile
  <2>5. f = f4
    OBVIOUS
  <2>6. f4 \in OurFile /\ f4.clust = fil.clust
    <3> HIDE DEF b, d
    <3>1. f1 \in OurFile /\ f1.clust = fil.clust
      BY <2>1, <2>3 DEF OurFile
    <3>2. fil.fptr + 1 \in Nat
      BY <2>1 DEF OurFile
    <3>3. f2 \in OurFile /\ f2.clust = fil.clust
      <4> HIDE DEF f1
      <4> QED BY <3>1, <3>2 DEF OurFile
    <3>4. f3 \in OurFile /\ f3.clust = fil.clust
      <4> HIDE DEF f2
      <4> QED BY <3>3 DEF OurFile
    <3> HIDE DEF f3
    <3> QED BY <3>4, <2>4 DEF OurFile
  <2> HIDE DEF f, f4
  <2> QED BY <2>1, <2>5, <2>6 DEF Placed
<1> HIDE DEF f
<1>3. CASE btw = 1
  <2> DEFINE g == [f EXCEPT !.fsize = IF f.fptr > @ THEN f.fptr ELSE @]
  <2>1. Placed(g) /\ WriteReturns(g)
    BY <1>1, <1>2, <1>3, MarkedPlaced DEF EndOfWrite
  <2>2. ProgramOK'
    <3> HIDE DEF g
    <3> QED BY <1>1, <2>1, ReturnKeeps DEF Inv
  <2> QED BY <1>1, <2>2, MediaKept DEF Inv, MediaOK
<1>4. CASE btw # 1
  <2>1. ProgramOK'
    BY <1>1, <1>2, <1>4, TurnKeeps DEF Inv, ProgramOK
  <2> QED BY <1>1, <2>1, MediaKept DEF Inv, MediaOK
<1> QED BY <1>3, <1>4

LEMMA CloseInv == ASSUME Inv, Close PROVE Inv'
<1>1. UNCHANGED <<card, data, others, win, pic>>
  BY DEF Close, media, world
<1>2. CASE Done
  BY <1>1, <1>2, DoneKeeps, MediaKept DEF Inv, MediaOK, ProgramOK
<1>3. CASE ~Done
  <2>1. pc' \in {"last", "entry"} /\ UNCHANGED <<fil, line, btw>>
    BY <1>3 DEF Close
  <2>2. ProgramOK'
    BY <1>1, <2>1 DEF Inv, ProgramOK, Placed, OurFile, Mine0, Mine, Clusters
  <2> QED BY <1>1, <2>2, MediaKept DEF Inv, MediaOK
<1> QED BY <1>2, <1>3

LEMMA EntryInv == ASSUME Inv, Entry PROVE Inv'
<1>1. /\ win.sect = "dir" /\ UNCHANGED <<card, data, others, pic, fil, line, btw>> /\ pc' = "sync"
      /\ Put("ours", [size |-> fil.fsize, clust |-> fil.sclust])
  BY DEF Entry, At, Need, media, world
<1>2. [size |-> fil.fsize, clust |-> fil.sclust] \in [size : Nat, clust : Mine0]
  BY DEF Inv, ProgramOK, Placed, OurFile
<1>3. WindowOK'
  BY <1>1, <1>2, PutKeeps DEF Inv, Cached
<1>4. ProgramOK'
  BY <1>1 DEF Inv, ProgramOK, Placed, OurFile, Mine0, Mine, Clusters
<1> QED BY <1>1, <1>3, <1>4, MediaKept DEF Inv, MediaOK

LEMMA SyncFsInv == ASSUME Inv, SyncFs PROVE Inv'
<1>1. UNCHANGED <<data, others, pic>> /\ Done
  BY DEF SyncFs, world
<1>2. /\ DOMAIN card' = DOMAIN card /\ \A s \in Cached : card'[s] = card[s]
      /\ UNCHANGED win \/ (win'.sect = "fsinfo" /\ win'.dirty = FALSE)
  BY DEF SyncFs, Inv, MediaOK, Cached, Window
<1>3. MediaOK'
  BY <1>1, <1>2 DEF Inv, MediaOK, Apart, Part, Mine0, Mine, Clusters
<1>4. WindowOK'
  <2>1. CASE UNCHANGED win
    <3>1. win.sect \in Cached => SaysOf(win.sect, win.val)'
      BY <1>1, <1>2, <2>1 DEF Inv, WindowOK, SaysOf, FatOf, Cached
    <3> QED BY <1>1, <2>1, <3>1
            DEF Inv, WindowOK, Apart, Part, Mine0, Mine, Clusters, Cached
  <2>2. CASE win'.sect = "fsinfo" /\ win'.dirty = FALSE
    BY <2>2 DEF WindowOK, Cached
  <2> QED BY <1>2, <2>1, <2>2
<1> QED BY <1>1, <1>3, <1>4, DoneKeeps DEF Inv, ProgramOK

LEMMA PowerCutInv == ASSUME Inv, PowerCut PROVE Inv'
<1>1. UNCHANGED <<card, data, others, pic>> /\ Done /\ win' = NoWindow
  BY DEF PowerCut, media
<1>2. WindowOK'
  BY <1>1 DEF NoWindow, Window, WindowOK, Cached
<1> QED BY <1>1, <1>2, MediaKept, DoneKeeps DEF Inv, MediaOK, ProgramOK

-----------------------------------------------------------------------------

\* Every step keeps the invariant, if a read that fails leaves the window alone.
LEMMA NextInv == ASSUME TornReads = FALSE, Inv, [Next]_vars PROVE Inv'
<1>1. CASE UNCHANGED vars
  BY <1>1, MediaKept
     DEF vars, media, memory, local, world, Inv, MediaOK, ProgramOK, Placed, OurFile,
         Mine0, Mine, Clusters
<1>2. CASE Flush
  BY <1>2, BufferInv DEF Flush, Inv, ProgramOK
<1>3. CASE FlushLast
  BY <1>3, BufferInv DEF FlushLast
<1> QED
  BY <1>1, <1>2, <1>3, SyncInv, LoadInv, MountInv, OpenInv, RefuseInv, LookInv, FindInv, RemoveInv,
     ReopenInv, WriteInv, SearchInv, LinkInv, CardFullInv, CopyInv, CloseInv, EntryInv,
     SyncFsInv, PowerCutInv DEF Next, Step

\* The other files keep their clusters apart from the picture's, on the card and in
\* the window, whatever fails (f_open, f_write, f_close; ff.c): for every FAT, every
\* set of other files, and any number of failures and cuts.
THEOREM Apartness == ASSUME TornReads = FALSE PROVE Spec => []Inv
<1>1. Init => Inv
  BY InitInv
<1>2. Inv /\ [Next]_vars => Inv'
  BY NextInv
<1> QED BY <1>1, <1>2, PTL DEF Spec

\* A step under the invariant leaves the others' entries, links and data as they are.
LEMMA StepIntact ==
  ASSUME Inv, [Next]_vars
  PROVE  /\ card'.dir["other"] = card.dir["other"]
         /\ \A c \in others : Fat'[c] = Fat[c] /\ data'[c] = data[c]
<1>1. /\ others \subseteq Clusters /\ DOMAIN data = Clusters
      /\ DOMAIN card = {"boot", "fsinfo"} \cup Cached
  BY DEF Inv, MediaOK
<1>2. CASE Sync
  <2>1. card' \in {card, [card EXCEPT ![win.sect] = win.val]} /\ data' = data /\ win.dirty
    BY <1>2 DEF Sync
  <2>2. win.sect \in Cached /\ SaysOf(win.sect, win.val)
    BY <2>1 DEF Inv, WindowOK
  <2>3. card'.dir["other"] = card.dir["other"]
    BY <1>1, <2>1, <2>2 DEF SaysOf, Cached
  <2>4. ASSUME NEW c \in others PROVE card'[FatOf(c)][c] = card[FatOf(c)][c]
    <3>1. FatOf(c) \in Cached /\ FatOf(c) # "dir"
      BY DEF FatOf, Cached
    <3>2. card'[FatOf(c)] = card[FatOf(c)] \/ (win.sect = FatOf(c) /\ card'[FatOf(c)] = win.val)
      BY <1>1, <2>1, <3>1
    <3> QED BY <2>2, <2>4, <3>1, <3>2 DEF SaysOf
  <2> QED BY <1>1, <2>1, <2>3, <2>4 DEF Fat, FatOn, FatOf, Clusters
<1>3. CASE \E next \in {"copy", "entry"} : WriteBuffer(next)
  <2>1. card' = card /\ data' \in {data, [data EXCEPT ![fil.dsect] = fil.buf]}
    BY <1>3 DEF WriteBuffer
  <2>2. fil.dsect \in Mine0
    BY DEF Inv, ProgramOK, Placed, OurFile
  <2>3. \A c \in others : data'[c] = data[c]
    <3> DEFINE d == fil.dsect
               b == fil.buf
    <3>1. data' = data \/ data' = [data EXCEPT ![d] = b]
      BY <2>1
    <3>2. \A c \in others : c # d /\ c \in DOMAIN data
      BY <1>1, <2>2 DEF Mine0, Mine, Clusters
    <3> HIDE DEF d, b
    <3> QED BY <3>1, <3>2
  <2> QED BY <1>1, <2>1, <2>3 DEF Fat, FatOn, FatOf, Clusters
<1>4. CASE SyncFs
  <2>1. data' = data /\ \A s \in Cached : card'[s] = card[s]
    BY <1>1, <1>4 DEF SyncFs, Cached
  <2> QED BY <2>1 DEF Fat, FatOn, FatOf, Clusters, Cached
<1>5. CASE UNCHANGED <<card, data>>
  BY <1>5 DEF Fat, FatOn, FatOf, Clusters
<1>6. \/ Sync \/ SyncFs \/ UNCHANGED <<card, data>>
      \/ \E next \in {"copy", "entry"} : WriteBuffer(next)
  BY DEF Next, Step, vars, media, Load, Press, Mount, Count, Open, Refuse, Find, Remove, Reopen,
         Write, Stretch, Search, SearchOn, CardFull, Link, Flush, Copy, Close, FlushLast,
         Entry, PowerCut
<1> QED BY <1>2, <1>3, <1>4, <1>5, <1>6

\* A screenshot changes nothing of the other files, whatever fails and whenever the
\* power is cut (f_open with FA_CREATE_ALWAYS, f_write, f_close).
THEOREM OthersKept == ASSUME TornReads = FALSE PROVE Spec => OtherIntact
<1>1. Inv /\ [Next]_vars =>
        [/\ card'.dir["other"] = card.dir["other"]
         /\ \A c \in others : Fat'[c] = Fat[c] /\ data'[c] = data[c]]_vars
  BY StepIntact
<1> QED BY <1>1, Apartness, PTL DEF Spec, OtherIntact

\* A screenshot that opens no file is between two calls, or in one that only reads.
NothingBegun == pc \in {"idle", "mount", "count", "open"} /\ ~win.dirty

\* The program as it is (sdcard.c:82): if no name fits, as "scope_screen.bmp" does not
\* with its 12 letters (ff.c:1971), a screenshot writes nothing on the card, whatever
\* fails, a read that leaves half a sector in the window included.
THEOREM LongNamesWriteNothing ==
  ASSUME \A body \in Bodies : ~Fitting(body)
  PROVE  Spec => [][UNCHANGED media]_vars
<1>1. Init => NothingBegun
  BY DEF Init, NothingBegun, NoWindow, Window
<1>2. NothingBegun /\ [Next]_vars => NothingBegun' /\ UNCHANGED media
  <2> SUFFICES ASSUME NothingBegun, [Next]_vars PROVE NothingBegun' /\ UNCHANGED media
    OBVIOUS
  <2> USE DEF NothingBegun
  <2>1. CASE Load
    <3>1. ASSUME Proceed PROVE pc' = pc  BY <3>1 DEF Proceed, local
    <3>2. ASSUME Fail PROVE pc' = "idle"  BY <3>2 DEF Fail, InWrite, Done
    <3> QED BY <2>1, <3>1, <3>2 DEF Load, Window
  <2>2. CASE Mount \/ Refuse
    BY <2>2 DEF Mount, Refuse, Mounted, NotMounted, NoWindow, Window, Done, media
  <2>3. CASE Press \/ Count
    BY <2>3 DEF Press, Count, At, media
  <2>4. CASE Open
    <3>1. NotMounted BY <2>4 DEF Open
    <3> QED BY <2>4, <3>1 DEF Open, NotMounted, NoWindow, Window, Done, media
  <2>5. CASE PowerCut
    BY <2>5 DEF PowerCut, NoWindow, Window, Done, media
  <2>6. CASE UNCHANGED vars
    BY <2>6 DEF vars, media, memory, local
  <2>7. ~Sync BY DEF Sync
  <2>8. /\ ~Find /\ ~Remove /\ ~Reopen /\ ~Write /\ ~Stretch /\ ~Search /\ ~SearchOn
        /\ ~CardFull /\ ~Link /\ ~Flush /\ ~Copy /\ ~Close /\ ~FlushLast /\ ~Entry
        /\ ~SyncFs
    BY DEF Find, Remove, Reopen, Write, Stretch, Search, SearchOn, CardFull, Link, Flush,
           Copy, Close, FlushLast, Entry, SyncFs, At
  <2> QED BY <2>1, <2>2, <2>3, <2>4, <2>5, <2>6, <2>7, <2>8 DEF Next, Step
<1> QED BY <1>1, <1>2, PTL DEF Spec

-----------------------------------------------------------------------------

\* Between the calls and in them, a window that is not to be written has what the
\* card has (move_window and sync_window).
THEOREM WindowTrue == ASSUME TornReads = FALSE PROVE Spec => []WindowTells
<1>1. Init => WindowTells
  BY DEF Init, WindowTells, NoWindow, Window
<1>2. Inv /\ WindowTells /\ [Next]_vars => WindowTells'
  <2> SUFFICES ASSUME Inv, WindowTells, [Next]_vars PROVE WindowTells'
    OBVIOUS
  <2>1. CASE Sync
    <3>1. win.dirty /\ win.sect \in Cached /\ win.sect \in DOMAIN card
      BY <2>1 DEF Sync, Inv, WindowOK, MediaOK
    <3>2. CASE UNCHANGED win
      BY <3>1, <3>2 DEF WindowTells
    <3>3. CASE card' = [card EXCEPT ![win.sect] = win.val]
               /\ win' = Window(win.sect, win.val, FALSE)
      BY <3>1, <3>3 DEF WindowTells, Window
    <3> QED BY <2>1, <3>2, <3>3 DEF Sync
  <2>2. CASE Load
    BY <2>2 DEF Load, media, Window, WindowTells
  <2>3. CASE (\E x, y : Put(x, y)) /\ UNCHANGED card
    BY <2>3 DEF Put, Window, WindowTells
  <2>4. CASE UNCHANGED <<card, win>>
    BY <2>4 DEF WindowTells
  <2>5. CASE win'.sect \in {"none", "boot", "fsinfo"}
    BY <2>5 DEF WindowTells
  <2>6. \/ Sync \/ Load \/ UNCHANGED <<card, win>>
        \/ (\E x, y : Put(x, y)) /\ UNCHANGED card
        \/ win'.sect \in {"none", "boot", "fsinfo"}
    <3>1. Mount \/ Open \/ Refuse \/ SyncFs \/ PowerCut =>
            UNCHANGED <<card, win>> \/ win'.sect \in {"none", "boot", "fsinfo"}
      BY DEF Mount, Open, Refuse, Mounted, NotMounted, SyncFs, PowerCut, NoWindow, Window, media
    <3>2. Find \/ Remove \/ Search \/ Link \/ Entry =>
            UNCHANGED <<card, win>> \/ ((\E x, y : Put(x, y)) /\ UNCHANGED card)
      BY DEF Find, Remove, Search, Link, Entry, media
    <3>3. Press \/ Count \/ Reopen \/ Write \/ Stretch \/ SearchOn \/ CardFull \/ Flush
          \/ Copy \/ Close \/ FlushLast => UNCHANGED <<card, win>>
      BY DEF Press, Count, Reopen, Write, Stretch, SearchOn, CardFull, Flush, Copy, Close,
             FlushLast, WriteBuffer, media, memory
    <3>4. UNCHANGED vars => UNCHANGED <<card, win>>
      BY DEF vars, media, memory
    <3> QED BY <3>1, <3>2, <3>3, <3>4 DEF Next, Step
  <2> QED BY <2>1, <2>2, <2>3, <2>4, <2>5, <2>6
<1> QED BY <1>1, <1>2, Apartness, PTL DEF Spec
=============================================================================
