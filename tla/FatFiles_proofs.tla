--------------------------- MODULE FatFiles_proofs ---------------------------
(***************************************************************************)
(* Proofs about the files FatFs leaves on the card, whenever a call fails  *)
(* or the power is cut: that they can be read, that the picture of calls   *)
(* which all succeeded is there, that no cluster is lost unless something  *)
(* fails, and that a card is full only if it is.  For every size of the    *)
(* FAT, every number of pieces, screenshots and cuts, as long as a read    *)
(* that fails leaves the window as it was.                                 *)
(***************************************************************************)
EXTENDS FatVolume_proofs, FatChains_proofs

Entries == [size : Nat, clust : Clusters \cup {0}]
Links   == Clusters \cup {0, EOC}
Number  == Nat \cup {Unknown}
Volumes == [type : {"none", "FAT16", "FAT32"}, fsi : {"disabled", "clean", "dirty"},
            last : Number, free : Number]

\* What FatVolume_proofs shows.
Base == Inv /\ WindowTells

-----------------------------------------------------------------------------
(* The FAT as FatFs sees it, step by step.                                  *)

LEMMA SeenAt ==
  ASSUME NEW c \in Clusters
  PROVE  /\ Seen[c] = IF win.sect = FatOf(c) THEN win.val[c] ELSE card[FatOf(c)][c]
         /\ Fat[c] = card[FatOf(c)][c] /\ FatOf(c) \in {"fat1", "fat2"}
BY DEF Seen, Fat, FatOn, FatOf

LEMMA SeenAtNext ==
  ASSUME NEW c \in Clusters
  PROVE  /\ Seen'[c] = IF win'.sect = FatOf(c) THEN win'.val[c] ELSE card'[FatOf(c)][c]
         /\ Fat'[c] = card'[FatOf(c)][c]
BY DEF Seen, Fat, FatOn, FatOf, Clusters

\* Without a sector of the FAT in the window, or with a clean one, it is the card's.
LEMMA SeenIsFat ==
  ASSUME WindowTells, win.sect \notin {"fat1", "fat2"} \/ ~win.dirty
  PROVE  Seen = Fat
<1>1. \A c \in Clusters : Seen[c] = Fat[c]
  BY SeenAt DEF WindowTells
<1> QED BY <1>1 DEF Seen, Fat, FatOn

\* It is as the card's from the moment the window shows no FAT.
LEMMA SeenLeaves ==
  ASSUME win'.sect \notin {"fat1", "fat2"} PROVE Seen' = Fat'
<1>1. \A c \in Clusters : Seen'[c] = Fat'[c]
  BY SeenAt, SeenAtNext
<1> QED BY <1>1 DEF Seen, Fat, FatOn, Clusters

LEMMA SeenKept ==
  ASSUME UNCHANGED <<card, win>> PROVE Seen' = Seen /\ Fat' = Fat
BY DEF Seen, Fat, FatOn, FatOf, Clusters

\* move_window changes nothing of it: what leaves the window is on the card, and what
\* comes is what was there.
LEMMA SeenMoves ==
  ASSUME TornReads = FALSE, Base, Sync \/ Load
  PROVE  Seen' = Seen
<1>1. ASSUME NEW c \in Clusters PROVE Seen'[c] = Seen[c]
  <2>1. CASE Sync
    <3>1. /\ card' \in {card, [card EXCEPT ![win.sect] = win.val]}
          /\ win'.sect = win.sect /\ win'.val = win.val
      BY <2>1 DEF Sync, Window
    <3>2. FatOf(c) # win.sect => card'[FatOf(c)] = card[FatOf(c)]
      BY <1>1, <3>1, SeenAt DEF Base, Inv, MediaOK, Cached
    <3> QED BY <1>1, <3>1, <3>2, SeenAt, SeenAtNext
  <2>2. CASE Load
    <3>1. /\ card' = card /\ ~win.dirty
          /\ UNCHANGED win \/ win' = Window(Need, card[Need], FALSE)
      BY <2>2 DEF Load, media
    <3>2. Seen[c] = Fat[c]
      BY <1>1, <3>1, SeenIsFat DEF Base
    <3>3. CASE UNCHANGED win
      BY <3>1, <3>3, SeenKept
    <3>4. CASE win' = Window(Need, card[Need], FALSE)
      <4>1. win'.sect = FatOf(c) => win'.val = card[FatOf(c)]
        BY <3>4 DEF Window
      <4> QED BY <1>1, <3>1, <3>2, <4>1, SeenAt, SeenAtNext
    <3> QED BY <3>1, <3>3, <3>4
  <2> QED BY <2>1, <2>2
<1> QED BY <1>1 DEF Seen, Clusters

\* Only the card's own FAT changes, to what FatFs sees.
LEMMA FatMoves ==
  ASSUME Base, Sync
  PROVE  /\ win.sect = "dir" => Fat' = Fat
         /\ win.sect # "dir" => card'.dir = card.dir
         /\ \A c \in Clusters : Fat'[c] \in {Fat[c], Seen[c]}
<1>1. /\ card' \in {card, [card EXCEPT ![win.sect] = win.val]}
      /\ DOMAIN card = {"boot", "fsinfo"} \cup Cached
      /\ win.sect \in Cached
  BY DEF Sync, Base, Inv, MediaOK, WindowOK
<1>2. \A s \in Cached : card'[s] = card[s] \/ (s = win.sect /\ card'[s] = win.val)
  <2>1. CASE card' = card
    BY <2>1
  <2>2. CASE card' = [card EXCEPT ![win.sect] = win.val]
    BY <1>1, <2>2
  <2> QED BY <1>1, <2>1, <2>2
<1>3. ASSUME NEW c \in Clusters
      PROVE  Fat'[c] \in {Fat[c], Seen[c]} /\ (win.sect = "dir" => Fat'[c] = Fat[c])
  <2>1. FatOf(c) \in Cached /\ FatOf(c) # "dir"
    BY <1>3, SeenAt DEF Cached
  <2> QED BY <1>2, <1>3, <2>1, SeenAt, SeenAtNext
<1>4. win.sect = "dir" => Fat' = Fat
  BY <1>3 DEF Fat, FatOn, Clusters
<1> QED BY <1>2, <1>3, <1>4 DEF Cached

\* A link that is changed in the window.
LEMMA SeenPut ==
  ASSUME Base, UNCHANGED card, NEW STATE x, NEW STATE y, x \in Clusters,
         win.sect = FatOf(x), Put(x, y)
  PROVE  /\ Fat' = Fat
         /\ Seen'[x] = y /\ \A c \in Clusters : c # x => Seen'[c] = Seen[c]
<1>1. win'.sect = win.sect /\ win'.val = [win.val EXCEPT ![x] = y]
  BY DEF Put, Window
<1>2. x \in DOMAIN win.val
  BY Here, FatOfPart DEF Base, Inv, WindowOK, Apart, Cached
<1>3. Seen'[x] = y
  BY <1>1, <1>2, SeenAtNext
<1>4. ASSUME NEW c \in Clusters, c # x PROVE Seen'[c] = Seen[c]
  <2>1. win'.val[c] = win.val[c]
    BY <1>1, <1>4
  <2> QED BY <1>1, <1>4, <2>1, SeenAt, SeenAtNext
<1>5. Fat' = Fat
  BY DEF Fat, FatOn, FatOf, Clusters
<1> QED BY <1>3, <1>4, <1>5

\* And an entry.
LEMMA SeenDir ==
  ASSUME WindowTells, UNCHANGED card, win.sect = "dir", NEW STATE x, NEW STATE y, Put(x, y)
  PROVE  Seen' = Seen /\ Fat' = Fat /\ Seen = Fat
<1>1. win'.sect = "dir"
  BY DEF Put, Window
<1>2. Seen = Fat /\ Seen' = Fat'
  BY <1>1, SeenIsFat, SeenLeaves
<1>3. Fat' = Fat
  BY DEF Fat, FatOn, FatOf, Clusters
<1> QED BY <1>2, <1>3

-----------------------------------------------------------------------------
(* Types.                                                                   *)

\* The directory and the FAT, on the card and in the window.
SectorsTyped ==
  /\ card.boot \in {"FAT16", "FAT32"} /\ card.fsinfo \in [free : Number, next : Number]
  /\ card.dir \in [Names -> Entries]
  /\ win.sect = "dir" => win.val \in [Names -> Entries]
  /\ Fat \in [Clusters -> Links] /\ Seen \in [Clusters -> Links]

LocalsTyped ==
  /\ fs \in Volumes
  /\ n \in Nat /\ scl \in Nat /\ (pc \in {"remove", "search"} => scl # 0)
  /\ pc \in InWrite \cup {"idle", "mount", "count", "open", "find",
                         "remove", "reopen", "last", "entry", "sync"}

Typed == SectorsTyped /\ LocalsTyped

LEMMA InitTyped == Init => Typed
<1> SUFFICES ASSUME Init PROVE Typed
  OBVIOUS
<1>1. PICK k \in Cards : card = k.card
  BY DEF Init
<1>2. /\ k.card \in [boot : {"FAT16", "FAT32"}, fsinfo : [free : Number, next : Number],
                     dir : [Names -> Entries],
                     fat1 : [2..Split -> Nat], fat2 : [Split + 1..LastCluster -> Nat]]
      /\ \A cl \in Clusters : k.card[FatOf(cl)][cl] \in Links
  BY CardAssumption DEF Number, Entries, Links
<1>3. win = NoWindow /\ win.sect = "none" /\ win.dirty = FALSE
  BY DEF Init, NoWindow, Window
<1>4. Seen = Fat
  BY <1>3, SeenIsFat DEF WindowTells
<1>5. Fat \in [Clusters -> Links]
  BY <1>1, <1>2 DEF Fat, FatOn
<1>6. SectorsTyped
  BY <1>1, <1>2, <1>3, <1>4, <1>5 DEF SectorsTyped
<1>7. LocalsTyped
  BY DEF Init, LocalsTyped, NoVolume, Number, Volumes
<1> QED BY <1>6, <1>7 DEF Typed

\* The sectors: only four actions put something in the window, and one writes it.
LEMMA SectorsKept ==
  ASSUME Base, Typed, UNCHANGED <<card, win>> PROVE SectorsTyped'
BY SeenKept DEF Typed, SectorsTyped, Entries, Links, Clusters, Names, Number

LEMMA SectorsMoved ==
  ASSUME TornReads = FALSE, Base, Typed, Sync \/ Load PROVE SectorsTyped'
<1>1. Seen' = Seen
  BY SeenMoves
<1>2. CASE Sync
  <2>1. /\ card' \in {card, [card EXCEPT ![win.sect] = win.val]}
        /\ DOMAIN card = {"boot", "fsinfo"} \cup Cached /\ win.sect \in Cached
        /\ win'.sect = win.sect /\ win'.val = win.val
    BY <1>2 DEF Sync, Window, Base, Inv, MediaOK, WindowOK
  <2>2. card'.boot = card.boot /\ card'.fsinfo = card.fsinfo
    BY <2>1 DEF Cached
  <2>3. card'.dir \in [Names -> Entries]
    BY <2>1 DEF Typed, SectorsTyped, Cached
  <2>4. Fat' \in [Clusters -> Links]
    <3>1. \A c \in Clusters : Fat'[c] \in Links
      BY <1>2, FatMoves DEF Typed, SectorsTyped
    <3> QED BY <3>1 DEF Fat, FatOn, Clusters
  <2> QED BY <1>1, <2>1, <2>2, <2>3, <2>4
          DEF Typed, SectorsTyped, Entries, Links, Clusters, Names, Number
<1>3. CASE Load
  <2>1. card' = card /\ (win' = win \/ win' = Window(Need, card[Need], FALSE))
    BY <1>3 DEF Load, media
  <2>2. win'.sect = "dir" => win'.val \in [Names -> Entries]
    BY <2>1 DEF Window, Typed, SectorsTyped
  <2>3. Fat' = Fat
    BY <2>1 DEF Fat, FatOn, FatOf, Clusters
  <2> QED BY <1>1, <2>1, <2>2, <2>3
          DEF Typed, SectorsTyped, Entries, Links, Clusters, Names, Number
<1> QED BY <1>2, <1>3

\* A link, or an entry, is put in the window.
LEMMA SectorsPut ==
  ASSUME Base, Typed, UNCHANGED card, NEW STATE x, NEW STATE y, Put(x, y),
         \/ x \in Clusters /\ y \in Links /\ win.sect = FatOf(x)
         \/ x = "ours" /\ y \in Entries /\ win.sect = "dir"
  PROVE  SectorsTyped'
<1>1. win'.sect = win.sect /\ win'.val = [win.val EXCEPT ![x] = y]
  BY DEF Put, Window
<1>2. CASE x \in Clusters /\ y \in Links /\ win.sect = FatOf(x)
  <2>1. Fat' = Fat /\ \A c \in Clusters : Seen'[c] \in Links
    BY <1>2, SeenPut DEF Typed, SectorsTyped
  <2>2. Seen' \in [Clusters -> Links] /\ win'.sect # "dir"
    BY <1>1, <1>2, <2>1 DEF Seen, Clusters, FatOf
  <2> QED BY <2>1, <2>2 DEF Typed, SectorsTyped, Entries, Links, Clusters, Names, Number
<1>3. CASE x = "ours" /\ y \in Entries /\ win.sect = "dir"
  <2>1. Seen' = Seen /\ Fat' = Fat
    BY <1>3, SeenDir DEF Base
  <2>2. win'.val \in [Names -> Entries]
    BY <1>1, <1>3 DEF Typed, SectorsTyped
  <2> QED BY <2>1, <2>2 DEF Typed, SectorsTyped, Entries, Links, Clusters, Names, Number
<1> QED BY <1>2, <1>3

\* The window is left to the boot sector, to FSINFO, or to nothing.
LEMMA SectorsLeft ==
  ASSUME Base, Typed, win'.sect \in {"none", "boot", "fsinfo"},
         \A s \in {"boot", "dir", "fat1", "fat2"} : card'[s] = card[s],
         card'.fsinfo \in [free : Number, next : Number]
  PROVE  SectorsTyped' /\ Fat' = Fat /\ Seen' = Fat
<1>1. Fat' = Fat
  BY DEF Fat, FatOn, FatOf, Clusters
<1>2. Seen' = Fat'
  BY SeenLeaves
<1> QED BY <1>1, <1>2 DEF Typed, SectorsTyped, Entries, Links, Clusters, Names, Number

\* Where the window is when a step looks at a link, or at the directory.
LEMMA AtCluster ==
  ASSUME Base, At("remove") \/ At("search")
  PROVE  /\ clst \in Clusters /\ win.sect = FatOf(clst) /\ win.val[clst] = Seen[clst]
         /\ win.sect # "dir" /\ (pc = "remove" => clst \notin others)
<1>1. clst \in Clusters /\ (pc = "remove" => clst \notin others)
  BY DEF At, Base, Inv, ProgramOK, Mine
<1>2. win.sect = FatOf(clst)
  BY DEF At, Need
<1> QED BY <1>1, <1>2, SeenAt

LEMMA AtEnd ==
  ASSUME Base, At("stretch") \/ At("link")
  PROVE  /\ fil.clust \in Clusters /\ win.sect = FatOf(fil.clust)
         /\ win.val[fil.clust] = Seen[fil.clust] /\ win.sect # "dir"
         /\ pc = "link" => clst \in Clusters
<1>1. fil.clust \in Clusters /\ (pc = "link" => clst \in Clusters)
  BY DEF At, Base, Inv, ProgramOK, Placed, OurFile, Mine0, Mine
<1>2. win.sect = FatOf(fil.clust)
  BY DEF At, Need
<1> QED BY <1>1, <1>2, SeenAt

LEMMA AtDir ==
  ASSUME At("find") \/ At("reopen") \/ At("entry") PROVE win.sect = "dir"
BY DEF At, Need

LEMMA NextSectors ==
  ASSUME TornReads = FALSE, Base, Typed, [Next]_vars PROVE SectorsTyped'
<1>1. CASE Find
  BY <1>1, SectorsPut, AtDir DEF Find, media, Entries
<1>2. CASE Remove
  <2>1. At("remove") /\ card' = card /\ (win' = win \/ Put(clst, 0))
    BY <1>2 DEF Remove, media
  <2>2. CASE win' = win
    BY <2>1, <2>2, SectorsKept
  <2>3. CASE Put(clst, 0)
    BY <2>1, <2>3, SectorsPut, AtCluster DEF Links
  <2> QED BY <2>1, <2>2, <2>3
<1>3. CASE Search
  BY <1>3, SectorsPut, AtCluster DEF Search, media, Links
<1>4. CASE Link
  BY <1>4, SectorsPut, AtEnd DEF Link, media, Links, At
<1>5. CASE Entry
  <2>1. [size |-> fil.fsize, clust |-> fil.sclust] \in Entries
    BY DEF Entries, Base, Inv, ProgramOK, Placed, OurFile, Mine0, Mine
  <2> QED BY <1>5, <2>1, SectorsPut, AtDir DEF Entry, media
<1>6. CASE Mount \/ Open \/ Refuse \/ PowerCut
  <2>1. card' = card /\ (UNCHANGED win \/ win'.sect \in {"none", "boot", "fsinfo"})
    BY <1>6 DEF Mount, Open, Refuse, Mounted, NotMounted, PowerCut, NoWindow, Window, media
  <2>2. CASE UNCHANGED win
    BY <2>1, <2>2, SectorsKept
  <2>3. CASE win'.sect \in {"none", "boot", "fsinfo"}
    BY <2>1, <2>3, SectorsLeft DEF Typed, SectorsTyped
  <2> QED BY <2>1, <2>2, <2>3
<1>7. CASE SyncFs
  <2> DEFINE info == [free |-> fs.free, next |-> fs.last]
  <2>1. info \in [free : Number, next : Number]
    BY DEF Typed, LocalsTyped, Volumes
  <2>2. \/ UNCHANGED <<card, win>>
        \/ win'.sect = "fsinfo" /\ card' \in {card, [card EXCEPT !.fsinfo = info]}
    BY <1>7 DEF SyncFs, Window
  <2>3. CASE win'.sect = "fsinfo" /\ card' \in {card, [card EXCEPT !.fsinfo = info]}
    <3>1. \A s \in {"boot", "dir", "fat1", "fat2"} : card'[s] = card[s]
      BY <2>3 DEF Base, Inv, MediaOK, Cached
    <3>2. card'.fsinfo \in [free : Number, next : Number]
      BY <2>1, <2>3 DEF Typed, SectorsTyped, Base, Inv, MediaOK
    <3> QED BY <2>3, <3>1, <3>2, SectorsLeft
  <2> QED BY <2>2, <2>3, SectorsKept
<1>8. CASE Press \/ Count \/ Reopen \/ Write \/ Stretch \/ SearchOn \/ CardFull \/ Flush
           \/ Copy \/ Close \/ FlushLast \/ UNCHANGED vars
  <2>1. UNCHANGED <<card, win>>
    BY <1>8 DEF Press, Count, Reopen, Write, Stretch, SearchOn, CardFull, Flush, Copy, Close,
                FlushLast, WriteBuffer, media, memory, vars
  <2> QED BY <2>1, SectorsKept
<1> QED BY <1>1, <1>2, <1>3, <1>4, <1>5, <1>6, <1>7, <1>8, SectorsMoved DEF Next, Step

-----------------------------------------------------------------------------

\* A number of free clusters stays a number, or unknown: 0xFFFFFFFF is what is left
\* when 0 is counted down.
LEMMA CountedTyped ==
  ASSUME NEW f \in Volumes, NEW c \in Nat
  PROVE  /\ Freed(f) \in Volumes /\ Taken(f, c) \in Volumes
         /\ [f EXCEPT !.last = c] \in Volumes
         /\ [f EXCEPT !.free = c, !.fsi = Touched(@)] \in Volumes
<1>1. Touched(f.fsi) \in {"disabled", "clean", "dirty"} /\ c \in Number
  BY DEF Volumes, Touched, Number
<1>2. f.free # Unknown => f.free + 1 \in Number /\ f.free - 1 \in Number
  BY DEF Volumes, Number, Unknown
<1>3. \A u \in Number, w \in {"disabled", "clean", "dirty"} :
        [f EXCEPT !.free = u, !.fsi = w] \in Volumes
  BY DEF Volumes
<1>4. \A g \in Volumes : [g EXCEPT !.last = c] \in Volumes
  BY <1>1 DEF Volumes
<1>5. Freed(f) \in Volumes
  BY <1>1, <1>2, <1>3 DEF Freed
<1>6. Taken(f, c) \in Volumes
  <2>1. [f EXCEPT !.last = c, !.free = f.free - 1, !.fsi = Touched(f.fsi)]
          = [[f EXCEPT !.free = f.free - 1, !.fsi = Touched(f.fsi)] EXCEPT !.last = c]
    BY DEF Volumes
  <2> QED BY <1>1, <1>2, <1>3, <1>4, <2>1 DEF Taken
<1> QED BY <1>1, <1>3, <1>4, <1>5, <1>6

\* The labels that f_write goes through, and all the others.
Labels == InWrite \cup {"idle", "mount", "count", "open", "find",
                       "remove", "reopen", "last", "entry", "sync"}

LEMMA LocalsKept ==
  ASSUME Typed, fs' \in Volumes, n' \in Nat, scl' \in Nat, pc' \in Labels,
         pc' \in {"remove", "search"} => scl' # 0
  PROVE  LocalsTyped'
BY DEF LocalsTyped, Labels, Volumes, Number, InWrite

LEMMA FailTyped == ASSUME Typed, Fail PROVE LocalsTyped'
<1>1. fs' \in Volumes
  <2>1. fs \in Volumes /\ n \in Nat
    BY DEF Typed, LocalsTyped
  <2>2. fs' \in {fs, [fs EXCEPT !.free = n, !.fsi = Touched(@)]}
    BY DEF Fail
  <2> QED BY <2>1, <2>2, CountedTyped
<1>2. n' \in Nat /\ scl' = 0 /\ pc' \in {"idle", "write"}
  BY DEF Fail, Done, WriteReturns, Typed, LocalsTyped
<1> QED BY <1>1, <1>2, LocalsKept DEF Labels, InWrite

LEMMA ProceedTyped == ASSUME Typed, Proceed PROVE LocalsTyped'
BY LocalsKept DEF Proceed, local, Typed, LocalsTyped, Labels

LEMMA CountTyped == ASSUME Base, Typed, Count PROVE LocalsTyped'
<1>1. clst \in {1, 2} /\ At("count")
  BY DEF Count, At, Base, Inv, ProgramOK
<1>2. win.sect = FatSectors[clst] /\ FatSectors[clst] \in {"fat1", "fat2"}
  BY <1>1 DEF At, Need, FatSectors
<1>3. DOMAIN win.val = Part(win.sect)
  BY <1>2 DEF Base, Inv, WindowOK, Apart, Cached
<1> DEFINE S == {c \in DOMAIN win.val : win.val[c] = 0}
           found == n + Cardinality(S)
<1>4. Cardinality(S) \in Nat
  <2>1. IsFiniteSet(Part("fat1")) /\ IsFiniteSet(Part("fat2"))
    BY FS_Interval, VolumeAssumption DEF Part
  <2>2. S \in SUBSET Part(win.sect)
    BY <1>3
  <2> HIDE DEF S
  <2> QED BY <1>2, <2>1, <2>2, FS_Subset, FS_CardinalityType
<1>5. n \in Nat /\ found \in Nat /\ fs \in Volumes /\ scl \in Nat
  BY <1>4 DEF Typed, LocalsTyped
<1>6. /\ pc' \in {"count", "open"} /\ n' \in {0, found} /\ scl' = scl
      /\ fs' \in {fs, [fs EXCEPT !.free = found, !.fsi = Touched(@)]}
  BY <1>1 DEF Count, At
<1> HIDE DEF found
<1>7. fs' \in Volumes
  BY <1>5, <1>6, CountedTyped
<1> QED BY <1>5, <1>6, <1>7, LocalsKept DEF Labels

LEMMA MountedTyped ==
  ASSUME Base, Typed, Mounted PROVE fs' \in Volumes
<1>1. Unknown \in Number /\ card.fsinfo.free \in Number /\ card.fsinfo.next \in Number
      /\ card.boot \in {"FAT16", "FAT32"}
  BY DEF Number, Typed, SectorsTyped
<1>2. fs' \in {[type |-> "FAT32", fsi |-> "clean", last |-> card.fsinfo.next,
                free |-> card.fsinfo.free],
               [type |-> card.boot, fsi |-> "disabled", last |-> Unknown, free |-> Unknown]}
  BY DEF Mounted, NoVolume
<1> QED BY <1>1, <1>2 DEF Volumes

LEMMA NotMountedTyped ==
  ASSUME Typed, NotMounted PROVE LocalsTyped'
BY LocalsKept DEF NotMounted, Done, NoVolume, Volumes, Number, Labels

LEMMA TurnTyped ==
  ASSUME Base, Typed, NEW STATE f, Turn(f), UNCHANGED <<fs, n>> PROVE LocalsTyped'
<1>1. Hint \in Nat /\ Hint # 0
  BY VolumeAssumption DEF Hint, Clusters
<1>2. scl' \in Nat /\ pc' \in {"copy", "stretch", "search"} /\ (pc' = "search" => scl' # 0)
  BY <1>1 DEF Turn, Typed, LocalsTyped
<1> QED BY <1>2, LocalsKept DEF Typed, LocalsTyped, Labels, InWrite

LEMMA ReturnTyped ==
  ASSUME Typed, NEW STATE f, WriteReturns(f), UNCHANGED fs PROVE LocalsTyped'
BY LocalsKept DEF WriteReturns, Typed, LocalsTyped, Labels, InWrite

LEMMA AllocatedTyped ==
  ASSUME Typed, NEW STATE c, c \in Clusters, Allocated(c), UNCHANGED n PROVE LocalsTyped'
<1>1. c \in Nat
  BY DEF Clusters
<1> QED BY <1>1, CountedTyped, LocalsKept DEF Allocated, Typed, LocalsTyped, Labels, InWrite

LEMMA BufferTyped ==
  ASSUME Typed, NEW CONSTANT next \in {"copy", "entry"}, WriteBuffer(next) PROVE LocalsTyped'
<1>1. CASE Fail
  BY <1>1, FailTyped
<1>2. CASE ~Fail
  BY <1>2, LocalsKept DEF WriteBuffer, Typed, LocalsTyped, Labels, InWrite
<1> QED BY <1>1, <1>2

LEMMA NextLocals ==
  ASSUME Base, Typed, [Next]_vars PROVE LocalsTyped'
<1> USE DEF Typed
<1>1. CASE Sync \/ Load
  BY <1>1, FailTyped, ProceedTyped DEF Sync, Load
<1>2. CASE Mount \/ Open \/ Refuse
  <2>1. CASE NotMounted
    BY <2>1, NotMountedTyped
  <2>2. CASE (Mount \/ Open) /\ ~NotMounted
    BY <2>2, MountedTyped, LocalsKept DEF Mount, Open, LocalsTyped, Labels
  <2>3. CASE Refuse
    <3>1. fs' \in Volumes
      BY <2>3, MountedTyped DEF Refuse, LocalsTyped
    <3> QED BY <2>3, <3>1, LocalsKept DEF Refuse, Done, Labels
  <2> QED BY <1>2, <2>1, <2>2, <2>3
<1>3. CASE Find
  <2>1. win.val["ours"].clust \in Clusters \cup {0}
    BY <1>3, AtDir DEF Find, SectorsTyped, Entries, Names
  <2>2. /\ scl' = win.val["ours"].clust /\ UNCHANGED <<fs, n>>
        /\ pc' = "reopen" \/ (pc' = "remove" /\ scl' # 0)
    BY <1>3 DEF Find, memory
  <2> QED BY <2>1, <2>2, LocalsKept DEF LocalsTyped, Labels, Clusters
<1>4. CASE Remove
  <2> DEFINE g == IF win.val[clst] = 0 THEN fs ELSE Freed(fs)
  <2>1. At("remove") /\ scl' = scl /\ scl \in Nat /\ scl # 0 /\ n' = n /\ fs \in Volumes
    BY <1>4 DEF Remove, At, LocalsTyped
  <2>2. g \in Volumes /\ Freed(fs) \in Volumes /\ scl - 1 \in Nat
    <3>1. scl - 1 \in Nat
      BY <2>1
    <3>2. Freed(fs) \in Volumes
      BY <2>1, CountedTyped
    <3> QED BY <2>1, <3>1, <3>2
  <2>3. \/ pc' = pc /\ fs' = Freed(fs)
        \/ pc' = "reopen" /\ fs' = [g EXCEPT !.last = scl - 1]
    BY <1>4 DEF Remove
  <2> HIDE DEF g
  <2>4. fs' \in Volumes /\ pc' \in {"remove", "reopen"}
    BY <2>1, <2>2, <2>3, CountedTyped DEF At
  <2> QED BY <2>1, <2>4, LocalsKept DEF LocalsTyped, Labels
<1>5. CASE Write
  <2>1. CASE Turn(fil)
    BY <1>5, <2>1, TurnTyped DEF Write, WriteReturns
  <2>2. CASE ~Turn(fil)
    BY <1>5, <2>2, ReturnTyped DEF Write
  <2> QED BY <2>1, <2>2
<1>6. CASE Stretch
  <2>1. fil.clust \in Nat /\ fil.clust # 0 /\ scl' = fil.clust /\ pc' = "search"
        /\ UNCHANGED <<fs, n>>
    BY <1>6, AtEnd DEF Stretch, memory, Clusters
  <2> QED BY <2>1, LocalsKept DEF LocalsTyped, Labels, InWrite
<1>7. CASE Search
  <2>1. CASE Allocated(clst)
    BY <1>7, <2>1, AllocatedTyped, AtCluster DEF Search
  <2>2. CASE ~Allocated(clst)
    BY <1>7, <2>2, LocalsKept DEF Search, LocalsTyped, Labels, InWrite
  <2> QED BY <2>1, <2>2
<1>8. CASE SearchOn
  BY <1>8, LocalsKept DEF SearchOn, memory, LocalsTyped, Labels, At
<1>9. CASE CardFull
  BY <1>9, ReturnTyped DEF CardFull, EndOfWrite
<1>10. CASE Link
  BY <1>10, AllocatedTyped, AtEnd DEF Link, At
<1>11. CASE Flush \/ FlushLast
  BY <1>11, BufferTyped DEF Flush, FlushLast
<1>12. CASE Copy
  <2>1. CASE btw = 1
    BY <1>12, <2>1, ReturnTyped DEF Copy, EndOfWrite
  <2>2. CASE btw # 1
    BY <1>12, <2>2, TurnTyped DEF Copy
  <2> QED BY <2>1, <2>2
<1>13. CASE SyncFs
  <2>1. fs' \in {fs, [fs EXCEPT !.fsi = "clean"]}
    BY <1>13 DEF SyncFs
  <2>2. fs' \in Volumes
    BY <2>1 DEF LocalsTyped, Volumes
  <2> QED BY <1>13, <2>2, LocalsKept DEF SyncFs, Done, Labels
<1>14. CASE PowerCut
  BY <1>14, LocalsKept DEF PowerCut, Done, NoVolume, Volumes, Number, Labels
<1>15. CASE Press
  BY <1>15, LocalsKept DEF Press, NoVolume, Volumes, Number, Labels, LocalsTyped
<1>16. CASE Reopen \/ Close \/ Entry
  BY <1>16, LocalsKept DEF Reopen, Close, Entry, Done, LocalsTyped, Labels, InWrite
<1>17. CASE UNCHANGED vars
  BY <1>17, LocalsKept DEF vars, memory, local, LocalsTyped, Labels
<1> QED
  BY <1>1, <1>2, <1>3, <1>4, <1>5, <1>6, <1>7, <1>8, <1>9, <1>10, <1>11, <1>12, <1>13,
     <1>14, <1>15, <1>16, <1>17, CountTyped DEF Next, Step

LEMMA TypesHold == ASSUME TornReads = FALSE PROVE Spec => [](Base /\ Typed)
<1>1. Base /\ Typed /\ [Next]_vars => Typed'
  BY NextSectors, NextLocals DEF Typed
<1>2. Inv /\ WindowTells => Base
  BY DEF Base
<1> QED BY <1>1, <1>2, InitTyped, Apartness, WindowTrue, PTL DEF Spec

-----------------------------------------------------------------------------
(* The search for a free cluster.                                           *)

\* The clusters from the one the search started after, round the end of the FAT, to
\* the one it looks at are in use.
Searched ==
  pc = "search" =>
    /\ scl \in 1..LastCluster /\ clst \in Clusters
    /\ IF scl < clst THEN \A c \in Clusters : scl < c /\ c < clst => Seen[c] # 0
       ELSE \A c \in Clusters : scl < c \/ c < clst => Seen[c] # 0

\* Between a cluster and the next of the search there is none.
LEMMA AfterIsNext ==
  ASSUME NEW c \in 1..LastCluster
  PROVE  /\ After(c) \in Clusters
         /\ c < After(c) => \A d \in Clusters : ~(c < d /\ d < After(c))
         /\ ~(c < After(c)) => \A d \in Clusters : ~(c < d) /\ ~(d < After(c))
<1>1. LastCluster \in Nat /\ LastCluster > 2
  BY VolumeAssumption
<1> QED BY <1>1 DEF After, Clusters

\* A search that starts has seen nothing.
LEMMA SearchStarts ==
  ASSUME pc' = "search", NEW STATE c, c \in 1..LastCluster, scl' = c, clst' = After(c)
  PROVE  Searched'
<1>1. /\ clst' \in Clusters
      /\ c < clst' => \A d \in Clusters : ~(c < d /\ d < clst')
      /\ ~(c < clst') => \A d \in Clusters : ~(c < d) /\ ~(d < clst')
  BY AfterIsNext
<1> QED BY <1>1 DEF Searched, Clusters

LEMMA TurnSearched ==
  ASSUME NEW STATE f, Turn(f) PROVE Searched'
<1>1. Hint \in 1..LastCluster
  BY VolumeAssumption DEF Hint, Clusters
<1>2. CASE pc' = "search"
  <2>1. scl' = Hint /\ clst' = After(Hint)
    BY <1>2 DEF Turn
  <2> QED BY <1>1, <1>2, <2>1, SearchStarts
<1> QED BY <1>2 DEF Searched

LEMMA NextSearched ==
  ASSUME TornReads = FALSE, Base, Typed, Searched, [Next]_vars PROVE Searched'
<1>1. CASE pc' # "search"
  BY <1>1 DEF Searched
<1>2. CASE Stretch
  <2>1. fil.clust \in 1..LastCluster /\ scl' = fil.clust /\ clst' = After(fil.clust)
        /\ pc' = "search"
    BY <1>2, AtEnd DEF Stretch, Clusters
  <2> QED BY <2>1, SearchStarts
<1>3. CASE SearchOn
  <2>1. /\ pc = "search" /\ clst' = After(clst) /\ scl' = scl /\ Seen' = Seen
        /\ Seen[clst] # 0 /\ clst # scl /\ ~(clst = LastCluster /\ scl = 1)
    BY <1>3, AtCluster, SeenKept DEF SearchOn, At, Over, media, memory
  <2>2. LastCluster \in Nat /\ scl \in 1..LastCluster /\ clst \in Clusters /\ clst' \in Clusters
    BY <2>1, VolumeAssumption DEF Searched, After, Clusters
  <2>3. CASE clst = LastCluster
    <3>1. clst' = 2 /\ scl < clst /\ ~(scl < clst')
      BY <2>1, <2>2, <2>3, VolumeAssumption DEF After, Clusters
    <3>2. \A c \in Clusters : scl < c => Seen[c] # 0
      BY <2>1, <2>2, <2>3, <3>1 DEF Searched, Clusters
    <3> QED BY <2>1, <2>2, <3>1, <3>2 DEF Searched, Clusters
  <2>4. CASE clst # LastCluster
    <3>1. clst' = clst + 1
      BY <2>1, <2>2, <2>4 DEF After, Clusters
    <3>2. CASE scl < clst
      <4>1. \A c \in Clusters : scl < c /\ c < clst' => Seen[c] # 0
        BY <2>1, <2>2, <3>1, <3>2 DEF Searched, Clusters
      <4> QED BY <2>1, <2>2, <3>1, <3>2, <4>1 DEF Searched, Clusters
    <3>3. CASE clst < scl
      <4>1. \A c \in Clusters : scl < c \/ c < clst' => Seen[c] # 0
        BY <2>1, <2>2, <3>1, <3>3 DEF Searched, Clusters
      <4> QED BY <2>1, <2>2, <3>1, <3>3, <4>1 DEF Searched, Clusters
    <3> QED BY <2>1, <2>2, <3>2, <3>3 DEF Clusters
  <2> QED BY <2>3, <2>4
<1>4. CASE Write
  BY <1>4, TurnSearched DEF Write, WriteReturns, Searched
<1>5. CASE Copy
  BY <1>5, TurnSearched DEF Copy, EndOfWrite, WriteReturns, Searched
<1>6. CASE Sync \/ Load
  <2>1. Seen' = Seen
    BY <1>6, SeenMoves
  <2>2. CASE Proceed
    BY <2>1, <2>2 DEF Proceed, local, Searched, Clusters
  <2>3. CASE Fail
    BY <2>3 DEF Fail, WriteReturns, Done, Searched
  <2> QED BY <1>6, <2>2, <2>3 DEF Sync, Load
<1>7. CASE UNCHANGED vars
  BY <1>7, SeenKept DEF vars, media, memory, local, Searched, Clusters
<1>8. CASE Press \/ Mount \/ Count \/ Open \/ Refuse \/ Find \/ Remove \/ Reopen \/ Search
           \/ CardFull \/ Link \/ Flush \/ Close \/ FlushLast \/ Entry \/ SyncFs \/ PowerCut
  BY <1>8 DEF Press, Mount, Mounted, NotMounted, Count, Open, Refuse, Find, Remove, Reopen, Search,
       CardFull, Link, Flush, Close, FlushLast, Entry, SyncFs, PowerCut, WriteBuffer, Fail,
       WriteReturns, EndOfWrite, Done, Allocated, At, Searched
<1> QED BY <1>2, <1>3, <1>4, <1>5, <1>6, <1>7, <1>8 DEF Next, Step

\* With a name that fits, a picture is cut short only on a full card: create_chain, which
\* starts at the hint of FSINFO, in the hole of the old file or after the last cluster of
\* the new one, has looked at every cluster when it gives up.
THEOREM FullIsFullHolds == ASSUME TornReads = FALSE PROVE Spec => FullIsFull
<1>1. Init => Searched
  BY DEF Init, Searched
<1>2. Base /\ Typed /\ Searched /\ [Next]_vars => Searched'
  BY NextSearched
<1>3. Base /\ Searched /\ CardFull => \A c \in Clusters : Seen[c] # 0
  <2> SUFFICES ASSUME Base, Searched, CardFull, NEW c \in Clusters PROVE Seen[c] # 0
    OBVIOUS
  <2>1. At("search") /\ pc = "search" /\ Seen[clst] # 0
        /\ (clst = scl \/ (clst = LastCluster /\ scl = 1))
    BY AtCluster DEF CardFull, At, Over
  <2>2. scl \in 1..LastCluster /\ clst \in Clusters /\ LastCluster \in Nat
    BY <2>1, VolumeAssumption DEF Searched
  <2> QED BY <2>1, <2>2 DEF Searched, Clusters
<1>4. Base /\ Typed /\ Searched /\ [Next]_vars =>
        [CardFull => \A c \in Clusters : Seen[c] # 0]_vars
  BY <1>3
<1> QED BY <1>1, <1>2, <1>4, TypesHold, PTL DEF Spec, FullIsFull

-----------------------------------------------------------------------------
(* The invariant of the files.                                              *)

\* Where the chain of the new file is on its way to the card.
InFile == InWrite \cup {"last", "entry"}

\* The pieces that the write under way has put, and the piece that is next.
Begun    == IF btw = 0 THEN 0 ELSE LengthOf(line) - btw
Upcoming == FirstOf(line) + Begun

\* The write under way and the pointer of the file go together.
Paced ==
  /\ line \in 0..Lines + 1
  /\ pc \notin InFile \cup {"sync"} => line = 0 /\ fil = NoFile
  /\ pc \in InWrite \ {"write"} => line <= Lines /\ btw \in 1..LengthOf(line) /\ ~fil.err
  /\ pc \notin InWrite \ {"write"} => btw = 0
  /\ pc \in {"last", "entry", "sync"} => line = Lines + 1
  /\ fil.fsize <= fil.fptr /\ fil.fptr < Upcoming
  /\ ~fil.err => fil.fptr = fil.fsize + Begun

\* While a chain is removed or on its way, the entry of the file is empty on the card, or
\* it is about to be.
Phased ==
  /\ win.dirty => pc \notin {"count", "open", "find"}
  /\ pc \in InFile \cup {"reopen"} => card.dir["ours"] = NoEntry
  /\ pc = "remove" => card.dir["ours"] = NoEntry \/ (win.sect = "dir" /\ win.dirty)
  /\ pc \in InFile \cup {"remove", "reopen"} /\ win.sect = "dir" => win.val["ours"] = NoEntry
  /\ pc = "sync" => win.sect = "dir" /\ (win.dirty => card.dir["ours"] = NoEntry)
  /\ pc = "entry" => ~fil.dirty

\* A chain that has no cluster of another file.
Ours(fat, head, s) == Chained(fat, head, s) /\ ClustersIn(s) \cap others = {}

\* Both files on the card have a chain that is long enough for them.
OursReadable  == \E s \in Seq(Clusters) : /\ Ours(Fat, card.dir["ours"].clust, s)
                                          /\ Fits(card.dir["ours"], s)
OtherReadable == \E s \in Seq(Clusters) : /\ Chained(Fat, card.dir["other"].clust, s)
                                          /\ Fits(card.dir["other"], s)
                                          /\ ClustersIn(s) \subseteq others

\* What is left of the chain of the old file.
Removing == pc = "remove" => \E s \in Seq(Clusters) : Ours(Seen, clst, s) /\ s # <<>>

\* The chain of the new file, and the cluster that is to be linked to it.
Linked(s) ==
  /\ Ours(Seen, fil.sclust, s)
  /\ fil.clust = IF s = <<>> THEN 0 ELSE s[Len(s)]
  /\ pc = "link" => clst \notin ClustersIn(s) /\ clst \notin others /\ Seen[clst] = EOC

\* Its length goes with the pointer, and the buffer has the sector the pointer is in.
Sized(s) ==
  /\ fil.fptr <= 2 * Len(s)
  /\ fil.fsize = 0 => s = <<>> \/ pc = "copy"
  /\ ~fil.err => 2 * Len(s) <= fil.fptr + (IF pc \in {"flush", "copy"} THEN 2 ELSE 1)
  /\ pc \in {"search", "stretch", "link"} => 2 * Len(s) = fil.fptr
  /\ pc \in {"stretch", "link"} => fil.fptr # 0
  /\ pc \in {"flush", "copy"} => 2 * Len(s) > fil.fptr
  /\ pc \in {"flush", "last"} => fil.dirty
  /\ pc = "flush" => fil.fptr % 2 = 0
  /\ pc = "copy" => (fil.dirty <=> fil.fptr % 2 = 1)
  /\ pc = "write" /\ fil.fptr % 2 = 1 => fil.dirty
  /\ fil.dirty => fil.fptr # 0 /\ fil.dsect = s[(fil.fptr + 1) \div 2]

\* What the sectors of the files hold, with the one in the buffer.
Held == [c \in Clusters |-> IF fil.dirty /\ fil.dsect = c THEN fil.buf ELSE data[c]]

\* The first pieces of a chain are pieces of the picture, in their order.
Stored(d, s, size, g) ==
  /\ g \in [1..size -> 1..1 + 2 * Lines]
  /\ \A i, j \in 1..size : i < j => g[i] < g[j]
  /\ \A k \in 1..size : d[s[(k + 1) \div 2]][2 - (k % 2)] = <<pic, g[k]>>

\* They are the pieces that have been put, and all of them unless a call has failed.
Filled(s, g) ==
  /\ Stored(Held, s, fil.fptr, g)
  /\ \A k \in 1..fil.fptr : g[k] < Upcoming
  /\ ~lost => ~fil.err /\ fil.fptr = Upcoming - 1 /\ \A k \in 1..fil.fptr : g[k] = k

Writing ==
  pc \in InFile =>
    \E s \in Seq(Clusters), g \in [1..fil.fptr -> 1..1 + 2 * Lines] :
      Linked(s) /\ Sized(s) /\ Filled(s, g)

\* The entry that is about to be written.
Publishing ==
  pc = "sync" =>
    \E s \in Seq(Clusters), g \in [1..win.val["ours"].size -> 1..1 + 2 * Lines] :
      /\ Ours(Fat, win.val["ours"].clust, s) /\ Fits(win.val["ours"], s)
      /\ win.val["ours"].size \in 0..1 + 2 * Lines
      /\ Stored(data, s, win.val["ours"].size, g)
      /\ ~lost => win.val["ours"].size = 1 + 2 * Lines
                    /\ \A k \in 1..win.val["ours"].size : g[k] = k

Known == Base /\ Typed

FilesInv == /\ Known /\ Paced /\ Phased /\ OursReadable /\ OtherReadable
            /\ Removing /\ Writing /\ Publishing

-----------------------------------------------------------------------------
(* Where the program is, and where the pointer of the file.                 *)

\* The window only moves where a step looks at a sector, or at the end of f_close.
LEMMA Stalls ==
  ASSUME Sync \/ Load
  PROVE  /\ pc \in {"count", "find", "reopen", "entry", "remove", "search", "stretch",
                    "link", "sync"}
         /\ Load => pc # "sync"
BY DEF Sync, Load, Need

\* The types of the file, for the arithmetic of the pieces.
LEMMA FileTyped ==
  ASSUME Base
  PROVE  /\ fil \in OurFile /\ fil.fptr \in Nat /\ fil.fsize \in Nat
         /\ btw \in Int /\ line \in Int
BY DEF Base, Inv, ProgramOK, Placed, OurFile

LEMMA NoFileIs ==
  /\ NoFile.fptr = 0 /\ NoFile.fsize = 0 /\ ~NoFile.err /\ ~NoFile.dirty
  /\ NoFile.sclust = 0 /\ NoFile.clust = 0
  /\ Opened(NoEntry) = NoFile
BY DEF NoFile, Opened, NoEntry

LEMMA DonePaced == ASSUME Done PROVE Paced'
<1>1. pc' = "idle" /\ line' = 0 /\ btw' = 0 /\ fil' = NoFile
  BY DEF Done
<1> QED BY <1>1, NoFileIs, VolumeAssumption
        DEF Paced, InFile, InWrite, Upcoming, Begun, FirstOf

LEMMA ReturnPaced ==
  ASSUME Base, Paced, line <= Lines, NEW STATE f, WriteReturns(f),
         f.fptr \in Nat, f.fsize \in Nat, f.fsize <= f.fptr, f.fptr < FirstOf(line) + LengthOf(line),
         ~f.err => f.fptr = f.fsize
  PROVE  Paced'
<1>1. pc' = "write" /\ line' = line + 1 /\ btw' = 0 /\ fil' = f
  BY DEF WriteReturns
<1>2. line \in 0..Lines /\ line' \in 0..Lines + 1 /\ Lines \in Nat
  BY <1>1, VolumeAssumption DEF Paced
<1>3. FirstOf(line) + LengthOf(line) = 2 * (line + 1) /\ Upcoming' = 2 * (line + 1)
  BY <1>1, <1>2 DEF FirstOf, LengthOf, Upcoming, Begun
<1> QED BY <1>1, <1>2, <1>3 DEF Paced, InFile, InWrite, Begun

\* How many pieces there are.
LEMMA PiecesLeft ==
  ASSUME Base, Paced
  PROVE  /\ line \in Nat /\ line <= Lines + 1 /\ Lines \in Nat /\ Begun \in Nat
         /\ LengthOf(line) \in Nat /\ FirstOf(line) \in Nat
         /\ FirstOf(line) + LengthOf(line) = 2 * line + 2
         /\ Upcoming \in 1..2 * Lines + 2 /\ Begun <= LengthOf(line)
         /\ btw # 0 => Upcoming < FirstOf(line) + LengthOf(line)
         /\ btw # 0 => Upcoming \in 1..1 + 2 * Lines
<1>1. line \in 0..Lines + 1 /\ Lines \in Nat /\ btw \in Int
  BY VolumeAssumption, FileTyped DEF Paced
<1>2. btw = 0 \/ (btw \in 1..LengthOf(line) /\ line <= Lines)
  BY DEF Paced
<1> QED BY <1>1, <1>2 DEF FirstOf, LengthOf, Upcoming, Begun

LEMMA FailPaced ==
  ASSUME Base, Paced, Fail, pc # "write" PROVE Paced'
<1>1. CASE pc \in InWrite
  <2> DEFINE f == [fil EXCEPT !.err = TRUE]
  <2>1. f.err = TRUE /\ f.fptr = fil.fptr /\ f.fsize = fil.fsize
    BY FileTyped DEF OurFile
  <2>2. line <= Lines /\ btw # 0 /\ WriteReturns(f)
    BY <1>1 DEF Paced, Fail
  <2>3. fil.fsize <= fil.fptr /\ fil.fptr < Upcoming
    BY DEF Paced
  <2>4. fil.fptr < FirstOf(line) + LengthOf(line)
    BY <2>2, <2>3, PiecesLeft, FileTyped
  <2> HIDE DEF f
  <2> QED BY <2>1, <2>2, <2>3, <2>4, ReturnPaced, FileTyped
<1>2. CASE pc \notin InWrite
  BY <1>2, DonePaced DEF Fail
<1> QED BY <1>1, <1>2

LEMMA SamePaced ==
  ASSUME Paced, UNCHANGED <<line, btw>>,
         fil'.fptr = fil.fptr /\ fil'.fsize = fil.fsize /\ fil'.err = fil.err,
         \/ pc' = pc /\ fil' = fil
         \/ {pc, pc'} \subseteq Labels \ (InFile \cup {"sync"}) /\ fil' = fil
         \/ {pc, pc'} \subseteq InWrite \ {"write"}
         \/ {pc, pc'} \subseteq {"last", "entry", "sync"}
  PROVE  Paced'
<1>1. Begun' = Begun /\ Upcoming' = Upcoming
  BY DEF Begun, Upcoming, LengthOf, FirstOf
<1> QED BY <1>1 DEF Paced, InFile, InWrite, Labels, LengthOf

\* A write starts, or goes on with its next piece.
LEMMA TurnPaced ==
  ASSUME NEW STATE f, Turn(f), fil' = f, line' \in 0..Lines, btw' \in 1..LengthOf(line'),
         ~f.err, f.fsize \in Nat, f.fptr = f.fsize + LengthOf(line') - btw',
         f.fptr < FirstOf(line') + LengthOf(line') - btw'
  PROVE  Paced'
<1>1. pc' \in {"copy", "stretch", "search"}
  BY DEF Turn
<1>2. Lines \in Nat /\ LengthOf(line') \in Nat /\ FirstOf(line') \in Nat
  <2>1. \A l \in Nat : LengthOf(l) \in Nat /\ FirstOf(l) \in Nat
    BY DEF LengthOf, FirstOf
  <2> QED BY <2>1, VolumeAssumption
<1>3. Begun' = LengthOf(line') - btw' /\ Upcoming' = FirstOf(line') + Begun' /\ Begun' \in Nat
  <2>1. btw' # 0 /\ btw' \in Nat /\ btw' <= LengthOf(line')
    BY <1>2
  <2>2. Begun' = LengthOf(line') - btw'
    BY <2>1 DEF Begun, LengthOf
  <2>3. Upcoming' = FirstOf(line') + Begun'
    BY DEF Upcoming, FirstOf
  <2> QED BY <1>2, <2>1, <2>2, <2>3
<1>4. f.fsize <= f.fptr
  BY <1>2, <1>3
<1> QED BY <1>1, <1>2, <1>3, <1>4 DEF Paced, InFile, InWrite, LengthOf

LEMMA NextPaced ==
  ASSUME Base, Typed, Paced, Phased, [Next]_vars PROVE Paced'
<1>1. CASE Sync \/ Load
  <2>1. CASE Fail
    BY <1>1, <2>1, Stalls, FailPaced
  <2>2. CASE Proceed
    BY <2>2, SamePaced DEF Proceed, local
  <2> QED BY <1>1, <2>1, <2>2 DEF Sync, Load
<1>2. CASE Done
  BY <1>2, DonePaced
<1>3. CASE ~Done /\ (Press \/ Mount \/ Count \/ Open \/ Refuse \/ Find \/ Remove)
  <2>1. {pc, pc'} \subseteq Labels \ (InFile \cup {"sync"})
    BY <1>3 DEF Press, Mount, NotMounted, Count, Open, Refuse, Find, Remove, At, Labels, InFile,
                InWrite
  <2>2. UNCHANGED <<line, btw, fil>>
    BY <1>3 DEF Press, Mount, NotMounted, Count, Open, Refuse, Find, Remove, memory
  <2> QED BY <2>1, <2>2, SamePaced
<1>4. CASE Reopen
  <2>1. pc = "reopen" /\ win.sect = "dir" /\ win.val["ours"] = NoEntry
    BY <1>4, AtDir DEF Reopen, At, Phased
  <2>2. fil' = NoFile /\ pc' = "write" /\ line' = line /\ btw' = btw
    BY <1>4, <2>1, NoFileIs DEF Reopen
  <2>3. line = 0 /\ btw = 0
    BY <2>1 DEF Paced, InFile, InWrite
  <2> QED BY <2>2, <2>3, NoFileIs, VolumeAssumption
          DEF Paced, InFile, InWrite, Upcoming, Begun, FirstOf
<1>5. CASE Write
  <2>1. /\ pc = "write" /\ line \in 0..Lines /\ btw = 0 /\ Lines \in Nat
        /\ Begun = 0 /\ Upcoming = FirstOf(line) /\ FirstOf(line) \in Nat
    BY <1>5, VolumeAssumption DEF Write, Paced, Begun, Upcoming, FirstOf
  <2>2. fil.fptr < FirstOf(line) /\ fil.fsize <= fil.fptr /\ (~fil.err => fil.fptr = fil.fsize)
        /\ fil.fptr \in Nat /\ fil.fsize \in Nat
    BY <2>1, FileTyped DEF Paced
  <2>3. LengthOf(line) \in Nat \ {0}
    BY DEF LengthOf
  <2>4. CASE WriteReturns(fil)
    BY <2>1, <2>2, <2>3, <2>4, ReturnPaced
  <2>5. CASE ~WriteReturns(fil)
    <3>1. Turn(fil) /\ fil' = fil /\ line' = line /\ btw' = LengthOf(line) /\ ~fil.err
      BY <1>5, <2>5 DEF Write
    <3> QED BY <2>1, <2>2, <2>3, <3>1, TurnPaced
  <2> QED BY <2>4, <2>5
<1>6. CASE Stretch \/ Search \/ SearchOn \/ Link
  <2>1. {pc, pc'} \subseteq InWrite \ {"write"}
    BY <1>6 DEF Stretch, Search, SearchOn, Link, At, Allocated, InWrite
  <2>2. UNCHANGED <<line, btw>> /\ fil'.fptr = fil.fptr /\ fil'.fsize = fil.fsize
        /\ fil'.err = fil.err
    BY <1>6, FileTyped DEF Stretch, Search, SearchOn, Link, Allocated, memory, OurFile
  <2> QED BY <2>1, <2>2, SamePaced
<1>7. CASE CardFull
  <2> DEFINE f == [fil EXCEPT !.fsize = IF fil.fptr > @ THEN fil.fptr ELSE @]
  <2>1. pc = "search" /\ WriteReturns(f)
    BY <1>7 DEF CardFull, EndOfWrite, At
  <2>2. line <= Lines /\ btw # 0 /\ fil.fsize <= fil.fptr /\ fil.fptr < Upcoming
    BY <2>1 DEF Paced, InWrite
  <2>3. f.fsize = fil.fptr /\ f.fptr = fil.fptr
    BY <2>2, FileTyped DEF OurFile
  <2>4. fil.fptr < FirstOf(line) + LengthOf(line)
    BY <2>2, PiecesLeft, FileTyped
  <2> HIDE DEF f
  <2> QED BY <2>1, <2>2, <2>3, <2>4, ReturnPaced, FileTyped
<1>8. CASE Copy
  <2> DEFINE piece == FirstOf(line) + LengthOf(line) - btw
             f == [fil EXCEPT !.buf[(fil.fptr % 2) + 1] = <<pic, piece>>,
                              !.fptr = @ + 1, !.dirty = TRUE,
                              !.dsect = IF fil.fptr % 2 = 0 THEN fil.clust ELSE @]
             h == [f EXCEPT !.fsize = IF f.fptr > @ THEN f.fptr ELSE @]
  <2>1. /\ pc = "copy" /\ line \in 0..Lines /\ btw \in 1..LengthOf(line) /\ ~fil.err
        /\ fil.fptr = fil.fsize + Begun /\ fil.fptr < Upcoming
        /\ Begun = LengthOf(line) - btw /\ Upcoming = FirstOf(line) + Begun
    BY <1>8, FileTyped DEF Copy, Paced, InWrite, Begun, Upcoming
  <2>2. fil.fptr \in Nat /\ fil.fsize \in Nat /\ LengthOf(line) \in Nat /\ FirstOf(line) \in Nat
        /\ Lines \in Nat
    BY FileTyped, PiecesLeft
  <2>3. /\ f.fptr = fil.fptr + 1 /\ f.fsize = fil.fsize /\ ~f.err
        /\ h.fptr = fil.fptr + 1 /\ h.fsize = fil.fptr + 1 /\ ~h.err
    BY <2>1, <2>2, FileTyped, PiecesLeft DEF OurFile
  <2>4. \/ btw = 1 /\ WriteReturns(h)
        \/ btw # 1 /\ fil' = f /\ btw' = btw - 1 /\ Turn(f) /\ line' = line
    BY <1>8 DEF Copy, EndOfWrite
  <2> HIDE DEF f, h
  <2>5. CASE btw = 1 /\ WriteReturns(h)
    <3>1. h.fptr < FirstOf(line) + LengthOf(line) /\ h.fsize <= h.fptr /\ line <= Lines
      BY <2>1, <2>2, <2>3, <2>5
    <3> QED BY <2>2, <2>3, <2>5, <3>1, ReturnPaced
  <2>6. CASE btw # 1 /\ fil' = f /\ btw' = btw - 1 /\ Turn(f) /\ line' = line
    <3>1. btw' \in 1..LengthOf(line')
      BY <2>1, <2>2, <2>6
    <3>2. f.fptr = f.fsize + LengthOf(line') - btw'
          /\ f.fptr < FirstOf(line') + LengthOf(line') - btw'
      BY <2>1, <2>2, <2>3, <2>6
    <3> QED BY <2>1, <2>2, <2>3, <2>6, <3>1, <3>2, TurnPaced
  <2> QED BY <2>4, <2>5, <2>6
<1>9. CASE Flush \/ FlushLast
  <2>1. CASE Fail
    BY <1>9, <2>1, FailPaced DEF Flush, FlushLast
  <2>2. CASE ~Fail
    <3>1. UNCHANGED <<line, btw>> /\ fil'.fptr = fil.fptr /\ fil'.fsize = fil.fsize
          /\ fil'.err = fil.err
      BY <1>9, <2>2, FileTyped DEF Flush, FlushLast, WriteBuffer, OurFile
    <3>2. {pc, pc'} \subseteq InWrite \ {"write"} \/ {pc, pc'} \subseteq {"last", "entry", "sync"}
      BY <1>9, <2>2 DEF Flush, FlushLast, WriteBuffer, InWrite
    <3> QED BY <3>1, <3>2, SamePaced
  <2> QED BY <2>1, <2>2
<1>10. CASE Close /\ ~Done
  <2>1. pc = "write" /\ line > Lines /\ pc' \in {"last", "entry"}
        /\ UNCHANGED <<fil, line, btw>>
    BY <1>10 DEF Close
  <2>2. line = Lines + 1
    BY <2>1, VolumeAssumption DEF Paced
  <2>3. Begun' = Begun /\ Upcoming' = Upcoming
    BY <2>1 DEF Begun, Upcoming, LengthOf, FirstOf
  <2> QED BY <2>1, <2>2, <2>3 DEF Paced, InFile, InWrite
<1>11. CASE Entry
  <2>1. {pc, pc'} \subseteq {"last", "entry", "sync"} /\ UNCHANGED <<fil, line, btw>>
    BY <1>11 DEF Entry, At
  <2> QED BY <2>1, SamePaced
<1>12. CASE UNCHANGED vars
  BY <1>12, SamePaced DEF vars, memory, local
<1> QED
  BY <1>1, <1>2, <1>3, <1>4, <1>5, <1>6, <1>7, <1>8, <1>9, <1>10, <1>11, <1>12
  DEF Next, Step, SyncFs, PowerCut

-----------------------------------------------------------------------------
(* The entry of the file.                                                   *)

\* An entry only reaches the card from the window.
LEMMA DirMoves ==
  ASSUME Base, Sync
  PROVE  /\ win.dirty /\ win'.sect = win.sect /\ win'.val = win.val
         /\ win.sect # "dir" => card'.dir = card.dir
         /\ card'.dir \in {card.dir, win.val}
<1>1. /\ card' \in {card, [card EXCEPT ![win.sect] = win.val]}
      /\ DOMAIN card = {"boot", "fsinfo"} \cup Cached /\ win.sect \in Cached
      /\ win.dirty /\ win'.sect = win.sect /\ win'.val = win.val
  BY DEF Sync, Window, Base, Inv, MediaOK, WindowOK
<1>2. "dir" \in DOMAIN card
  BY <1>1 DEF Cached
<1> QED BY <1>1, <1>2

\* It is clean when the chain of the old file is looked for, and an entry without a
\* cluster is an empty one.
LEMMA FindsEntry ==
  ASSUME FilesInv, Find
  PROVE  /\ win.sect = "dir" /\ ~win.dirty /\ win.val = card.dir
         /\ Seen = Fat /\ Seen' = Seen /\ Fat' = Fat
         /\ card.dir["ours"].clust = 0 => card.dir["ours"] = NoEntry
<1>1. pc = "find" /\ win.sect = "dir" /\ ~win.dirty /\ WindowTells /\ card' = card
  BY AtDir DEF Find, At, FilesInv, Phased, Known, Base, media
<1>2. win.val = card.dir
  BY <1>1 DEF WindowTells
<1>3. Seen = Fat /\ Seen' = Seen /\ Fat' = Fat
  BY <1>1, SeenDir DEF Find
<1>4. card.dir["ours"] \in Entries /\ (card.dir["ours"].size = 0 <=> card.dir["ours"].clust = 0)
  BY DEF FilesInv, Known, Typed, SectorsTyped, OursReadable, Fits, Names
<1> QED BY <1>1, <1>2, <1>3, <1>4 DEF Entries, NoEntry

LEMMA PhasedIdle == ASSUME pc' \in {"idle", "mount"} PROVE Phased'
BY DEF Phased, InFile, InWrite

\* As long as the directory stays as it is, on the card and in the window.
LEMMA PhasedOn ==
  ASSUME Phased, pc \in InFile \cup {"reopen"}, pc' \in InFile \cup {"reopen"},
         card'.dir = card.dir, win'.sect # "dir" \/ win' = win,
         pc' = "entry" => ~fil'.dirty
  PROVE  Phased'
BY DEF Phased, InFile, InWrite, NoEntry

LEMMA SyncPhased == ASSUME Base, Phased, Sync PROVE Phased'
<1>1. /\ win.dirty /\ win'.sect = win.sect /\ win'.val = win.val
      /\ win.sect # "dir" => card'.dir = card.dir
      /\ card'.dir \in {card.dir, win.val}
  BY DirMoves
<1>2. pc \in {"reopen", "entry", "remove", "search", "stretch", "link", "sync"}
  BY <1>1, Stalls DEF Phased
<1>3. CASE Fail
  <2>1. pc' = "idle" \/ (pc' = "write" /\ pc \in {"search", "stretch", "link"})
    BY <1>2, <1>3 DEF Fail, Done, WriteReturns, InWrite
  <2>2. win' = win \/ win' = Window(win.sect, win.val, FALSE)
    BY DEF Sync
  <2> QED BY <1>1, <2>1, PhasedIdle DEF Phased, InFile, InWrite, NoEntry
<1>4. CASE card' = [card EXCEPT ![win.sect] = win.val]
           /\ win' = Window(win.sect, win.val, FALSE) /\ Proceed
  <2>1. pc' = pc /\ fil' = fil /\ win'.dirty = FALSE
    BY <1>4 DEF Proceed, local, Window
  <2>2. CASE pc = "remove"
    <3>1. win.sect = "dir" => card'.dir = win.val
      BY <1>4 DEF Base, Inv, MediaOK, Cached
    <3> QED BY <1>1, <2>1, <2>2, <3>1 DEF Phased, InFile, InWrite, NoEntry
  <2>3. CASE pc = "sync"
    BY <1>1, <2>1, <2>3 DEF Phased, InFile, InWrite, NoEntry
  <2>4. CASE pc \in {"reopen", "entry", "search", "stretch", "link"}
    BY <1>1, <2>1, <2>4 DEF Phased, InFile, InWrite, NoEntry
  <2> QED BY <1>2, <2>2, <2>3, <2>4
<1> QED BY <1>3, <1>4 DEF Sync

LEMMA LoadPhased == ASSUME TornReads = FALSE, Base, Phased, Load PROVE Phased'
<1>1. /\ card' = card /\ ~win.dirty
      /\ win' = win \/ win' = Window(Need, card[Need], FALSE)
  BY DEF Load, media
<1>2. pc \in {"count", "find", "reopen", "entry", "remove", "search", "stretch", "link"}
  BY Stalls
<1>3. CASE Fail
  <2>1. pc' = "idle" \/ (pc' = "write" /\ pc \in {"search", "stretch", "link"} /\ win' = win)
    BY <1>2, <1>3 DEF Fail, Done, WriteReturns, InWrite, Load, Proceed, local
  <2> QED BY <1>1, <2>1, PhasedIdle DEF Phased, InFile, InWrite, NoEntry
<1>4. CASE win' = Window(Need, card[Need], FALSE) /\ Proceed
  <2>1. pc' = pc /\ fil' = fil /\ win'.dirty = FALSE /\ win'.sect = Need /\ win'.val = card[Need]
    BY <1>4 DEF Proceed, local, Window
  <2>2. CASE pc = "remove"
    <3>1. card.dir["ours"] = NoEntry
      BY <1>1, <2>2 DEF Phased
    <3> QED BY <1>1, <2>1, <2>2, <3>1 DEF Phased, InFile, InWrite, NoEntry
  <2>3. CASE pc \in {"reopen", "entry", "search", "stretch", "link"}
    BY <1>1, <2>1, <2>3 DEF Phased, InFile, InWrite, NoEntry
  <2>4. CASE pc \in {"count", "find"}
    BY <1>1, <2>1, <2>4 DEF Phased, InFile, InWrite, NoEntry
  <2> QED BY <1>2, <2>2, <2>3, <2>4
<1> QED BY <1>3, <1>4 DEF Load

LEMMA NextPhased ==
  ASSUME TornReads = FALSE, FilesInv, [Next]_vars PROVE Phased'
<1>0. Base /\ Typed /\ Phased /\ FilesInv
  BY DEF FilesInv, Known
<1>1. CASE Sync \/ Load
  BY <1>0, <1>1, SyncPhased, LoadPhased
<1>2. CASE Press \/ Done
  BY <1>2, PhasedIdle DEF Press, Done
<1>3. CASE (Mount \/ Count \/ Open \/ Refuse) /\ ~Done
  <2>1. pc' \in {"count", "open", "find"} /\ pc \in {"mount", "count", "open"}
    BY <1>3 DEF Mount, NotMounted, Count, Open, Refuse, At
  <2>2. ~win'.dirty
    <3>1. CASE Mounted
      BY <3>1 DEF Mounted, Window
    <3>2. CASE ~Mounted
      BY <1>0, <1>3, <2>1, <3>2 DEF Mount, NotMounted, Count, Open, Refuse, At, memory, Phased
    <3> QED BY <3>1, <3>2
  <2> QED BY <2>1, <2>2 DEF Phased, InFile, InWrite
<1>4. CASE Find
  <2>1. win.sect = "dir" /\ win.val = card.dir /\ card' = card
        /\ (card.dir["ours"].clust = 0 => card.dir["ours"] = NoEntry)
    BY <1>0, <1>4, FindsEntry DEF Find, media
  <2>2. win'.sect = "dir" /\ win'.dirty /\ win'.val["ours"] = NoEntry
    <3>1. "ours" \in DOMAIN win.val
      BY <1>0, <2>1 DEF Typed, SectorsTyped, Names
    <3> QED BY <1>4, <2>1, <3>1 DEF Find, Put, Window, NoEntry
  <2>3. \/ pc' = "remove"
        \/ pc' = "reopen" /\ card.dir["ours"].clust = 0
    BY <1>4, <2>1 DEF Find
  <2> QED BY <2>1, <2>2, <2>3 DEF Phased, InFile, InWrite, NoEntry
<1>5. CASE Remove
  <2>1. pc = "remove" /\ win.sect # "dir" /\ card' = card /\ win'.sect = win.sect
        /\ pc' \in {"remove", "reopen"}
    BY <1>0, <1>5, AtCluster DEF Remove, At, Put, Window, media
  <2> QED BY <1>0, <2>1 DEF Phased, InFile, InWrite, NoEntry
<1>6. CASE Reopen \/ Write \/ Stretch \/ SearchOn \/ CardFull \/ Copy
  <2>1. pc \in InFile \cup {"reopen"} /\ pc' \in InWrite
    BY <1>6 DEF Reopen, Write, Stretch, SearchOn, CardFull, Copy, EndOfWrite, WriteReturns,
                Turn, At, InFile, InWrite
  <2>2. card' = card /\ win' = win
    BY <1>6 DEF Reopen, Write, Stretch, SearchOn, CardFull, Copy, media, memory
  <2> QED BY <1>0, <2>1, <2>2, PhasedOn DEF InFile, InWrite
<1>7. CASE Search \/ Link
  <2>1. pc \in InFile /\ pc' \in InWrite
    BY <1>7 DEF Search, Link, Allocated, At, InFile, InWrite
  <2>2. card' = card /\ win'.sect = win.sect /\ win.sect # "dir"
    BY <1>0, <1>7, AtCluster, AtEnd DEF Search, Link, Put, Window, media
  <2> QED BY <1>0, <2>1, <2>2, PhasedOn DEF InFile, InWrite
<1>8. CASE (Flush \/ FlushLast) /\ ~Done
  <2>1. card' = card /\ win' = win /\ pc \in InFile
    BY <1>8 DEF Flush, FlushLast, WriteBuffer, InFile, InWrite
  <2>2. pc' \in InFile /\ (pc' = "entry" => ~fil'.dirty)
    <3>1. CASE Fail
      BY <1>8, <3>1 DEF Fail, WriteReturns, InFile, InWrite
    <3>2. CASE ~Fail
      BY <1>0, <1>8, <3>2, FileTyped
         DEF Flush, FlushLast, WriteBuffer, InFile, InWrite, OurFile
    <3> QED BY <3>1, <3>2
  <2> QED BY <1>0, <2>1, <2>2, PhasedOn
<1>9. CASE Close /\ ~Done
  <2>1. card' = card /\ win' = win /\ pc = "write" /\ fil' = fil
        /\ pc' = (IF fil.dirty THEN "last" ELSE "entry")
    BY <1>9 DEF Close, media
  <2> QED BY <1>0, <2>1, PhasedOn DEF InFile, InWrite
<1>10. CASE Entry
  <2>1. win.sect = "dir" /\ win'.sect = "dir" /\ card' = card /\ pc' = "sync" /\ pc = "entry"
    BY <1>10, AtDir DEF Entry, Put, Window, media, At
  <2> QED BY <1>0, <2>1 DEF Phased, InFile, InWrite, NoEntry
<1>11. CASE UNCHANGED vars
  BY <1>0, <1>11 DEF vars, media, memory, local, Phased, NoEntry
<1> QED
  BY <1>1, <1>2, <1>3, <1>4, <1>5, <1>6, <1>7, <1>8, <1>9, <1>10, <1>11
  DEF Next, Step, SyncFs, PowerCut

-----------------------------------------------------------------------------
(* The files on the card.                                                   *)

LEMMA OthersStay == ASSUME [Next]_vars PROVE others' = others
BY DEF Next, Step, Sync, Load, Mount, Count, Open, Refuse, Find, Remove, Reopen, Write, Stretch,
       Search, SearchOn, CardFull, Link, Flush, Copy, Close, FlushLast, Entry, SyncFs, Press,
       PowerCut, WriteBuffer, vars, world

\* Only a write of the window changes the FAT and the directory of the card.
LEMMA CardMoves ==
  ASSUME Base, [Next]_vars, ~Sync PROVE card'.dir = card.dir /\ Fat' = Fat
<1>1. card' = card \/ (\E info : card' = [card EXCEPT !.fsinfo = info])
  BY DEF Next, Step, Load, Mount, Count, Open, Refuse, Find, Remove, Reopen, Write, Stretch,
         Search, SearchOn, CardFull, Link, Flush, Copy, Close, FlushLast, Entry, SyncFs, Press,
         PowerCut, WriteBuffer, vars, media
<1>2. \A s \in Cached : card'[s] = card[s]
  BY <1>1 DEF Base, Inv, MediaOK, Cached
<1> QED BY <1>2 DEF Cached, Fat, FatOn, FatOf, Clusters

LEMMA NoEntryReadable == ASSUME card'.dir["ours"] = NoEntry PROVE OursReadable'
<1>1. Chained(Fat', 0, <<>>) /\ ClustersIn(<<>>) = {} /\ <<>> \in Seq(Clusters)
  BY ChainOfNone
<1>2. card'.dir["ours"].clust = 0 /\ card'.dir["ours"].size = 0 /\ Len(<<>>) = 0
  BY DEF NoEntry
<1>3. Ours(Fat, card.dir["ours"].clust, <<>>)'
  BY <1>1, <1>2 DEF Ours
<1>4. Fits(card.dir["ours"], <<>>)'
  BY <1>2 DEF Fits
<1> QED BY <1>1, <1>3, <1>4 DEF OursReadable

\* The entry of the file is written when it is empty or its chain is on the card.
LEMMA NextOursReadable ==
  ASSUME FilesInv, [Next]_vars PROVE OursReadable'
<1>0. others' = others /\ Base
  BY OthersStay DEF FilesInv, Known
<1>1. CASE card'.dir = card.dir /\ Fat' = Fat
  BY <1>0, <1>1 DEF FilesInv, OursReadable, Ours
<1>2. CASE Sync /\ card'.dir["ours"] # NoEntry /\ ~(card'.dir = card.dir /\ Fat' = Fat)
  <2>1. /\ win.dirty /\ (win.sect # "dir" => card'.dir = card.dir)
        /\ card'.dir \in {card.dir, win.val}
        /\ win.sect = "dir" => Fat' = Fat
    BY <1>0, <1>2, DirMoves, FatMoves
  <2>2. pc \in {"reopen", "entry", "remove", "search", "stretch", "link", "sync"}
    BY <1>2, <2>1, Stalls DEF FilesInv, Phased
  <2>3. pc = "sync"
    BY <1>2, <2>1, <2>2 DEF FilesInv, Phased, InFile, InWrite
  <2>4. win.sect = "dir" /\ card'.dir = win.val
    BY <1>2, <2>1, <2>3 DEF FilesInv, Phased
  <2>5. \E s \in Seq(Clusters) : Ours(Fat, win.val["ours"].clust, s) /\ Fits(win.val["ours"], s)
    BY <2>3 DEF FilesInv, Publishing
  <2> QED BY <1>0, <2>1, <2>4, <2>5 DEF OursReadable, Ours
<1> QED BY <1>0, <1>1, <1>2, CardMoves, NoEntryReadable

LEMMA NextOtherReadable ==
  ASSUME TornReads = FALSE, FilesInv, [Next]_vars PROVE OtherReadable'
<1>0. others' = others /\ Base
  BY OthersStay DEF FilesInv, Known
<1>1. card'.dir["other"] = card.dir["other"] /\ \A c \in others : Fat'[c] = Fat[c]
  BY <1>0, StepIntact DEF Base
<1>2. PICK s \in Seq(Clusters) :
        /\ Chained(Fat, card.dir["other"].clust, s)
        /\ Fits(card.dir["other"], s) /\ ClustersIn(s) \subseteq others
  BY DEF FilesInv, OtherReadable
<1>3. Chained(Fat', card.dir["other"].clust, s)
  BY <1>1, <1>2, ChainStays
<1> QED BY <1>0, <1>1, <1>2, <1>3 DEF OtherReadable

\* What is removed is a chain to its end.
LEMMA NextRemoving ==
  ASSUME TornReads = FALSE, FilesInv, [Next]_vars PROVE Removing'
<1>0. others' = others /\ Base /\ Typed /\ Removing
  BY OthersStay DEF FilesInv, Known
<1>1. CASE pc' # "remove"
  BY <1>1 DEF Removing
<1>2. CASE Find /\ pc' = "remove"
  <2>1. win.sect = "dir" /\ win.val = card.dir /\ Seen' = Fat
    BY <1>2, FindsEntry
  <2>2. clst' = card.dir["ours"].clust /\ clst' # 0
    BY <1>2, <2>1 DEF Find
  <2>3. PICK s \in Seq(Clusters) : Ours(Fat, card.dir["ours"].clust, s)
    BY DEF FilesInv, OursReadable
  <2>4. s # <<>>
    BY <2>2, <2>3, ChainParts DEF Ours
  <2> QED BY <1>0, <2>1, <2>2, <2>3, <2>4 DEF Removing, Ours
<1>3. CASE Remove /\ pc' = "remove"
  <2>1. /\ clst \in Clusters /\ win.sect = FatOf(clst) /\ win.val[clst] = Seen[clst]
        /\ pc = "remove" /\ card' = card
    BY <1>0, <1>3, AtCluster DEF Remove, At, media
  <2>2. PICK s \in Seq(Clusters) : Ours(Seen, clst, s) /\ s # <<>>
    BY <1>0, <2>1 DEF Removing
  <2>3. Seen[clst] \in Clusters /\ clst' = Seen[clst] /\ Put(clst, 0)
    BY <1>3, <2>1, VolumeAssumption DEF Remove, Clusters
  <2>4. \A c \in Clusters : c # clst => Seen'[c] = Seen[c]
    BY <1>0, <2>1, <2>3, SeenPut
  <2>5. Chained(Seen, clst, s) /\ \A d \in ClustersIn(s) \ {clst} : Seen'[d] = Seen[d]
    BY <2>2, <2>4, ChainInUse DEF Ours
  <2>6. Chained(Seen', clst', Tail(s)) /\ Tail(s) # <<>>
        /\ ClustersIn(Tail(s)) = ClustersIn(s) \ {clst}
    BY <2>2, <2>3, <2>5, ChainShrinks
  <2>7. Tail(s) \in Seq(Clusters)
    BY <2>6, ChainParts
  <2> QED BY <1>0, <2>2, <2>6, <2>7 DEF Removing, Ours
<1>4. CASE (Sync \/ Load) /\ pc' = "remove"
  <2>1. Seen' = Seen
    BY <1>0, <1>4, SeenMoves
  <2>2. Proceed
    BY <1>4 DEF Sync, Load, Fail, Done, WriteReturns
  <2> QED BY <1>0, <2>1, <2>2 DEF Removing, Ours, Proceed, local
<1>5. CASE UNCHANGED vars
  <2>1. Seen' = Seen
    BY <1>5, SeenKept DEF vars, media, memory
  <2> QED BY <1>0, <1>5, <2>1 DEF Removing, Ours, vars, local
<1>6. CASE Press \/ Mount \/ Count \/ Open \/ Refuse \/ Reopen \/ Write \/ Stretch \/ Search
           \/ SearchOn \/ CardFull \/ Link \/ Flush \/ Copy \/ Close \/ FlushLast \/ Entry \/ SyncFs
           \/ PowerCut
  <2>1. pc' # "remove"
    BY <1>6 DEF Press, Mount, NotMounted, Count, Open, Refuse, Reopen, Write, Turn, Stretch, Search,
         SearchOn, CardFull, Link, Flush, Copy, Close, FlushLast, Entry, SyncFs, PowerCut,
         WriteBuffer, Fail, WriteReturns, EndOfWrite, Done, Allocated, At
  <2> QED BY <2>1 DEF Removing
<1> QED BY <1>1, <1>2, <1>3, <1>4, <1>5, <1>6 DEF Next, Step

-----------------------------------------------------------------------------
(* The file while it is written.                                            *)

LEMMA StillUpcoming ==
  ASSUME UNCHANGED <<line, btw>> PROVE Upcoming' = Upcoming /\ Begun' = Begun
BY DEF Upcoming, Begun, FirstOf, LengthOf

LEMMA ReturnUpcoming ==
  ASSUME Base, Paced, NEW STATE f, WriteReturns(f), line <= Lines
  PROVE  /\ Upcoming' = FirstOf(line) + LengthOf(line) /\ Upcoming <= Upcoming'
         /\ Upcoming \in Nat /\ Upcoming' \in Nat
         /\ btw # 0 => Upcoming' = Upcoming + btw
<1>1. line' = line + 1 /\ btw' = 0
  BY DEF WriteReturns
<1>2. line \in Nat /\ FirstOf(line) + LengthOf(line) = 2 * line + 2 /\ Begun <= LengthOf(line)
      /\ LengthOf(line) \in Nat /\ FirstOf(line) \in Nat /\ Begun \in Nat
  BY PiecesLeft
<1>3. Upcoming' = 2 * line + 2
  BY <1>1, <1>2 DEF Upcoming, Begun, FirstOf
<1>4. btw \in Int
  BY FileTyped
<1> QED BY <1>2, <1>3, <1>4 DEF Upcoming, Begun

\* The chain stays as it is.
LEMMA LinkedKept ==
  ASSUME NEW s, Linked(s), Seen' = Seen, others' = others,
         fil'.sclust = fil.sclust, fil'.clust = fil.clust,
         pc' = "link" => pc = "link" /\ clst' = clst
  PROVE  Linked(s)'
BY DEF Linked, Ours

\* The pieces of a chain stay as they are when it grows at its end, at most.
LEMMA FilledKept ==
  ASSUME NEW s, NEW g, NEW t, Filled(s, g), Held' = Held, fil'.fptr = fil.fptr, pic' = pic,
         fil.fptr \in Nat, \A k \in 1..fil.fptr : t[(k + 1) \div 2] = s[(k + 1) \div 2],
         Upcoming \in Nat, Upcoming' \in Nat, Upcoming <= Upcoming',
         ~lost' => ~lost /\ fil'.err = fil.err /\ Upcoming' = Upcoming
  PROVE  Filled(t, g)'
<1>1. Stored(Held, t, fil.fptr, g)'
  BY DEF Filled, Stored
<1>2. \A k \in 1..fil.fptr : g[k] \in Int /\ g[k] < Upcoming'
  BY DEF Filled, Stored
<1> QED BY <1>1, <1>2 DEF Filled

LEMMA HeldKept ==
  ASSUME UNCHANGED data, fil'.dirty = fil.dirty, fil'.dsect = fil.dsect, fil'.buf = fil.buf
  PROVE  Held' = Held
BY DEF Held, Clusters

\* The buffer is written to the sector it is of.
LEMMA HeldWritten ==
  ASSUME Base, fil.dirty, fil.dsect \in Clusters, fil'.dsect = fil.dsect, fil'.buf = fil.buf,
         \/ data' = [data EXCEPT ![fil.dsect] = fil.buf]
         \/ data' = data /\ fil'.dirty
  PROVE  Held' = Held
<1>1. DOMAIN data = Clusters
  BY DEF Base, Inv, MediaOK
<1>2. ASSUME NEW c \in Clusters PROVE Held'[c] = Held[c]
  <2>1. Held[c] = IF fil.dsect = c THEN fil.buf ELSE data[c]
    BY <1>2 DEF Held
  <2>2. Held'[c] = IF fil'.dirty /\ fil'.dsect = c THEN fil'.buf ELSE data'[c]
    BY <1>2 DEF Held, Clusters
  <2> QED BY <1>1, <1>2, <2>1, <2>2
<1> QED BY <1>2 DEF Held, Clusters

\* What is known of a chain and the pieces on it.
LEMMA WritingParts ==
  ASSUME FilesInv, NEW s, NEW g, Linked(s), Sized(s), Filled(s, g), s \in Seq(Clusters)
  PROVE  /\ Base /\ Typed /\ Paced /\ Phased
         /\ Len(s) \in Nat /\ fil.fptr \in Nat /\ fil.fsize \in Nat /\ fil.fptr <= 2 * Len(s)
         /\ \A i \in 1..Len(s) : s[i] \in Clusters
         /\ \A i, j \in 1..Len(s) : s[i] = s[j] => i = j
         /\ \A k \in 1..fil.fptr : (k + 1) \div 2 \in 1..Len(s)
         /\ fil.dirty => fil.dsect \in Clusters
         /\ g \in [1..fil.fptr -> 1..1 + 2 * Lines]
         /\ s = <<>> <=> fil.sclust = 0
<1>1. Base /\ Typed /\ Paced /\ Phased
  BY DEF FilesInv, Known
<1>2. fil.fptr \in Nat /\ fil.fsize \in Nat
  BY <1>1, FileTyped
<1>3. Chained(Seen, fil.sclust, s) /\ fil.fptr <= 2 * Len(s)
  BY DEF Linked, Ours, Sized
<1>4. /\ Len(s) \in Nat /\ \A i \in 1..Len(s) : s[i] \in Clusters
      /\ \A i, j \in 1..Len(s) : s[i] = s[j] => i = j
  BY <1>3, ChainParts
<1>5. \A k \in 1..fil.fptr : (k + 1) \div 2 \in 1..Len(s)
  BY <1>2, <1>3, <1>4
<1>6. fil.dirty => fil.dsect \in Clusters
  <2>1. fil.dirty => fil.fptr # 0 /\ fil.dsect = s[(fil.fptr + 1) \div 2]
    BY DEF Sized
  <2>2. fil.fptr # 0 => fil.fptr \in 1..fil.fptr
    BY <1>2
  <2> QED BY <1>4, <1>5, <2>1, <2>2
<1>7. s = <<>> <=> fil.sclust = 0
  <2>1. 0 \notin Clusters
    BY DEF Clusters
  <2>2. s # <<>> => fil.sclust = s[1] /\ 1 \in 1..Len(s)
    BY <1>3, <1>4, ChainParts
  <2>3. s = <<>> => fil.sclust = 0
    BY <1>3, ChainParts
  <2> QED BY <1>4, <2>1, <2>2, <2>3
<1> QED BY <1>1, <1>2, <1>3, <1>4, <1>5, <1>6, <1>7 DEF Filled, Stored

\* A chain and its pieces show what Writing says.
LEMMA WritingBy ==
  ASSUME NEW s \in Seq(Clusters), NEW g, Linked(s)', Sized(s)', Filled(s, g)'
  PROVE  Writing'
<1>1. g \in [1..fil'.fptr -> 1..1 + 2 * Lines]
  BY DEF Filled, Stored
<1> QED BY <1>1 DEF Writing

\* f_open hands a file without a cluster over.
LEMMA ReopenWriting == ASSUME FilesInv, Reopen PROVE Writing'
<1>0. Base /\ Paced /\ Phased
  BY DEF FilesInv, Known
<1>1. pc = "reopen" /\ win.sect = "dir" /\ win.val["ours"] = NoEntry
  BY <1>0, AtDir DEF Reopen, At, Phased
<1>2. /\ fil' = NoFile /\ pc' = "write" /\ line = 0 /\ btw = 0 /\ line' = 0 /\ btw' = 0
  BY <1>0, <1>1, NoFileIs DEF Reopen, Paced, InFile, InWrite
<1>3. Chained(Seen', 0, <<>>) /\ ClustersIn(<<>>) = {} /\ <<>> \in Seq(Clusters)
  BY ChainOfNone
<1>4. Linked(<<>>)'
  BY <1>2, <1>3, NoFileIs DEF Linked, Ours
<1>5. fil'.fptr = 0 /\ fil'.fsize = 0 /\ ~fil'.err /\ ~fil'.dirty /\ Len(<<>>) = 0
  BY <1>2, NoFileIs
<1>6. Sized(<<>>)'
  BY <1>2, <1>5 DEF Sized
<1> DEFINE g == [k \in 1..0 |-> 1]
<1>7. Upcoming' = 1
  BY <1>2 DEF Upcoming, Begun, FirstOf
<1>8. 1..0 = {} /\ g \in [1..0 -> 1..1 + 2 * Lines]
  OBVIOUS
<1> HIDE DEF g
<1>9. Filled(<<>>, g)'
  BY <1>5, <1>7, <1>8 DEF Filled, Stored
<1> QED BY <1>3, <1>4, <1>6, <1>9, WritingBy

\* A call of the card fails under f_write.
LEMMA FailWriting ==
  ASSUME FilesInv, Fail, pc \in {"search", "stretch", "link", "flush"}, Seen' = Seen,
         others' = others, pic' = pic,
         \/ data' = data
         \/ fil.dirty /\ data' = [data EXCEPT ![fil.dsect] = fil.buf]
  PROVE  Writing'
<1> DEFINE f == [fil EXCEPT !.err = TRUE]
<1>0. PICK s \in Seq(Clusters), g \in [1..fil.fptr -> 1..1 + 2 * Lines] :
        Linked(s) /\ Sized(s) /\ Filled(s, g)
  BY DEF FilesInv, Writing, InFile, InWrite
<1>1. /\ Base /\ Paced /\ fil.fptr \in Nat /\ Len(s) \in Nat
      /\ fil.dirty => fil.dsect \in Clusters
  BY <1>0, WritingParts
<1>2. WriteReturns(f) /\ lost' = TRUE /\ pc' = "write" /\ fil' = f
  BY DEF Fail, InWrite, WriteReturns
<1>3. /\ f.err = TRUE /\ f.fptr = fil.fptr /\ f.fsize = fil.fsize /\ f.dirty = fil.dirty
      /\ f.dsect = fil.dsect /\ f.buf = fil.buf /\ f.clust = fil.clust /\ f.sclust = fil.sclust
  BY <1>1, FileTyped DEF OurFile
<1> HIDE DEF f
<1>4. Held' = Held
  BY <1>1, <1>2, <1>3, HeldKept, HeldWritten
<1>5. Linked(s)'
  BY <1>0, <1>2, <1>3, LinkedKept
<1>6. fil.fptr % 2 = 0
  BY <1>0, <1>1 DEF Sized
<1>7. Sized(s)'
  BY <1>0, <1>2, <1>3, <1>6 DEF Sized
<1>8. line <= Lines
  BY <1>1 DEF Paced, InWrite
<1>9. Upcoming \in Nat /\ Upcoming' \in Nat /\ Upcoming <= Upcoming'
  BY <1>1, <1>2, <1>8, ReturnUpcoming
<1>10. Filled(s, g)'
  BY <1>0, <1>1, <1>2, <1>3, <1>4, <1>9, FilledKept
<1> QED BY <1>5, <1>7, <1>10, WritingBy

\* The next piece goes into the buffer, or needs a cluster.
LEMMA TurnSized ==
  ASSUME NEW s \in Seq(Clusters), NEW STATE f, Turn(f), fil' = f, f.fptr \in Nat, ~f.err,
         f.fptr <= 2 * Len(s), 2 * Len(s) <= f.fptr + 1,
         f.fsize = 0 => s = <<>> \/ f.fptr % 2 = 1,
         f.fptr % 2 = 1 => f.dirty,
         f.dirty => f.fptr # 0 /\ f.dsect = s[(f.fptr + 1) \div 2]
  PROVE  Sized(s)' /\ pc' # "link" /\ pc' \in InWrite
<1>1. Len(s) \in Nat
  OBVIOUS
<1>2. CASE f.fptr % 2 # 0
  <2>1. f.fptr % 2 = 1 /\ 2 * Len(s) > f.fptr /\ pc' = "copy"
    BY <1>1, <1>2 DEF Turn
  <2> QED BY <1>1, <2>1 DEF Sized, InWrite
<1>3. CASE f.fptr % 2 = 0
  <2>1. 2 * Len(s) = f.fptr
    BY <1>1, <1>3
  <2>2. (pc' = "stretch" /\ f.fptr # 0) \/ pc' = "search"
    BY <1>3 DEF Turn
  <2> QED BY <1>1, <1>3, <2>1, <2>2 DEF Sized, InWrite
<1> QED BY <1>2, <1>3

LEMMA MoveWriting ==
  ASSUME TornReads = FALSE, FilesInv, Sync \/ Load PROVE Writing'
<1>1. /\ Seen' = Seen /\ others' = others /\ pic' = pic /\ data' = data
      /\ pc \in {"count", "find", "reopen", "entry", "remove", "search", "stretch",
                 "link", "sync"}
  BY SeenMoves, Stalls DEF FilesInv, Known, Sync, Load, world, media
<1>2. CASE pc' \notin InFile
  BY <1>2 DEF Writing
<1>3. CASE Fail /\ pc' \in InFile
  <2>1. pc \in {"search", "stretch", "link", "flush"}
    BY <1>1, <1>3 DEF Fail, Done, InFile, InWrite
  <2> QED BY <1>1, <1>3, <2>1, FailWriting
<1>4. CASE Proceed /\ pc' \in InFile
  <2>1. UNCHANGED <<pc, clst, line, btw, fil, lost>> /\ pc \in InFile
    BY <1>4 DEF Proceed, local
  <2>2. PICK s \in Seq(Clusters), g \in [1..fil.fptr -> 1..1 + 2 * Lines] :
          Linked(s) /\ Sized(s) /\ Filled(s, g)
    BY <2>1 DEF FilesInv, Writing
  <2>3. Base /\ Paced /\ fil.fptr \in Nat
    BY <2>2, WritingParts
  <2>4. Linked(s)' /\ Sized(s)'
    BY <1>1, <2>1, <2>2, LinkedKept DEF Sized
  <2>5. Upcoming' = Upcoming /\ Upcoming \in Nat
    BY <2>1, <2>3, StillUpcoming, PiecesLeft
  <2>6. Filled(s, g)'
    BY <1>1, <2>1, <2>2, <2>3, <2>5, HeldKept, FilledKept
  <2> QED BY <2>4, <2>6, WritingBy
<1> QED BY <1>2, <1>3, <1>4 DEF Sync, Load

LEMMA WriteWriting == ASSUME FilesInv, Write PROVE Writing'
<1>0. pc = "write" /\ line <= Lines /\ Seen' = Seen /\ fil' = fil
      /\ UNCHANGED <<data, others, pic>>
  <2>1. UNCHANGED <<card, win>>
    BY DEF Write, media
  <2> QED BY <2>1, SeenKept DEF Write, WriteReturns, media, world
<1>1. PICK s \in Seq(Clusters), g \in [1..fil.fptr -> 1..1 + 2 * Lines] :
        Linked(s) /\ Sized(s) /\ Filled(s, g)
  BY <1>0 DEF FilesInv, Writing, InFile, InWrite
<1>2. Base /\ Paced /\ fil.fptr \in Nat /\ Len(s) \in Nat /\ Held' = Held
  BY <1>0, <1>1, WritingParts, HeldKept
<1>3. CASE WriteReturns(fil) /\ lost' = TRUE
  <2>1. pc' = "write"
    BY <1>3 DEF WriteReturns
  <2>2. Linked(s)' /\ Sized(s)'
    BY <1>0, <1>1, <2>1, LinkedKept DEF Sized
  <2>3. Upcoming \in Nat /\ Upcoming' \in Nat /\ Upcoming <= Upcoming'
    BY <1>0, <1>2, <1>3, ReturnUpcoming
  <2>4. Filled(s, g)'
    BY <1>0, <1>1, <1>2, <1>3, <2>3, FilledKept
  <2> QED BY <2>2, <2>4, WritingBy
<1>4. CASE ~fil.err /\ btw' = LengthOf(line) /\ Turn(fil) /\ UNCHANGED <<line, lost>>
  <2>1. /\ fil.fptr <= 2 * Len(s) /\ 2 * Len(s) <= fil.fptr + 1
        /\ (fil.fsize = 0 => s = <<>>) /\ (fil.fptr % 2 = 1 => fil.dirty)
        /\ fil.dirty => fil.fptr # 0 /\ fil.dsect = s[(fil.fptr + 1) \div 2]
    BY <1>0, <1>1, <1>4 DEF Sized
  <2>2. Sized(s)' /\ pc' # "link"
    BY <1>0, <1>2, <1>4, <2>1, TurnSized
  <2>3. Linked(s)'
    BY <1>0, <1>1, <2>2, LinkedKept
  <2>4. btw = 0 /\ LengthOf(line) \in Nat \ {0}
    BY <1>0, <1>2 DEF Paced, LengthOf
  <2>5. Begun = 0 /\ Begun' = 0
    BY <1>4, <2>4 DEF Begun, LengthOf
  <2>6. Upcoming' = Upcoming /\ Upcoming \in Nat
    <3>1. Upcoming' = FirstOf(line) + 0 /\ Upcoming = FirstOf(line) + 0
      BY <1>4, <2>5 DEF Upcoming, FirstOf
    <3> QED BY <1>2, <3>1, PiecesLeft
  <2>7. Filled(s, g)'
    BY <1>0, <1>1, <1>2, <1>4, <2>6, FilledKept
  <2> QED BY <2>2, <2>3, <2>7, WritingBy
<1> QED BY <1>3, <1>4 DEF Write

LEMMA LookWriting == ASSUME FilesInv, Stretch \/ SearchOn PROVE Writing'
<1>0. /\ pc \in {"stretch", "search"} /\ pc' = "search" /\ Seen' = Seen
      /\ UNCHANGED <<data, others, pic, fil, line, btw, lost>>
      /\ pc = "stretch" => Stretch
  <2>1. UNCHANGED <<card, win>>
    BY DEF Stretch, SearchOn, media, memory
  <2> QED BY <2>1, SeenKept DEF Stretch, SearchOn, At, media, memory, world
<1>1. PICK s \in Seq(Clusters), g \in [1..fil.fptr -> 1..1 + 2 * Lines] :
        Linked(s) /\ Sized(s) /\ Filled(s, g)
  BY <1>0 DEF FilesInv, Writing, InFile, InWrite
<1>2. Base /\ Paced /\ fil.fptr \in Nat /\ Held' = Held
  BY <1>0, <1>1, WritingParts, HeldKept
<1>3. Linked(s)' /\ Sized(s)'
  BY <1>0, <1>1, LinkedKept DEF Sized
<1>4. Upcoming' = Upcoming /\ Upcoming \in Nat
  BY <1>0, <1>2, StillUpcoming, PiecesLeft
<1>5. Filled(s, g)'
  BY <1>0, <1>1, <1>2, <1>4, FilledKept
<1> QED BY <1>3, <1>5, WritingBy

\* A mark: the cluster is a chain of its own, or is to be linked to the one there is.
LEMMA SearchWriting == ASSUME FilesInv, Search PROVE Writing'
<1>0. Base /\ Typed /\ pc = "search" /\ At("search") /\ card' = card
      /\ UNCHANGED <<data, others, pic, line, btw, lost>>
  BY DEF FilesInv, Known, Search, At, media, world
<1>1. PICK s \in Seq(Clusters), g \in [1..fil.fptr -> 1..1 + 2 * Lines] :
        Linked(s) /\ Sized(s) /\ Filled(s, g)
  BY <1>0 DEF FilesInv, Writing, InFile, InWrite
<1>2. /\ Base /\ Paced /\ fil.fptr \in Nat /\ Len(s) \in Nat /\ 2 * Len(s) = fil.fptr
      /\ ~fil.err
  BY <1>0, <1>1, WritingParts DEF Sized, Paced, InWrite
<1>3. clst \in Clusters /\ win.sect = FatOf(clst) /\ win.val[clst] = 0 /\ Seen[clst] = 0
      /\ Put(clst, EOC)
  BY <1>0, AtCluster DEF Search
<1>4. Seen'[clst] = EOC /\ \A c \in Clusters : c # clst => Seen'[c] = Seen[c]
  BY <1>0, <1>3, SeenPut
<1>5. clst \notin others
  BY <1>0, <1>3, Here DEF Base
<1>6. Upcoming' = Upcoming /\ Upcoming \in Nat
  BY <1>0, <1>2, StillUpcoming, PiecesLeft
<1>7. CASE fil.fptr = 0
  <2>1. Allocated(clst) /\ s = <<>> /\ ~fil.dirty /\ fil.sclust = 0
    <3>1. s = <<>> <=> fil.sclust = 0
      BY <1>1, WritingParts
    <3> QED BY <1>1, <1>2, <1>7, <3>1 DEF Search, Sized
  <2>2. /\ fil'.clust = clst /\ fil'.sclust = clst /\ pc' = "copy"
        /\ fil'.fptr = 0 /\ fil'.fsize = fil.fsize /\ fil'.err = fil.err /\ fil'.dirty = fil.dirty
        /\ fil'.dsect = fil.dsect /\ fil'.buf = fil.buf
    BY <1>2, <1>7, <2>1, FileTyped DEF Allocated, OurFile
  <2>3. Chained(Seen', clst, <<clst>>) /\ ClustersIn(<<clst>>) = {clst}
    BY <1>3, <1>4, ChainOfOne
  <2>4. PICK t \in Seq(Clusters) : t = <<clst>>
    <3>1. <<clst>> \in Seq(Clusters)
      BY <2>3, ChainParts
    <3> QED BY <3>1
  <2>5. t # <<>> /\ Len(t) = 1 /\ t[Len(t)] = clst
    BY <2>4
  <2>6. Linked(t)'
    BY <1>0, <1>5, <2>2, <2>3, <2>4, <2>5 DEF Linked, Ours
  <2>7. Sized(t)'
    BY <1>2, <2>1, <2>2, <2>5 DEF Sized
  <2>8. Held' = Held
    BY <1>0, <2>2, HeldKept
  <2>9. Filled(t, g)'
    BY <1>0, <1>1, <1>2, <1>6, <1>7, <2>2, <2>8, FilledKept
  <2> QED BY <2>6, <2>7, <2>9, WritingBy
<1>8. CASE fil.fptr # 0
  <2>1. pc' = "link" /\ fil' = fil /\ clst' = clst
    BY <1>8 DEF Search
  <2>2. Chained(Seen, fil.sclust, s) /\ clst \notin ClustersIn(s)
    BY <1>1, <1>3, ChainInUse DEF Linked, Ours
  <2>3. Chained(Seen', fil.sclust, s)
    <3>1. \A c \in ClustersIn(s) : Seen'[c] = Seen[c]
      BY <1>4, <2>2, ChainInUse
    <3> QED BY <2>2, <3>1, ChainStays
  <2>4. Linked(s)'
    BY <1>0, <1>1, <1>4, <1>5, <2>1, <2>2, <2>3 DEF Linked, Ours
  <2>5. Sized(s)'
    BY <1>0, <1>1, <1>8, <2>1 DEF Sized
  <2>6. Filled(s, g)'
    BY <1>0, <1>1, <1>2, <1>6, <2>1, HeldKept, FilledKept
  <2> QED BY <2>4, <2>5, <2>6, WritingBy
<1> QED BY <1>7, <1>8

LEMMA FullWriting == ASSUME FilesInv, CardFull PROVE Writing'
<1> DEFINE f == [fil EXCEPT !.fsize = IF fil.fptr > @ THEN fil.fptr ELSE @]
<1>0. /\ pc = "search" /\ Seen' = Seen /\ WriteReturns(f) /\ lost' = TRUE
      /\ UNCHANGED <<data, others, pic>>
  <2>1. UNCHANGED <<card, win>>
    BY DEF CardFull, media
  <2> QED BY <2>1, SeenKept DEF CardFull, EndOfWrite, At, media, world
<1>1. PICK s \in Seq(Clusters), g \in [1..fil.fptr -> 1..1 + 2 * Lines] :
        Linked(s) /\ Sized(s) /\ Filled(s, g)
  BY <1>0 DEF FilesInv, Writing, InFile, InWrite
<1>2. Base /\ Paced /\ fil.fptr \in Nat /\ fil.fsize \in Nat /\ Len(s) \in Nat
      /\ 2 * Len(s) = fil.fptr
  BY <1>0, <1>1, WritingParts DEF Sized
<1>3. line <= Lines /\ fil.fsize <= fil.fptr /\ ~fil.err
  BY <1>0, <1>2 DEF Paced, InWrite
<1>4. /\ fil' = f /\ pc' = "write"
      /\ f.err = fil.err /\ f.fptr = fil.fptr /\ f.fsize = fil.fptr /\ f.dirty = fil.dirty
      /\ f.dsect = fil.dsect /\ f.buf = fil.buf /\ f.clust = fil.clust /\ f.sclust = fil.sclust
  BY <1>0, <1>2, <1>3, FileTyped DEF OurFile, WriteReturns
<1> HIDE DEF f
<1>5. Linked(s)'
  BY <1>0, <1>1, <1>4, LinkedKept
<1>6. Sized(s)'
  <2>1. s = <<>> \/ fil.fptr # 0
    BY <1>2
  <2> QED BY <1>1, <1>2, <1>3, <1>4, <2>1 DEF Sized
<1>7. Upcoming \in Nat /\ Upcoming' \in Nat /\ Upcoming <= Upcoming'
  BY <1>0, <1>2, <1>3, ReturnUpcoming
<1>8. Filled(s, g)'
  BY <1>0, <1>1, <1>2, <1>4, <1>7, HeldKept, FilledKept
<1> QED BY <1>5, <1>6, <1>8, WritingBy

\* The mark is linked to the end of the chain.
LEMMA LinkWriting == ASSUME FilesInv, Link PROVE Writing'
<1>0. Base /\ Typed /\ pc = "link" /\ At("link") /\ card' = card
      /\ Put(fil.clust, clst) /\ Allocated(clst)
      /\ UNCHANGED <<data, others, pic, line, btw, lost>>
  BY DEF FilesInv, Known, Link, At, media, world
<1>1. PICK s \in Seq(Clusters), g \in [1..fil.fptr -> 1..1 + 2 * Lines] :
        Linked(s) /\ Sized(s) /\ Filled(s, g)
  BY <1>0 DEF FilesInv, Writing, InFile, InWrite
<1>2. /\ Base /\ Paced /\ fil.fptr \in Nat /\ Len(s) \in Nat /\ 2 * Len(s) = fil.fptr
      /\ ~fil.err /\ fil.fptr # 0
      /\ \A k \in 1..fil.fptr : (k + 1) \div 2 \in 1..Len(s)
  BY <1>0, <1>1, WritingParts DEF Sized, Paced, InWrite
<1>3. /\ fil.clust \in Clusters /\ win.sect = FatOf(fil.clust) /\ clst \in Clusters
  BY <1>0, AtEnd
<1>4. Seen'[fil.clust] = clst /\ \A c \in Clusters : c # fil.clust => Seen'[c] = Seen[c]
  BY <1>0, <1>3, SeenPut
<1>5. /\ Chained(Seen, fil.sclust, s) /\ ClustersIn(s) \cap others = {} /\ s # <<>>
      /\ fil.clust = s[Len(s)] /\ clst \notin ClustersIn(s) /\ clst \notin others
      /\ Seen[clst] = EOC /\ fil.sclust # 0
  <2>1. s # <<>>
    BY <1>2
  <2> QED BY <1>0, <1>1, <2>1, WritingParts DEF Linked, Ours
<1>6. fil.clust \in ClustersIn(s)
  BY <1>2, <1>5, ChainParts DEF ClustersIn
<1>7. Seen'[clst] = EOC /\ \A d \in ClustersIn(s) \ {s[Len(s)]} : Seen'[d] = Seen[d]
  BY <1>3, <1>4, <1>5, <1>6, ChainInUse
<1>8. /\ Chained(Seen', fil.sclust, Append(s, clst))
      /\ ClustersIn(Append(s, clst)) = ClustersIn(s) \cup {clst}
      /\ Len(Append(s, clst)) = Len(s) + 1 /\ Append(s, clst)[Len(s) + 1] = clst
      /\ \A i \in 1..Len(s) : Append(s, clst)[i] = s[i]
  BY <1>3, <1>4, <1>5, <1>7, ChainGrows
<1>9. PICK t \in Seq(Clusters) : t = Append(s, clst)
  <2>1. Append(s, clst) \in Seq(Clusters)
    BY <1>8, ChainParts
  <2> QED BY <2>1
<1>10. t # <<>> /\ Len(t) = Len(s) + 1 /\ t[Len(t)] = clst /\ \A i \in 1..Len(s) : t[i] = s[i]
  BY <1>2, <1>8, <1>9
<1>11. /\ fil'.clust = clst /\ fil'.sclust = fil.sclust /\ pc' = (IF fil.dirty THEN "flush" ELSE "copy")
       /\ fil'.fptr = fil.fptr /\ fil'.fsize = fil.fsize /\ fil'.err = fil.err
       /\ fil'.dirty = fil.dirty /\ fil'.dsect = fil.dsect /\ fil'.buf = fil.buf
  BY <1>0, <1>2, <1>5, FileTyped DEF Allocated, OurFile
<1>12. Linked(t)'
  BY <1>0, <1>5, <1>8, <1>9, <1>10, <1>11 DEF Linked, Ours
<1>13. Sized(t)'
  <2>1. fil.fptr % 2 = 0 /\ (fil.fptr + 1) \div 2 \in 1..Len(s)
    BY <1>2
  <2>2. fil.dirty => fil.dsect = s[(fil.fptr + 1) \div 2]
    BY <1>1 DEF Sized
  <2>3. fil.fsize # 0
    BY <1>0, <1>1, <1>5 DEF Sized
  <2> QED BY <1>2, <1>10, <1>11, <2>1, <2>2, <2>3 DEF Sized
<1>14. Upcoming' = Upcoming /\ Upcoming \in Nat
  BY <1>0, <1>2, StillUpcoming, PiecesLeft
<1>15. Filled(t, g)'
  <2>1. \A k \in 1..fil.fptr : t[(k + 1) \div 2] = s[(k + 1) \div 2]
    BY <1>2, <1>10
  <2> QED BY <1>0, <1>1, <1>2, <1>11, <1>14, <2>1, HeldKept, FilledKept
<1> QED BY <1>12, <1>13, <1>15, WritingBy

\* The buffer is written when the next cluster is there, and at the end.
LEMMA BufferWriting == ASSUME FilesInv, Flush \/ FlushLast PROVE Writing'
<1>0. /\ pc \in {"flush", "last"} /\ Seen' = Seen /\ UNCHANGED <<others, pic>>
      /\ \/ Fail /\ data' \in {data, [data EXCEPT ![fil.dsect] = fil.buf]}
         \/ /\ data' = [data EXCEPT ![fil.dsect] = fil.buf]
            /\ fil' = [fil EXCEPT !.dirty = FALSE]
            /\ pc' = (IF pc = "flush" THEN "copy" ELSE "entry")
            /\ UNCHANGED <<line, btw, lost>>
  <2>1. UNCHANGED <<card, win>>
    BY DEF Flush, FlushLast, WriteBuffer
  <2> QED BY <2>1, SeenKept DEF Flush, FlushLast, WriteBuffer, world
<1>1. PICK s \in Seq(Clusters), g \in [1..fil.fptr -> 1..1 + 2 * Lines] :
        Linked(s) /\ Sized(s) /\ Filled(s, g)
  BY <1>0 DEF FilesInv, Writing, InFile, InWrite
<1>2. /\ Base /\ Paced /\ fil.fptr \in Nat /\ Len(s) \in Nat
      /\ fil.dirty => fil.dsect \in Clusters
  BY <1>1, WritingParts
<1>3. CASE Fail
  <2>1. CASE pc = "last"
    BY <1>3, <2>1 DEF Fail, Done, InWrite, Writing, InFile
  <2>2. CASE pc = "flush"
    <3>1. fil.dirty /\ data' \in {data, [data EXCEPT ![fil.dsect] = fil.buf]}
      <4>1. fil.dirty /\ fil' # [fil EXCEPT !.dirty = FALSE]
        <5>1. fil.dirty
          BY <1>1, <2>2 DEF Sized
        <5>2. fil'.dirty
          BY <1>2, <1>3, <2>2, <5>1, FileTyped DEF Fail, WriteReturns, InWrite, OurFile
        <5> QED BY <1>2, <5>1, <5>2, FileTyped DEF OurFile
      <4> QED BY <1>0, <4>1
    <3> QED BY <1>0, <1>3, <2>2, <3>1, FailWriting
  <2> QED BY <1>0, <2>1, <2>2
<1>4. CASE /\ data' = [data EXCEPT ![fil.dsect] = fil.buf]
           /\ fil' = [fil EXCEPT !.dirty = FALSE]
           /\ pc' = (IF pc = "flush" THEN "copy" ELSE "entry")
           /\ UNCHANGED <<line, btw, lost>>
  <2>1. /\ fil'.clust = fil.clust /\ fil'.sclust = fil.sclust /\ ~fil'.dirty
        /\ fil'.fptr = fil.fptr /\ fil'.fsize = fil.fsize /\ fil'.err = fil.err
        /\ fil'.dsect = fil.dsect /\ fil'.buf = fil.buf
    BY <1>2, <1>4, FileTyped DEF OurFile
  <2>2. Linked(s)'
    BY <1>0, <1>1, <1>4, <2>1, LinkedKept
  <2>3. Sized(s)'
    BY <1>0, <1>1, <1>2, <1>4, <2>1 DEF Sized
  <2>4. Upcoming' = Upcoming /\ Upcoming \in Nat
    BY <1>2, <1>4, StillUpcoming, PiecesLeft
  <2>5. Held' = Held
    <3>1. fil.dirty
      BY <1>0, <1>1 DEF Sized
    <3> QED BY <1>2, <1>4, <2>1, <3>1, HeldWritten
  <2>6. Filled(s, g)'
    BY <1>0, <1>1, <1>2, <1>4, <2>1, <2>4, <2>5, FilledKept
  <2> QED BY <2>2, <2>3, <2>6, WritingBy
<1> QED BY <1>0, <1>3, <1>4

LEMMA CloseWriting == ASSUME FilesInv, Close, ~Done PROVE Writing'
<1>0. /\ pc = "write" /\ pc' \in {"last", "entry"} /\ Seen' = Seen
      /\ pc' = (IF fil.dirty THEN "last" ELSE "entry")
      /\ UNCHANGED <<data, others, pic, fil, line, btw, lost>>
  <2>1. UNCHANGED <<card, win>>
    BY DEF Close, media
  <2> QED BY <2>1, SeenKept DEF Close, media, world
<1>1. PICK s \in Seq(Clusters), g \in [1..fil.fptr -> 1..1 + 2 * Lines] :
        Linked(s) /\ Sized(s) /\ Filled(s, g)
  BY <1>0 DEF FilesInv, Writing, InFile, InWrite
<1>2. Base /\ Paced /\ fil.fptr \in Nat
  BY <1>1, WritingParts
<1>3. Linked(s)' /\ Sized(s)'
  BY <1>0, <1>1, LinkedKept DEF Sized
<1>4. Upcoming' = Upcoming /\ Upcoming \in Nat
  BY <1>0, <1>2, StillUpcoming, PiecesLeft
<1>5. Filled(s, g)'
  BY <1>0, <1>1, <1>2, <1>4, HeldKept, FilledKept
<1> QED BY <1>3, <1>5, WritingBy

\* The sector a piece is in, and where in it.
LEMMA Halves ==
  ASSUME NEW n1 \in Nat
  PROVE  /\ n1 % 2 \in {0, 1} /\ (n1 + 1) \div 2 \in Nat /\ (n1 + 2) \div 2 \in Nat
         /\ n1 % 2 = 1 => (n1 + 2) \div 2 = (n1 + 1) \div 2
         /\ 2 - ((n1 + 1) % 2) = (n1 % 2) + 1
         /\ \A m \in Nat : 2 * m > n1 /\ 2 * m <= n1 + 2 => m = (n1 + 2) \div 2
         /\ \A k \in 1..n1 : (k + 1) \div 2 = (n1 + 2) \div 2 => k = n1 /\ n1 % 2 = 1
OBVIOUS

\* A piece is put in the buffer: the file with it, before f_write returns.
Copied(f) ==
  /\ f \in OurFile /\ f.fptr = fil.fptr + 1 /\ f.dirty /\ f.err = fil.err
  /\ f.sclust = fil.sclust /\ f.clust = fil.clust
  /\ f.dsect = (IF fil.fptr % 2 = 0 THEN fil.clust ELSE fil.dsect)
  /\ f.buf = [fil.buf EXCEPT ![(fil.fptr % 2) + 1] = <<pic, Upcoming>>]

LEMMA CopyPuts ==
  ASSUME Base, Paced, Copy
  PROVE  /\ pc = "copy" /\ Copied(fil') /\ Upcoming \in 1..1 + 2 * Lines
         /\ Upcoming' = Upcoming + 1
         /\ \/ btw = 1 /\ pc' = "write" /\ fil'.fsize # 0
            \/ btw # 1 /\ Turn(fil') /\ fil'.fsize = fil.fsize
<1> DEFINE piece == FirstOf(line) + LengthOf(line) - btw
           f == [fil EXCEPT !.buf[(fil.fptr % 2) + 1] = <<pic, piece>>,
                            !.fptr = @ + 1, !.dirty = TRUE,
                            !.dsect = IF fil.fptr % 2 = 0 THEN fil.clust ELSE @]
           h == [f EXCEPT !.fsize = IF f.fptr > @ THEN f.fptr ELSE @]
<1>1. /\ pc = "copy" /\ line \in 0..Lines /\ btw \in 1..LengthOf(line) /\ ~fil.err
      /\ Begun = LengthOf(line) - btw
  BY FileTyped DEF Copy, Paced, InWrite, Begun
<1>2. fil.fptr \in Nat /\ fil.fsize \in Nat /\ LengthOf(line) \in Nat /\ FirstOf(line) \in Nat
      /\ Lines \in Nat /\ pic \in Int /\ fil.fsize <= fil.fptr
  BY FileTyped, PiecesLeft DEF Base, Inv, ProgramOK, Paced
<1>3. piece = Upcoming /\ Upcoming \in 1..1 + 2 * Lines
  BY <1>1, <1>2, PiecesLeft DEF Upcoming
<1>4. Copied(f) /\ f.fsize = fil.fsize
  <2>1. fil \in OurFile /\ (fil.fptr % 2) + 1 \in Piece /\ fil.clust \in Mine0
    BY <1>2, FileTyped DEF Piece, OurFile
  <2>2. [fil.buf EXCEPT ![(fil.fptr % 2) + 1] = <<pic, piece>>] \in [Piece -> Int \X Int]
    BY <1>2, <1>3, <2>1 DEF OurFile
  <2>3. piece = Upcoming /\ fil.fptr + 1 \in Nat
    BY <1>2, <1>3
  <2> HIDE DEF piece
  <2>4. /\ f.fptr = fil.fptr + 1 /\ f.dirty = TRUE /\ f.err = fil.err
        /\ f.sclust = fil.sclust /\ f.clust = fil.clust /\ f.fsize = fil.fsize
        /\ f.dsect = (IF fil.fptr % 2 = 0 THEN fil.clust ELSE fil.dsect)
        /\ f.buf = [fil.buf EXCEPT ![(fil.fptr % 2) + 1] = <<pic, piece>>]
    BY <2>1 DEF OurFile
  <2>5. f \in OurFile
    BY <2>1, <2>2, <2>3 DEF OurFile
  <2> QED BY <2>3, <2>4, <2>5 DEF Copied
<1>5. Copied(h) /\ h.fsize # 0
  <2> HIDE DEF f
  <2>1. h.fsize = f.fptr
    BY <1>2, <1>4 DEF Copied, OurFile
  <2> QED BY <1>2, <1>4, <2>1 DEF Copied, OurFile
<1>6. \/ btw = 1 /\ WriteReturns(h)
      \/ btw # 1 /\ fil' = f /\ btw' = btw - 1 /\ Turn(f) /\ line' = line
  BY DEF Copy, EndOfWrite
<1> HIDE DEF f, h
<1>7. CASE btw = 1 /\ WriteReturns(h)
  <2>1. pc' = "write" /\ fil' = h
    BY <1>7 DEF WriteReturns
  <2>2. Upcoming' = Upcoming + 1
    BY <1>1, <1>7, ReturnUpcoming
  <2> QED BY <1>1, <1>3, <1>5, <1>7, <2>1, <2>2
<1>8. CASE btw # 1 /\ fil' = f /\ btw' = btw - 1 /\ Turn(f) /\ line' = line
  <2>1. Begun' = Begun + 1
    BY <1>1, <1>2, <1>8 DEF Begun, LengthOf
  <2>2. Upcoming' = FirstOf(line) + Begun' /\ Upcoming = FirstOf(line) + Begun /\ Begun \in Nat
    BY <1>1, <1>2, <1>8, PiecesLeft DEF Upcoming, FirstOf
  <2> QED BY <1>1, <1>2, <1>3, <1>4, <1>8, <2>1, <2>2
<1> QED BY <1>6, <1>7, <1>8

LEMMA CopyWriting == ASSUME FilesInv, Copy PROVE Writing'
<1>0. Base /\ Paced /\ pc = "copy" /\ Seen' = Seen /\ UNCHANGED <<data, others, pic, lost>>
  <2>1. UNCHANGED <<card, win>>
    BY DEF Copy, media
  <2> QED BY <2>1, SeenKept DEF FilesInv, Known, Copy, media, world
<1>1. PICK s \in Seq(Clusters), g \in [1..fil.fptr -> 1..1 + 2 * Lines] :
        Linked(s) /\ Sized(s) /\ Filled(s, g)
  BY <1>0 DEF FilesInv, Writing, InFile, InWrite
<1>2. /\ Len(s) \in Nat /\ fil.fptr \in Nat /\ fil.fsize \in Nat /\ fil \in OurFile
      /\ \A i \in 1..Len(s) : s[i] \in Clusters
      /\ \A i, j \in 1..Len(s) : s[i] = s[j] => i = j
      /\ \A k \in 1..fil.fptr : (k + 1) \div 2 \in 1..Len(s)
  BY <1>1, WritingParts, FileTyped
<1>3. /\ Copied(fil') /\ Upcoming \in 1..1 + 2 * Lines /\ Upcoming' = Upcoming + 1
      /\ \/ btw = 1 /\ pc' = "write" /\ fil'.fsize # 0
         \/ btw # 1 /\ Turn(fil') /\ fil'.fsize = fil.fsize
  BY <1>0, CopyPuts
<1>4. /\ ~fil.err /\ 2 * Len(s) <= fil.fptr + 2 /\ 2 * Len(s) > fil.fptr
      /\ (fil.dirty <=> fil.fptr % 2 = 1)
      /\ fil.dirty => fil.dsect = s[(fil.fptr + 1) \div 2]
  BY <1>0, <1>1 DEF Sized, Paced, InWrite
<1> DEFINE p == (fil.fptr + 2) \div 2
\* The sector of the buffer is the one of the pointer.
<1>5. fil'.dsect = s[p] /\ p \in 1..Len(s)
  <2>1. p \in 1..Len(s)
    BY <1>2, <1>4
  <2>2. CASE fil.fptr % 2 = 0
    <3>1. p = Len(s)
      BY <1>2, <1>4, Halves
    <3>2. fil.clust = s[Len(s)]
      BY <1>1, <1>2, <1>4 DEF Linked
    <3> QED BY <1>3, <2>1, <2>2, <3>1, <3>2 DEF Copied
  <2>3. CASE fil.fptr % 2 = 1
    <3>1. p = (fil.fptr + 1) \div 2
      BY <1>2, <2>3, Halves
    <3> QED BY <1>3, <1>4, <2>1, <2>3, <3>1 DEF Copied
  <2> QED BY <1>2, <2>2, <2>3, Halves
<1>6. /\ fil'.fptr = fil.fptr + 1 /\ fil'.dirty /\ ~fil'.err
      /\ fil'.clust = fil.clust /\ fil'.sclust = fil.sclust
  BY <1>3, <1>4 DEF Copied
<1>7. pc' # "link" /\ Sized(s)'
  <2>1. /\ fil'.fptr <= 2 * Len(s) /\ 2 * Len(s) <= fil'.fptr + 1 /\ fil'.fptr \in Nat
        /\ (fil'.fptr + 1) \div 2 = p /\ fil'.fptr # 0
    BY <1>2, <1>4, <1>6
  <2>2. CASE btw = 1 /\ pc' = "write" /\ fil'.fsize # 0
    BY <1>2, <1>5, <1>6, <2>1, <2>2 DEF Sized
  <2>3. CASE btw # 1 /\ Turn(fil') /\ fil'.fsize = fil.fsize
    <3>1. fil'.fsize = 0 => fil'.fptr % 2 = 1
      <4>1. SUFFICES ASSUME fil.fsize = 0 PROVE fil'.fptr % 2 = 1
        BY <2>3
      <4>2. btw \in 1..LengthOf(line) /\ fil.fptr = Begun
        BY <1>0, <1>2, <1>4, <4>1, FileTyped, PiecesLeft DEF Paced, InWrite
      <4>3. fil.fptr = 0
        BY <2>3, <4>2 DEF Begun, LengthOf
      <4> QED BY <1>6, <4>3
    <3> QED BY <1>5, <1>6, <2>1, <2>3, <3>1, TurnSized
  <2> QED BY <1>3, <2>2, <2>3
<1>8. Linked(s)'
  BY <1>0, <1>1, <1>6, <1>7, LinkedKept
<1> DEFINE h == [k \in 1..fil.fptr + 1 |-> IF k = fil.fptr + 1 THEN Upcoming ELSE g[k]]
<1>9. PICK g2 : g2 = h
  OBVIOUS
<1>10. /\ g2[fil.fptr + 1] = Upcoming /\ \A k \in 1..fil.fptr : g2[k] = g[k]
       /\ g2 \in [1..fil.fptr + 1 -> 1..1 + 2 * Lines]
  BY <1>2, <1>3, <1>9
<1>11. /\ \A i, j \in 1..fil.fptr : i < j => g[i] < g[j]
       /\ \A k \in 1..fil.fptr : g[k] < Upcoming
       /\ \A k \in 1..fil.fptr : Held[s[(k + 1) \div 2]][2 - (k % 2)] = <<pic, g[k]>>
  BY <1>1 DEF Filled, Stored
<1>12. \A i, j \in 1..fil.fptr + 1 : i < j => g2[i] < g2[j]
  <2> SUFFICES ASSUME NEW i \in 1..fil.fptr + 1, NEW j \in 1..fil.fptr + 1, i < j
               PROVE  g2[i] < g2[j]
    OBVIOUS
  <2>1. i \in 1..fil.fptr /\ (j \in 1..fil.fptr \/ j = fil.fptr + 1)
    <3>1. fil.fptr \in Nat
      BY <1>2
    <3> QED BY <3>1
  <2> QED BY <1>10, <1>11, <2>1
\* What the buffer holds.
<1>13. /\ Held'[s[p]] = fil'.buf
       /\ \A c \in Clusters : c # s[p] => Held'[c] = Held[c]
  <2>1. s[p] \in Clusters
    BY <1>2, <1>5
  <2>2. Held'[s[p]] = fil'.buf
    BY <1>5, <1>6, <2>1 DEF Held, Clusters
  <2>3. ASSUME NEW c \in Clusters, c # s[p] PROVE Held'[c] = Held[c]
    <3>1. Held'[c] = data[c]
      BY <1>0, <1>5, <2>3 DEF Held, Clusters
    <3>2. fil.dirty => fil.dsect = s[p]
      BY <1>2, <1>4, Halves
    <3> QED BY <2>3, <3>1, <3>2 DEF Held
  <2> QED BY <2>2, <2>3
<1> HIDE DEF h
<1>14. \A k \in 1..fil.fptr : Held'[s[(k + 1) \div 2]][2 - (k % 2)] = <<pic, g[k]>>
  <2> SUFFICES ASSUME NEW k \in 1..fil.fptr
               PROVE  Held'[s[(k + 1) \div 2]][2 - (k % 2)] = <<pic, g[k]>>
    OBVIOUS
  <2>1. (k + 1) \div 2 \in 1..Len(s) /\ s[(k + 1) \div 2] \in Clusters
    BY <1>2
  <2>2. CASE (k + 1) \div 2 # p
    <3>1. s[(k + 1) \div 2] # s[p]
      BY <1>2, <1>5, <2>1, <2>2
    <3> QED BY <1>11, <1>13, <2>1, <3>1
  <2>3. CASE (k + 1) \div 2 = p
    <3>1. k = fil.fptr /\ fil.fptr % 2 = 1
      BY <1>2, <2>3, Halves
    <3>2. 2 - (k % 2) = 1 /\ (fil.fptr % 2) + 1 = 2
      BY <3>1
    <3>3. fil'.buf[1] = fil.buf[1]
      BY <1>2, <1>3, <3>2 DEF Copied, OurFile, Piece
    <3>4. Held[s[p]] = fil.buf
      BY <1>4, <2>1, <2>3, <3>1 DEF Held
    <3> QED BY <1>11, <1>13, <2>3, <3>2, <3>3, <3>4
  <2> QED BY <2>2, <2>3
<1>15. Held'[s[(fil.fptr + 1 + 1) \div 2]][2 - ((fil.fptr + 1) % 2)] = <<pic, Upcoming>>
  <2>1. (fil.fptr + 1 + 1) \div 2 = p /\ 2 - ((fil.fptr + 1) % 2) = (fil.fptr % 2) + 1
        /\ (fil.fptr % 2) + 1 \in Piece
    <3>1. fil.fptr % 2 \in {0, 1} /\ 2 - ((fil.fptr + 1) % 2) = (fil.fptr % 2) + 1
      BY <1>2, Halves
    <3>2. fil.fptr + 1 + 1 = fil.fptr + 2
      BY <1>2
    <3> QED BY <3>1, <3>2 DEF Piece
  <2>2. fil'.buf[(fil.fptr % 2) + 1] = <<pic, Upcoming>>
    BY <1>2, <1>3, <2>1 DEF Copied, OurFile
  <2> QED BY <1>13, <2>1, <2>2
<1>16. Stored(Held, s, fil.fptr, g2)'
  <2>1. \A k \in 1..fil.fptr + 1 :
          Held'[s[(k + 1) \div 2]][2 - (k % 2)] = <<pic, g2[k]>>
    <3> SUFFICES ASSUME NEW k \in 1..fil.fptr + 1
                 PROVE  Held'[s[(k + 1) \div 2]][2 - (k % 2)] = <<pic, g2[k]>>
      OBVIOUS
    <3>1. k \in 1..fil.fptr \/ k = fil.fptr + 1
      BY <1>2
    <3> QED BY <1>10, <1>14, <1>15, <3>1
  <2> QED BY <1>0, <1>6, <1>10, <1>12, <2>1 DEF Stored
<1>17. Filled(s, g2)'
  <2>1. \A k \in 1..fil.fptr + 1 : g2[k] < Upcoming'
    <3> SUFFICES ASSUME NEW k \in 1..fil.fptr + 1 PROVE g2[k] < Upcoming'
      OBVIOUS
    <3>1. k \in 1..fil.fptr \/ k = fil.fptr + 1
      BY <1>2
    <3>2. g2[k] = Upcoming \/ (g2[k] = g[k] /\ k \in 1..fil.fptr)
      BY <1>10, <3>1
    <3>3. k \in 1..fil.fptr => g[k] \in Int /\ g[k] < Upcoming
      BY <1>1, <1>11
    <3> QED BY <1>3, <3>2, <3>3
  <2>2. ~lost => fil.fptr = Upcoming - 1 /\ \A k \in 1..fil.fptr : g[k] = k
    BY <1>1 DEF Filled
  <2>3. ~lost => \A k \in 1..fil.fptr + 1 : g2[k] = k
    <3> SUFFICES ASSUME ~lost, NEW k \in 1..fil.fptr + 1 PROVE g2[k] = k
      OBVIOUS
    <3>1. k \in 1..fil.fptr \/ k = fil.fptr + 1
      BY <1>2
    <3> QED BY <1>3, <1>10, <2>2, <3>1
  <2> QED BY <1>0, <1>2, <1>3, <1>6, <1>16, <2>1, <2>2, <2>3 DEF Filled
<1> QED BY <1>7, <1>8, <1>17, WritingBy

LEMMA NextWriting ==
  ASSUME TornReads = FALSE, FilesInv, [Next]_vars PROVE Writing'
<1>1. CASE UNCHANGED vars
  <2>1. Seen' = Seen /\ Held' = Held /\ Upcoming' = Upcoming
    BY <1>1, SeenKept, HeldKept, StillUpcoming DEF vars, media, memory, local
  <2>2. UNCHANGED <<pc, clst, fil, others, pic, lost>>
    BY <1>1 DEF vars, memory, local, world
  <2>3. CASE pc \in InFile
    <3>1. PICK s \in Seq(Clusters), g \in [1..fil.fptr -> 1..1 + 2 * Lines] :
            Linked(s) /\ Sized(s) /\ Filled(s, g)
      BY <2>3 DEF FilesInv, Writing
    <3>2. Linked(s)' /\ Sized(s)'
      BY <2>1, <2>2, <3>1, LinkedKept DEF Sized
    <3>3. Filled(s, g)'
      BY <2>1, <2>2, <3>1 DEF Filled, Stored
    <3> QED BY <3>2, <3>3, WritingBy
  <2>4. CASE pc \notin InFile
    BY <2>2, <2>4 DEF Writing
  <2> QED BY <2>3, <2>4
<1>2. CASE Done \/ Press \/ Mount \/ Count \/ Open \/ Refuse \/ Find \/ Remove \/ Entry
  <2>1. pc' \notin InFile
    BY <1>2 DEF Done, Press, Mount, NotMounted, Count, Open, Refuse, Find, Remove, Entry, At, InFile,
                InWrite
  <2> QED BY <2>1 DEF Writing
<1> QED
  BY <1>1, <1>2, MoveWriting, ReopenWriting, WriteWriting, LookWriting, SearchWriting,
     FullWriting, LinkWriting, BufferWriting, CopyWriting, CloseWriting
  DEF Next, Step, SyncFs, PowerCut

\* The entry has the chain and the size of the file, all of which is on the card.
LEMMA EntryPublishing == ASSUME FilesInv, Entry PROVE Publishing'
<1>0. Base /\ Typed /\ Paced /\ Phased /\ pc = "entry" /\ win.sect = "dir" /\ card' = card
      /\ ~fil.dirty /\ UNCHANGED <<data, others, pic, lost>>
  BY AtDir DEF FilesInv, Known, Entry, At, Phased, media, world
<1>1. PICK s \in Seq(Clusters), g \in [1..fil.fptr -> 1..1 + 2 * Lines] :
        Linked(s) /\ Sized(s) /\ Filled(s, g)
  BY <1>0 DEF FilesInv, Writing, InFile, InWrite
<1>2. Fat' = Fat /\ Seen = Fat
  BY <1>0, SeenDir DEF Entry, Base
<1>3. win'.val["ours"] = [size |-> fil.fsize, clust |-> fil.sclust]
  <2>1. "ours" \in DOMAIN win.val
    BY <1>0 DEF Typed, SectorsTyped, Names
  <2> QED BY <2>1 DEF Entry, Put, Window
<1>4. /\ fil.fptr \in Nat /\ fil.fsize \in Nat /\ fil.fsize <= fil.fptr /\ Len(s) \in Nat
      /\ fil.fptr <= 2 * Len(s) /\ s = <<>> <=> fil.sclust = 0
      /\ \A k \in 1..fil.fptr : (k + 1) \div 2 \in 1..Len(s)
      /\ \A i \in 1..Len(s) : s[i] \in Clusters
  BY <1>0, <1>1, WritingParts DEF Paced
<1>5. Upcoming = 2 * Lines + 2 /\ Begun = 0 /\ Lines \in Nat
  <2>1. line = Lines + 1 /\ btw = 0
    BY <1>0 DEF Paced, InWrite
  <2> QED BY <2>1, VolumeAssumption DEF Upcoming, Begun, FirstOf
<1>6. fil.fsize \in 0..1 + 2 * Lines
  <2>1. fil.fptr < Upcoming
    BY <1>0 DEF Paced
  <2> QED BY <1>4, <1>5, <2>1
<1>7. Fits([size |-> fil.fsize, clust |-> fil.sclust], s)
  <2>1. fil.fsize = 0 => s = <<>>
    BY <1>0, <1>1 DEF Sized
  <2>2. s = <<>> => Len(s) = 0
    OBVIOUS
  <2> QED BY <1>4, <2>1, <2>2 DEF Fits
<1>8. PICK h : h = [k \in 1..fil.fsize |-> g[k]]
  OBVIOUS
<1>9. /\ h \in [1..fil.fsize -> 1..1 + 2 * Lines]
      /\ \A k \in 1..fil.fsize : h[k] = g[k] /\ k \in 1..fil.fptr
  BY <1>1, <1>4, <1>8
<1>10. Stored(data, s, fil.fsize, h)
  <2>1. /\ \A i, j \in 1..fil.fptr : i < j => g[i] < g[j]
        /\ \A k \in 1..fil.fptr : Held[s[(k + 1) \div 2]][2 - (k % 2)] = <<pic, g[k]>>
    BY <1>1 DEF Filled, Stored
  <2>2. \A c \in Clusters : Held[c] = data[c]
    BY <1>0 DEF Held
  <2>3. \A k \in 1..fil.fptr : data[s[(k + 1) \div 2]][2 - (k % 2)] = <<pic, g[k]>>
    BY <1>4, <2>1, <2>2
  <2> QED BY <1>9, <2>1, <2>3 DEF Stored
<1>11. ~lost => fil.fsize = 1 + 2 * Lines /\ \A k \in 1..fil.fsize : h[k] = k
  <2> SUFFICES ASSUME ~lost PROVE fil.fsize = 1 + 2 * Lines /\ \A k \in 1..fil.fsize : h[k] = k
    OBVIOUS
  <2>1. ~fil.err /\ fil.fptr = Upcoming - 1 /\ \A k \in 1..fil.fptr : g[k] = k
    BY <1>1 DEF Filled
  <2>2. fil.fptr = fil.fsize + Begun
    BY <1>0, <2>1 DEF Paced
  <2> QED BY <1>4, <1>5, <1>9, <2>1, <2>2
<1>12. Ours(Fat, fil.sclust, s)
  BY <1>1, <1>2 DEF Linked
<1> DEFINE e == [size |-> fil.fsize, clust |-> fil.sclust]
<1>13. e.size = fil.fsize /\ e.clust = fil.sclust /\ win'.val["ours"] = e /\ Fits(e, s)
  BY <1>3, <1>7
<1> HIDE DEF e
<1>14. Ours(Fat, win.val["ours"].clust, s)'
  BY <1>0, <1>2, <1>12, <1>13 DEF Ours
<1>15. Fits(win.val["ours"], s)'
  BY <1>13 DEF Fits
<1>16. Stored(data, s, win.val["ours"].size, h)'
  BY <1>0, <1>10, <1>13 DEF Stored
<1> QED BY <1>0, <1>6, <1>9, <1>11, <1>13, <1>14, <1>15, <1>16 DEF Publishing

LEMMA NextPublishing ==
  ASSUME TornReads = FALSE, FilesInv, [Next]_vars PROVE Publishing'
<1>1. CASE pc' # "sync"
  BY <1>1 DEF Publishing
<1>2. CASE (Sync \/ UNCHANGED vars) /\ pc' = "sync"
  <2>1. pc = "sync" /\ UNCHANGED <<data, others, pic, lost>>
    BY <1>2 DEF Sync, Proceed, Fail, Done, WriteReturns, local, world, vars, media
  <2>2. win.sect = "dir" /\ Base
    BY <2>1 DEF FilesInv, Known, Phased
  <2>3. win'.val = win.val /\ Fat' = Fat
    <3>1. CASE Sync
      BY <2>2, <3>1, DirMoves, FatMoves
    <3>2. CASE UNCHANGED vars
      BY <3>2, SeenKept DEF vars, media, memory
    <3> QED BY <1>2, <3>1, <3>2
  <2>4. PICK s \in Seq(Clusters), g \in [1..win.val["ours"].size -> 1..1 + 2 * Lines] :
          /\ Ours(Fat, win.val["ours"].clust, s) /\ Fits(win.val["ours"], s)
          /\ win.val["ours"].size \in 0..1 + 2 * Lines
          /\ Stored(data, s, win.val["ours"].size, g)
          /\ ~lost => win.val["ours"].size = 1 + 2 * Lines
                        /\ \A k \in 1..win.val["ours"].size : g[k] = k
    BY <2>1 DEF FilesInv, Publishing
  <2>5. Ours(Fat, win.val["ours"].clust, s)'
    BY <2>1, <2>3, <2>4 DEF Ours
  <2>6. Fits(win.val["ours"], s)'
    BY <2>3, <2>4 DEF Fits
  <2>7. Stored(data, s, win.val["ours"].size, g)'
    BY <2>1, <2>3, <2>4 DEF Stored
  <2> QED BY <2>1, <2>3, <2>4, <2>5, <2>6, <2>7 DEF Publishing
<1>3. CASE (Load \/ Done) /\ pc' = "sync"
  BY <1>3 DEF Load, Stalls, Proceed, Fail, Done, WriteReturns, local, Need
<1>4. CASE Press \/ Mount \/ Count \/ Open \/ Refuse \/ Find \/ Remove \/ Reopen \/ Write
           \/ Stretch \/ Search \/ SearchOn \/ CardFull \/ Link \/ Flush \/ Copy \/ Close \/ FlushLast
  <2>1. pc' # "sync"
    BY <1>4 DEF Press, Mount, NotMounted, Count, Open, Refuse, Find, Remove, Reopen, Write, Turn,
         Stretch, Search, SearchOn, CardFull, Link, Flush, Copy, Close, FlushLast,
         WriteBuffer, Fail, WriteReturns, EndOfWrite, Done, Allocated, At
  <2> QED BY <2>1 DEF Publishing
<1> QED BY <1>1, <1>2, <1>3, <1>4, EntryPublishing DEF Next, Step, SyncFs, PowerCut

\* The card there is at first.
LEMMA InitFiles == ASSUME Init, Known PROVE FilesInv
<1>1. PICK c \in Cards : card = c.card /\ others = c.others
  BY DEF Init
<1>2. /\ \A name \in Names : /\ Chained(FatOn(card), card.dir[name].clust, c.chain[name])
                             /\ Fits(card.dir[name], c.chain[name])
      /\ ClustersIn(c.chain["ours"]) \cap others = {}
      /\ ClustersIn(c.chain["other"]) \subseteq others
  BY <1>1, FilesAssumption
<1>3. OursReadable /\ OtherReadable
  BY <1>2, ChainParts DEF OursReadable, OtherReadable, Ours, Fat, Names
<1>4. pc = "idle" /\ line = 0 /\ btw = 0 /\ fil = NoFile /\ ~win.dirty
  BY DEF Init, NoWindow, Window
<1>5. Paced
  BY <1>4, NoFileIs, VolumeAssumption DEF Paced, InFile, InWrite, Upcoming, Begun, FirstOf
<1>6. Phased /\ Removing /\ Writing /\ Publishing
  BY <1>4 DEF Phased, Removing, Writing, Publishing, InFile, InWrite
<1> QED BY <1>3, <1>5, <1>6 DEF FilesInv

\* FatFs once it has accepted a name: whatever fails, the chain of a file is whole before
\* the directory has it.  Before, and with the program's own name, nothing is at stake.
THEOREM FilesHold == ASSUME TornReads = FALSE PROVE Spec => []FilesInv
<1>1. Init /\ Known => FilesInv
  BY InitFiles
<1>2. FilesInv /\ Known' /\ [Next]_vars => FilesInv'
  <2> SUFFICES ASSUME FilesInv, Known', [Next]_vars PROVE FilesInv'
    OBVIOUS
  <2>1. Base /\ Typed /\ Paced /\ Phased
    BY DEF FilesInv, Known
  <2>2. Paced'
    BY <2>1, NextPaced
  <2>3. Phased' /\ Removing' /\ Writing' /\ Publishing'
    BY NextPhased, NextRemoving, NextWriting, NextPublishing
  <2>4. OursReadable' /\ OtherReadable'
    BY NextOursReadable, NextOtherReadable
  <2> QED BY <2>2, <2>3, <2>4 DEF FilesInv
<1>3. Base /\ Typed => Known
  BY DEF Known
<1> QED BY <1>1, <1>2, <1>3, TypesHold, PTL DEF Spec

-----------------------------------------------------------------------------
(* What a reader of the card finds.                                         *)

\* The types of the volume, the file and the directory, and what their fields are within:
\* the pointer stays in the picture, and no number of clusters becomes negative but the
\* one that says it is not known.
THEOREM VolumeTyped == ASSUME TornReads = FALSE PROVE Spec => []VolumeTypeOK
<1>1. FilesInv => VolumeTypeOK
  <2> SUFFICES ASSUME FilesInv PROVE VolumeTypeOK
    OBVIOUS
  <2>1. Base /\ Typed /\ Paced
    BY DEF FilesInv, Known
  <2>2. /\ win.sect \in {"none", "boot", "fsinfo", "dir", "fat1", "fat2"} /\ win.dirty \in BOOLEAN
        /\ fil \in OurFile
    BY <2>1 DEF Base, Inv, WindowOK, Cached, ProgramOK, Placed
  <2>3. fil.fsize \in 0..1 + 2 * Lines /\ fil.fptr \in 0..1 + 2 * Lines
    <3>1. fil.fptr \in Nat /\ fil.fsize \in Nat /\ fil.fsize <= fil.fptr /\ fil.fptr < Upcoming
          /\ Upcoming \in 1..2 * Lines + 2 /\ Lines \in Nat
      BY <2>1, PiecesLeft, FileTyped DEF Paced
    <3> QED BY <3>1
  <2>4. fil.sclust \in Clusters \cup {0} /\ fil.clust \in Clusters \cup {0}
    BY <2>2 DEF OurFile, Mine0, Mine
  <2>5. /\ fs.type \in {"none", "FAT16", "FAT32"} /\ fs.fsi \in {"disabled", "clean", "dirty"}
        /\ fs.free \in Nat \cup {Unknown} /\ fs.last \in Nat \cup {Unknown}
    BY <2>1 DEF Typed, LocalsTyped, Volumes, Number
  <2>6. /\ card.dir \in [Names -> [size : Nat, clust : Clusters \cup {0}]]
        /\ Fat \in [Clusters -> Clusters \cup {0, EOC}]
    BY <2>1 DEF Typed, SectorsTyped, Entries, Links
  <2>7. pc \in InWrite \cup {"idle", "mount", "count", "open", "find",
                             "remove", "reopen", "last", "entry", "sync"}
    BY <2>1 DEF Typed, LocalsTyped
  <2> QED BY <2>2, <2>3, <2>4, <2>5, <2>6, <2>7 DEF VolumeTypeOK
<1> QED BY <1>1, FilesHold, PTL

\* A reader who follows the links from an entry finds its chain.
LEMMA ChainRead ==
  ASSUME NEW name, NEW s, Chained(Fat, card.dir[name].clust, s)
  PROVE  /\ ChainOf(name) = s /\ ClustersOf(name) = ClustersIn(s)
         /\ FileOf(name) = [k \in 1..card.dir[name].size |->
                              data[s[(k + 1) \div 2]][2 - (k % 2)]]
<1>1. ChainOf(name) = s
  BY ChainFound DEF ChainOf
<1> QED BY <1>1 DEF ClustersOf, ClustersIn, FileOf

\* FatFs, whether it accepts the name or not: whenever the power is cut, or an access of
\* the card fails, both files can be read to their size, and have no cluster in common.
THEOREM FilesCanBeRead == ASSUME TornReads = FALSE PROVE Spec => []FilesReadable
<1>1. FilesInv => FilesReadable
  <2> SUFFICES ASSUME FilesInv PROVE FilesReadable
    OBVIOUS
  <2>1. PICK s \in Seq(Clusters) : Ours(Fat, card.dir["ours"].clust, s) /\ Fits(card.dir["ours"], s)
    BY DEF FilesInv, OursReadable
  <2>2. PICK t \in Seq(Clusters) : /\ Chained(Fat, card.dir["other"].clust, t)
                                   /\ Fits(card.dir["other"], t) /\ ClustersIn(t) \subseteq others
    BY DEF FilesInv, OtherReadable
  <2>3. ASSUME NEW name \in Names, NEW u, Chained(Fat, card.dir[name].clust, u),
               Fits(card.dir[name], u)
        PROVE  /\ 2 * Len(ChainOf(name)) >= card.dir[name].size
               /\ card.dir[name].size = 0 <=> card.dir[name].clust = 0
               /\ Len(ChainOf(name)) < LastCluster
               /\ \A c \in ClustersOf(name) : Fat[c] # 0
    <3>1. ChainOf(name) = u /\ ClustersOf(name) = ClustersIn(u) /\ Len(u) \in Nat
      BY <2>3, ChainRead, ChainParts
    <3>2. card.dir[name].size \in Nat
      BY <2>3 DEF FilesInv, Known, Typed, SectorsTyped, Entries
    <3>3. Len(u) < LastCluster /\ \A c \in ClustersIn(u) : Fat[c] # 0
      BY <2>3, ChainShort, ChainInUse
    <3> QED BY <2>3, <3>1, <3>2, <3>3 DEF Fits
  <2>4. ClustersOf("ours") = ClustersIn(s) /\ ClustersOf("other") = ClustersIn(t)
    BY <2>1, <2>2, ChainRead DEF Ours
  <2>5. ClustersOf("ours") \cap ClustersOf("other") = {}
    BY <2>1, <2>2, <2>4 DEF Ours
  <2> QED BY <2>1, <2>2, <2>3, <2>5 DEF FilesReadable, Names, Ours
<1> QED BY <1>1, FilesHold, PTL

-----------------------------------------------------------------------------
(* The picture.                                                             *)

LEMMA FileKept ==
  ASSUME UNCHANGED data, Fat' = Fat, card'.dir["ours"] = card.dir["ours"]
  PROVE  FileOf("ours")' = FileOf("ours")
BY DEF FileOf, ChainOf

LEMMA FileEmpty ==
  /\ card.dir["ours"] = NoEntry => FileOf("ours") = <<>>
  /\ card'.dir["ours"] = NoEntry => FileOf("ours")' = <<>>
<1>1. ASSUME card.dir["ours"] = NoEntry PROVE FileOf("ours") = <<>>
  <2>1. card.dir["ours"].size = 0
    BY <1>1 DEF NoEntry
  <2> QED BY <2>1 DEF FileOf
<1>2. ASSUME card'.dir["ours"] = NoEntry PROVE FileOf("ours")' = <<>>
  <2>1. card'.dir["ours"].size = 0
    BY <1>2 DEF NoEntry
  <2> QED BY <2>1 DEF FileOf
<1> QED BY <1>1, <1>2

\* The calls of a screenshot that all succeeded have put the picture on the card.
LEMMA NextSaves ==
  ASSUME TornReads = FALSE, FilesInv, GoodCallsSave, [Next]_vars PROVE GoodCallsSave'
<1>0. Base /\ Phased
  BY DEF FilesInv, Known
<1>1. CASE pc' # "idle" \/ lost' = TRUE
  BY <1>1 DEF GoodCallsSave
<1>2. CASE UNCHANGED vars
  <2>1. Fat' = Fat
    BY <1>2, SeenKept DEF vars, media, memory
  <2>2. FileOf("ours")' = FileOf("ours")
    BY <1>2, <2>1, FileKept DEF vars, media
  <2> QED BY <1>2, <2>2 DEF GoodCallsSave, Picture, vars, local, world
<1>3. CASE SyncFs
  <2>1. /\ pc = "sync" /\ win.sect = "dir" /\ ~win.dirty /\ UNCHANGED <<data, pic, lost>>
    BY <1>0, <1>3 DEF SyncFs, Phased, world
  <2>2. win.val = card.dir
    BY <1>0, <2>1 DEF Base, WindowTells
  <2>3. card'.dir = card.dir /\ Fat' = Fat
    <3>1. ~Sync
      BY <1>3 DEF Sync, SyncFs
    <3> QED BY <1>0, <3>1, CardMoves
  <2>4. PICK s \in Seq(Clusters), g \in [1..card.dir["ours"].size -> 1..1 + 2 * Lines] :
          /\ Ours(Fat, card.dir["ours"].clust, s)
          /\ Stored(data, s, card.dir["ours"].size, g)
          /\ ~lost => card.dir["ours"].size = 1 + 2 * Lines
                        /\ \A k \in 1..card.dir["ours"].size : g[k] = k
    BY <2>1, <2>2 DEF FilesInv, Publishing
  <2>5. FileOf("ours") = [k \in 1..card.dir["ours"].size |->
                            data[s[(k + 1) \div 2]][2 - (k % 2)]]
    <3>1. Chained(Fat, card.dir["ours"].clust, s)
      BY <2>4 DEF Ours
    <3> QED BY <3>1, ChainRead
  <2>6. ~lost => FileOf("ours") = Picture(pic)
    <3>1. \A k \in 1..card.dir["ours"].size :
            data[s[(k + 1) \div 2]][2 - (k % 2)] = <<pic, g[k]>>
      BY <2>4 DEF Stored
    <3>2. FileOf("ours") = [k \in 1..card.dir["ours"].size |-> <<pic, g[k]>>]
      BY <2>5, <3>1
    <3>3. ASSUME ~lost PROVE [k \in 1..card.dir["ours"].size |-> <<pic, g[k]>>] = Picture(pic)
      BY <2>4, <3>3 DEF Picture
    <3> QED BY <3>2, <3>3
  <2>7. FileOf("ours")' = FileOf("ours")
    BY <2>1, <2>3, FileKept
  <2> QED BY <2>1, <2>6, <2>7 DEF GoodCallsSave, Picture
<1>4. CASE Sync \/ Load
  <2>1. pc' # "idle" \/ lost' = TRUE
    BY <1>4, Stalls DEF Sync, Load, Fail, Proceed, local
  <2> QED BY <1>1, <2>1
<1>5. CASE Press \/ Mount \/ Count \/ Open \/ Refuse \/ Find \/ Remove \/ Reopen \/ Write
           \/ Stretch \/ Search \/ SearchOn \/ CardFull \/ Link \/ Flush \/ Copy \/ Close \/ FlushLast
           \/ Entry \/ PowerCut
  <2>1. pc' # "idle" \/ lost' = TRUE
    BY <1>5 DEF Press, Mount, NotMounted, Count, Open, Refuse, Find, Remove, Reopen, Write, Turn,
         Stretch, Search, SearchOn, CardFull, Link, Flush, Copy, Close, FlushLast, Entry,
         PowerCut, WriteBuffer, Fail, WriteReturns, EndOfWrite, Allocated, At
  <2> QED BY <1>1, <2>1
<1> QED BY <1>2, <1>3, <1>4, <1>5 DEF Next, Step

\* A screenshot whose calls all succeeded, which takes a name that f_open accepts, is on
\* the card, whole and in order, until the next one is asked for.
THEOREM GoodCallsHaveSaved == ASSUME TornReads = FALSE PROVE Spec => []GoodCallsSave
<1>1. Init => GoodCallsSave
  BY DEF Init, GoodCallsSave
<1>2. FilesInv /\ GoodCallsSave /\ [Next]_vars => GoodCallsSave'
  BY NextSaves
<1> QED BY <1>1, <1>2, FilesHold, PTL DEF Spec

-----------------------------------------------------------------------------
(* The promise of SavedFile.                                                *)

\* While the directory has an empty entry, what is written is not in the file.
LEMMA FileStays ==
  ASSUME FilesInv, [Next]_vars, ~Sync PROVE FileOf("ours")' = FileOf("ours")
<1>1. card'.dir = card.dir /\ Fat' = Fat
  BY CardMoves DEF FilesInv, Known
<1>2. CASE Flush \/ FlushLast
  <2>1. card.dir["ours"] = NoEntry
    BY <1>2 DEF FilesInv, Phased, Flush, FlushLast, InFile, InWrite
  <2> QED BY <1>1, <2>1, FileEmpty
<1>3. CASE ~(Flush \/ FlushLast)
  <2>1. data' = data
    BY <1>3 DEF Next, Step, Load, Mount, Count, Open, Refuse, Find, Remove, Reopen, Write,
       Stretch, Search, SearchOn, CardFull, Link, Copy, Close, Entry, SyncFs, Press,
       PowerCut, vars, media
  <2> QED BY <1>1, <2>1, FileKept
<1> QED BY <1>2, <1>3

\* The first pieces of a chain, as the file that keeps them.
LEMMA StoredIsKept ==
  ASSUME NEW s, NEW g, card'.dir["ours"].size \in 0..1 + 2 * Lines,
         Chained(Fat', card'.dir["ours"].clust, s),
         Stored(data', s, card'.dir["ours"].size, g), pic' = pic
  PROVE  Reader!Keeps(FileOf("ours")', pic)
<1>1. FileOf("ours")' = [k \in 1..card'.dir["ours"].size |->
                           data'[s[(k + 1) \div 2]][2 - (k % 2)]]
  <2>1. ChainOf("ours")' = s
    BY ChainFound DEF ChainOf
  <2> QED BY <2>1 DEF FileOf
<1>2. FileOf("ours")' = [k \in 1..card'.dir["ours"].size |-> <<pic, g[k]>>]
  BY <1>1 DEF Stored
<1>3. /\ g \in [1..card'.dir["ours"].size -> 1..1 + 2 * Lines]
      /\ \A i, j \in 1..card'.dir["ours"].size : i < j => g[i] < g[j]
  BY DEF Stored
<1> QED BY <1>2, <1>3 DEF Reader!Keeps

\* The only steps of the file are that its entry is emptied, and that it gets its size.
LEMMA StepImplements ==
  ASSUME TornReads = FALSE, FilesInv, [Next]_vars
  PROVE  [Reader!Press \/ Reader!Truncate \/ Reader!Publish]_(Reader!vars)
<1>0. Base /\ Phased
  BY DEF FilesInv, Known
<1>1. CASE Press
  <2>1. FileOf("ours")' = FileOf("ours") /\ pic' = pic + 1
    <3>1. Fat' = Fat
      BY <1>1, SeenKept DEF Press, media
    <3> QED BY <1>1, <3>1, FileKept DEF Press, media
  <2> QED BY <2>1 DEF Reader!Press
<1>2. CASE ~Press /\ ~Sync
  <2>1. FileOf("ours")' = FileOf("ours")
    BY <1>2, FileStays
  <2>2. pic' = pic
    BY <1>2 DEF Next, Step, Load, Mount, Count, Open, Refuse, Find, Remove, Reopen, Write,
       Stretch, Search, SearchOn, CardFull, Link, Flush, Copy, Close, FlushLast, Entry,
       SyncFs, PowerCut, WriteBuffer, vars, world
  <2> QED BY <2>1, <2>2 DEF Reader!vars
<1>3. CASE Sync
  <2>1. /\ win.dirty /\ (win.sect # "dir" => card'.dir = card.dir)
        /\ card'.dir \in {card.dir, win.val} /\ (win.sect = "dir" => Fat' = Fat)
        /\ data' = data /\ pic' = pic /\ others' = others
    BY <1>0, <1>3, DirMoves, FatMoves DEF Sync, world
  <2>2. pc \in {"reopen", "entry", "remove", "search", "stretch", "link", "sync"}
    BY <1>0, <1>3, <2>1, Stalls DEF Phased
  <2>3. CASE card.dir["ours"] = NoEntry /\ card'.dir["ours"] = NoEntry
    <3>1. FileOf("ours") = <<>> /\ FileOf("ours")' = <<>>
      BY <2>3, FileEmpty
    <3> QED BY <2>1, <3>1 DEF Reader!vars
  <2>4. CASE card'.dir["ours"] = NoEntry
    <3>1. FileOf("ours")' = <<>>
      BY <2>4, FileEmpty
    <3> QED BY <2>1, <3>1 DEF Reader!Truncate
  <2>5. CASE card'.dir["ours"] = card.dir["ours"] /\ Fat' = Fat
    <3>1. FileOf("ours")' = FileOf("ours")
      BY <2>1, <2>5, FileKept
    <3> QED BY <2>1, <3>1 DEF Reader!vars
  <2>6. CASE pc = "sync" /\ card'.dir = win.val
    <3>1. card.dir["ours"] = NoEntry /\ win.sect = "dir"
      BY <1>0, <2>1, <2>6 DEF Phased
    <3>2. FileOf("ours") = <<>>
      BY <3>1, FileEmpty
    <3>3. PICK s \in Seq(Clusters), g \in [1..win.val["ours"].size -> 1..1 + 2 * Lines] :
            /\ Ours(Fat, win.val["ours"].clust, s)
            /\ win.val["ours"].size \in 0..1 + 2 * Lines
            /\ Stored(data, s, win.val["ours"].size, g)
      BY <2>6 DEF FilesInv, Publishing
    <3>4. Reader!Keeps(FileOf("ours")', pic)
      BY <2>1, <2>6, <3>1, <3>3, StoredIsKept DEF Ours
    <3> QED BY <2>1, <3>2, <3>4 DEF Reader!Publish
  <2>7. pc # "sync" => card'.dir["ours"] = NoEntry \/ (card'.dir["ours"] = card.dir["ours"] /\ Fat' = Fat)
    BY <1>0, <2>1, <2>2 DEF Phased, InFile, InWrite
  <2>8. pc = "sync" => card'.dir = win.val \/ (card'.dir["ours"] = card.dir["ours"] /\ Fat' = Fat)
    BY <1>0, <2>1 DEF Phased
  <2> QED BY <2>4, <2>5, <2>6, <2>7, <2>8
<1> QED BY <1>1, <1>2, <1>3

\* FatFs does what SavedFile promises of the file, whatever the name, whatever fails and
\* whenever the power is cut: each step is one of SavedFile's, or none.
THEOREM FileIsSaved == ASSUME TornReads = FALSE PROVE Spec => Implements
<1>1. Init => Reader!Init
  BY DEF Init, Reader!Init
<1>2. FilesInv /\ [Next]_vars =>
        [Reader!Press \/ Reader!Truncate \/ Reader!Publish]_(Reader!vars)
  BY StepImplements
<1> QED BY <1>1, <1>2, FilesHold, PTL DEF Spec, Implements, Reader!Spec

-----------------------------------------------------------------------------
(* No cluster is lost, unless something fails.                              *)

UsedIn(fat) == {c \in Clusters : fat[c] # 0}
FreeIn(fat) == {c \in Clusters : fat[c] = 0}

\* The clusters a reader meets from one on.
Reached(fat, head) == ClustersIn(ChainFrom(fat, head))

\* The clusters of the file: of its entry on the card, or of the chain that is removed,
\* is on its way or is in the entry that is about to be written.
Holding ==
  CASE pc = "remove" -> Reached(Seen, clst)
    [] pc = "reopen" -> {}
    [] pc \in InFile \ {"link"} -> Reached(Seen, fil.sclust)
    [] pc = "link" -> Reached(Seen, fil.sclust) \cup {clst}
    [] pc = "sync" -> Reached(Fat, win.val["ours"].clust)
    [] OTHER -> ClustersOf("ours")

Tidied ==
  Clean => /\ UsedIn(Seen) = Holding \cup others
           /\ others = ClustersOf("other")
           /\ pc \in {"idle", "mount"} => ~win.dirty

CutsOK == cuts \in Nat

\* A run without a fault or a cut had none before.
LEMMA StaysClean ==
  ASSUME [Next]_vars, Clean', CutsOK
  PROVE  Clean /\ ~Fail /\ ~NotMounted /\ ~PowerCut /\ ~faulty
<1>1. faulty' = faulty /\ (UNCHANGED cuts \/ cuts' = cuts + 1)
  BY DEF Next, Step, Sync, Load, Mount, Count, Open, Refuse, Find, Remove, Reopen, Write, Stretch,
       Search, SearchOn, CardFull, Link, Flush, Copy, Close, FlushLast, Entry, SyncFs, Press,
       PowerCut, WriteBuffer, vars, world
<1>2. ~faulty /\ cuts = 0
  BY <1>1 DEF Clean, CutsOK
<1> QED BY <1>2 DEF Clean, Fail, NotMounted, PowerCut

LEMMA CutsTyped == Spec => []CutsOK
<1>1. Init => CutsOK
  BY DEF Init, CutsOK
<1>2. ASSUME CutsOK, [Next]_vars PROVE CutsOK'
  <2>1. UNCHANGED cuts \/ cuts' = cuts + 1
    BY <1>2 DEF Next, Step, Sync, Load, Mount, Count, Open, Refuse, Find, Remove, Reopen, Write,
       Stretch, Search, SearchOn, CardFull, Link, Flush, Copy, Close, FlushLast, Entry, SyncFs,
       Press, PowerCut, WriteBuffer, vars, world
  <2> QED BY <1>2, <2>1 DEF CutsOK
<1> QED BY <1>1, <1>2, PTL DEF Spec

LEMMA ReachedIs ==
  ASSUME NEW fat, NEW head, NEW s, Chained(fat, head, s)
  PROVE  Reached(fat, head) = ClustersIn(s)
BY ChainFound DEF Reached

LEMMA ReachedNone == ASSUME NEW fat PROVE Reached(fat, 0) = {}
BY ReachedIs, ChainOfNone

LEMMA ReachedOfOurs == ClustersOf("ours") = Reached(Fat, card.dir["ours"].clust)
BY DEF ClustersOf, ChainOf, Reached, ClustersIn

LEMMA OtherKept ==
  ASSUME FilesInv, [Next]_vars PROVE ClustersOf("other")' = ClustersOf("other")
<1>1. card'.dir["other"] = card.dir["other"] /\ \A c \in others : Fat'[c] = Fat[c]
  BY StepIntact DEF FilesInv, Known, Base
<1>2. PICK s \in Seq(Clusters) :
        Chained(Fat, card.dir["other"].clust, s) /\ ClustersIn(s) \subseteq others
  BY DEF FilesInv, OtherReadable
<1>3. Chained(Fat', card'.dir["other"].clust, s)
  BY <1>1, <1>2, ChainStays
<1>4. ChainOf("other") = s /\ ChainOf("other")' = s
  BY <1>2, <1>3, ChainFound DEF ChainOf
<1> QED BY <1>4 DEF ClustersOf

LEMMA TidiedBy ==
  ASSUME FilesInv, Tidied, Clean, [Next]_vars, UsedIn(Seen') = Holding' \cup others,
         pc' \in {"idle", "mount"} => ~win'.dirty
  PROVE  Tidied'
<1>1. others' = others /\ ClustersOf("other")' = ClustersOf("other")
  BY OthersStay, OtherKept
<1>2. UsedIn(Seen)' = UsedIn(Seen')
  BY DEF UsedIn, Clusters
<1> QED BY <1>1, <1>2 DEF Tidied

\* The steps that look, or move the window, or put data.
LEMMA HoldingKept ==
  ASSUME Seen' = Seen,
         \/ /\ pc' = pc /\ UNCHANGED <<clst, fil>> /\ pc \in InFile \cup {"remove", "reopen"}
         \/ /\ pc' = "sync" /\ pc = "sync" /\ win'.val = win.val /\ Fat' = Fat
         \/ /\ {pc, pc'} \subseteq {"idle", "mount", "count", "open", "find"}
            /\ card'.dir = card.dir /\ Fat' = Fat
         \/ {pc, pc'} \subseteq InFile \ {"link"} /\ fil'.sclust = fil.sclust
  PROVE  Holding' = Holding
<1>1. CASE pc' = pc /\ UNCHANGED <<clst, fil>> /\ pc \in InFile \cup {"remove", "reopen"}
  BY <1>1 DEF Holding, InFile, InWrite, Reached
<1>2. CASE pc' = "sync" /\ pc = "sync" /\ win'.val = win.val /\ Fat' = Fat
  BY <1>2 DEF Holding, InFile, InWrite, Reached
<1>3. CASE /\ {pc, pc'} \subseteq {"idle", "mount", "count", "open", "find"}
           /\ card'.dir = card.dir /\ Fat' = Fat
  <2>1. ClustersOf("ours")' = ClustersOf("ours")
    BY <1>3 DEF ClustersOf, ChainOf
  <2> QED BY <1>3, <2>1 DEF Holding, InFile, InWrite
<1>4. CASE {pc, pc'} \subseteq InFile \ {"link"} /\ fil'.sclust = fil.sclust
  BY <1>4 DEF Holding, InFile, InWrite, Reached
<1> QED BY <1>1, <1>2, <1>3, <1>4

\* The chain of the old file is freed to its end.
LEMMA RemoveTidied ==
  ASSUME FilesInv, Tidied, Clean, Remove PROVE Tidied'
<1>0. /\ Base /\ pc = "remove" /\ At("remove") /\ card' = card /\ pc' \in {"remove", "reopen"}
      /\ [Next]_vars
  BY DEF FilesInv, Known, Remove, At, media, Next, Step
<1>1. /\ clst \in Clusters /\ win.sect = FatOf(clst) /\ win.val[clst] = Seen[clst]
      /\ clst \notin others
  BY <1>0, AtCluster
<1>2. PICK s \in Seq(Clusters) : Ours(Seen, clst, s) /\ s # <<>>
  BY <1>0 DEF FilesInv, Removing
<1>3. Chained(Seen, clst, s) /\ Seen[clst] # 0 /\ clst \in ClustersIn(s)
  <2>1. Chained(Seen, clst, s)
    BY <1>2 DEF Ours
  <2>2. clst \in ClustersIn(s)
    BY <1>2, <2>1, ChainParts DEF ClustersIn
  <2> QED BY <2>1, <2>2, ChainInUse
<1>4. Put(clst, 0)
  BY <1>1, <1>3 DEF Remove
<1>5. Seen'[clst] = 0 /\ \A c \in Clusters : c # clst => Seen'[c] = Seen[c]
  BY <1>0, <1>1, <1>4, SeenPut
<1>6. UsedIn(Seen') = UsedIn(Seen) \ {clst}
  BY <1>1, <1>5 DEF UsedIn
<1>7. UsedIn(Seen) = ClustersIn(s) \cup others
  <2>1. Holding = Reached(Seen, clst)
    BY <1>0 DEF Holding, InFile, InWrite
  <2> QED BY <1>3, <2>1, ReachedIs DEF Tidied
<1>8. \A d \in ClustersIn(s) \ {clst} : Seen'[d] = Seen[d]
  BY <1>3, <1>5, ChainInUse
<1>9. CASE Seen[clst] \in Clusters
  <2>1. pc' = "remove" /\ clst' = Seen[clst]
    BY <1>0, <1>1, <1>9 DEF Remove
  <2>2. Chained(Seen', clst', Tail(s)) /\ ClustersIn(Tail(s)) = ClustersIn(s) \ {clst}
    BY <1>2, <1>3, <1>8, <1>9, <2>1, ChainShrinks
  <2>3. Holding' = ClustersIn(s) \ {clst}
    <3>1. Holding' = Reached(Seen', clst')
      BY <2>1 DEF Holding, Reached, InFile, InWrite
    <3> QED BY <2>2, <3>1, ReachedIs
  <2> QED BY <1>0, <1>1, <1>6, <1>7, <2>1, <2>3, TidiedBy
<1>10. CASE Seen[clst] \notin Clusters
  <2>1. pc' = "reopen"
    BY <1>1, <1>10 DEF Remove
  <2>2. ClustersIn(s) = {clst}
    BY <1>2, <1>3, <1>8, <1>10, ChainShrinks
  <2>3. Holding' = {}
    BY <2>1 DEF Holding, InFile, InWrite
  <2> QED BY <1>0, <1>1, <1>6, <1>7, <2>1, <2>2, <2>3, TidiedBy
<1> QED BY <1>9, <1>10

\* A cluster that is marked is the file's.
LEMMA SearchTidied ==
  ASSUME FilesInv, Tidied, Clean, Search PROVE Tidied'
<1>0. Base /\ Typed /\ pc = "search" /\ At("search") /\ card' = card /\ [Next]_vars
  BY DEF FilesInv, Known, Search, At, media, Next, Step
<1>1. PICK s \in Seq(Clusters), g \in [1..fil.fptr -> 1..1 + 2 * Lines] :
        Linked(s) /\ Sized(s) /\ Filled(s, g)
  BY <1>0 DEF FilesInv, Writing, InFile, InWrite
<1>2. clst \in Clusters /\ win.sect = FatOf(clst) /\ Seen[clst] = 0 /\ Put(clst, EOC)
  BY <1>0, AtCluster DEF Search
<1>3. Seen'[clst] = EOC /\ \A c \in Clusters : c # clst => Seen'[c] = Seen[c]
  BY <1>0, <1>2, SeenPut
<1>4. UsedIn(Seen') = UsedIn(Seen) \cup {clst}
  <2>1. Seen'[clst] # 0
    BY <1>3, VolumeAssumption DEF EOC
  <2>2. \A c \in Clusters : c # clst => Seen'[c] = Seen[c]
    BY <1>3
  <2> QED BY <1>2, <2>1, <2>2 DEF UsedIn
<1>5. Chained(Seen, fil.sclust, s)
  BY <1>1 DEF Linked, Ours
<1>6. UsedIn(Seen) = ClustersIn(s) \cup others
  <2>1. Holding = Reached(Seen, fil.sclust)
    BY <1>0 DEF Holding, InFile, InWrite
  <2> QED BY <1>5, <2>1, ReachedIs DEF Tidied
<1>7. CASE fil.fptr = 0
  <2>1. Allocated(clst) /\ fil.sclust = 0 /\ s = <<>>
    <3>1. s = <<>> <=> fil.sclust = 0
      BY <1>1, WritingParts
    <3>2. 2 * Len(s) = 0 /\ Len(s) \in Nat
      BY <1>0, <1>1, <1>7 DEF Sized
    <3> QED BY <1>7, <3>1, <3>2 DEF Search
  <2>2. fil'.sclust = clst /\ pc' \in {"flush", "copy"}
    BY <1>0, <2>1, FileTyped DEF Allocated, OurFile
  <2>3. Chained(Seen', clst, <<clst>>) /\ ClustersIn(<<clst>>) = {clst} /\ ClustersIn(s) = {}
    BY <1>2, <1>3, <2>1, ChainOfOne, ChainOfNone
  <2>4. Holding' = {clst}
    <3>1. Holding' = Reached(Seen', fil'.sclust)
      BY <2>2 DEF Holding, InFile, InWrite, Reached
    <3> QED BY <2>2, <2>3, <3>1, ReachedIs
  <2> QED BY <1>0, <1>4, <1>6, <2>2, <2>3, <2>4, TidiedBy
<1>8. CASE fil.fptr # 0
  <2>1. pc' = "link" /\ fil' = fil /\ clst' = clst
    BY <1>8 DEF Search
  <2>2. \A c \in ClustersIn(s) : Seen'[c] = Seen[c]
    BY <1>2, <1>3, <1>5, ChainInUse
  <2>3. Chained(Seen', fil.sclust, s)
    BY <1>5, <2>2, ChainStays
  <2>4. Holding' = ClustersIn(s) \cup {clst}
    <3>1. Holding' = Reached(Seen', fil'.sclust) \cup {clst'}
      BY <2>1 DEF Holding, InFile, InWrite, Reached
    <3> QED BY <2>1, <2>3, <3>1, ReachedIs
  <2> QED BY <1>0, <1>4, <1>6, <2>1, <2>4, TidiedBy
<1> QED BY <1>7, <1>8

LEMMA LinkTidied ==
  ASSUME FilesInv, Tidied, Clean, Link PROVE Tidied'
<1>0. Base /\ Typed /\ pc = "link" /\ At("link") /\ card' = card /\ [Next]_vars
      /\ Put(fil.clust, clst) /\ Allocated(clst)
  BY DEF FilesInv, Known, Link, At, media, Next, Step
<1>1. PICK s \in Seq(Clusters), g \in [1..fil.fptr -> 1..1 + 2 * Lines] :
        Linked(s) /\ Sized(s) /\ Filled(s, g)
  BY <1>0 DEF FilesInv, Writing, InFile, InWrite
<1>2. Len(s) \in Nat /\ 2 * Len(s) = fil.fptr /\ fil.fptr # 0 /\ s # <<>>
  BY <1>0, <1>1, WritingParts DEF Sized
<1>3. /\ fil.clust \in Clusters /\ win.sect = FatOf(fil.clust) /\ clst \in Clusters
  BY <1>0, AtEnd
<1>4. Seen'[fil.clust] = clst /\ \A c \in Clusters : c # fil.clust => Seen'[c] = Seen[c]
  BY <1>0, <1>3, SeenPut
<1>5. /\ Chained(Seen, fil.sclust, s) /\ fil.clust = s[Len(s)] /\ clst \notin ClustersIn(s)
      /\ Seen[clst] = EOC /\ fil.sclust # 0
  BY <1>0, <1>1, <1>2, WritingParts DEF Linked, Ours
<1>6. fil.clust \in ClustersIn(s) /\ Seen[fil.clust] # 0
  <2>1. fil.clust \in ClustersIn(s)
    BY <1>2, <1>5, ChainParts DEF ClustersIn
  <2> QED BY <1>5, <2>1, ChainInUse
<1>7. Seen'[clst] = EOC /\ \A d \in ClustersIn(s) \ {s[Len(s)]} : Seen'[d] = Seen[d]
  BY <1>3, <1>4, <1>5, <1>6, ChainInUse
<1>8. /\ Chained(Seen', fil.sclust, Append(s, clst))
      /\ ClustersIn(Append(s, clst)) = ClustersIn(s) \cup {clst}
  BY <1>2, <1>3, <1>4, <1>5, <1>7, ChainGrows
<1>9. fil'.sclust = fil.sclust /\ pc' \in {"flush", "copy"}
  BY <1>0, <1>5, FileTyped DEF Allocated, OurFile
<1>10. UsedIn(Seen') = UsedIn(Seen)
  <2>1. Seen'[fil.clust] # 0
    BY <1>3, <1>4 DEF Clusters
  <2>2. \A c \in Clusters : c # fil.clust => Seen'[c] = Seen[c]
    BY <1>4
  <2>3. UsedIn(Seen') = UsedIn(Seen) \cup {fil.clust}
    BY <1>3, <2>1, <2>2 DEF UsedIn
  <2>4. fil.clust \in UsedIn(Seen)
    BY <1>3, <1>6 DEF UsedIn
  <2> QED BY <2>3, <2>4
<1>11. UsedIn(Seen) = ClustersIn(s) \cup {clst} \cup others
  <2>1. Holding = Reached(Seen, fil.sclust) \cup {clst}
    BY <1>0 DEF Holding, InFile, InWrite
  <2> QED BY <1>5, <2>1, ReachedIs DEF Tidied
<1>12. Holding' = ClustersIn(s) \cup {clst}
  <2>1. Holding' = Reached(Seen', fil'.sclust)
    BY <1>9 DEF Holding, InFile, InWrite, Reached
  <2> QED BY <1>8, <1>9, <2>1, ReachedIs
<1> QED BY <1>0, <1>9, <1>10, <1>11, <1>12, TidiedBy

\* The chain of the old file is to be removed, if there is one.
LEMMA FindTidied ==
  ASSUME FilesInv, Tidied, Clean, Find PROVE Tidied'
<1>0. pc = "find" /\ [Next]_vars
  BY DEF Find, At, Next, Step
<1>1. win.val = card.dir /\ Seen' = Seen /\ Seen = Fat
  BY FindsEntry
<1>2. Holding = Reached(Fat, card.dir["ours"].clust)
  BY <1>0, ReachedOfOurs DEF Holding, InFile, InWrite
<1>3. clst' = card.dir["ours"].clust /\ pc' = (IF clst' = 0 THEN "reopen" ELSE "remove")
  BY <1>1 DEF Find
<1>4. Holding' = Holding
  <2>1. CASE clst' = 0
    BY <1>2, <1>3, <2>1, ReachedNone DEF Holding, InFile, InWrite
  <2>2. CASE clst' # 0
    <3>1. Holding' = Reached(Seen', clst')
      BY <1>3, <2>2 DEF Holding, InFile, InWrite, Reached
    <3> QED BY <1>1, <1>2, <1>3, <3>1
  <2> QED BY <2>1, <2>2
<1> QED BY <1>0, <1>1, <1>3, <1>4, TidiedBy DEF Tidied

LEMMA ReopenTidied ==
  ASSUME FilesInv, Tidied, Clean, Reopen PROVE Tidied'
<1>0. pc = "reopen" /\ pc' = "write" /\ win.sect = "dir" /\ [Next]_vars
  BY AtDir DEF Reopen, At, Next, Step
<1>1. fil'.sclust = 0
  BY <1>0, NoFileIs DEF Reopen, FilesInv, Phased, NoFile
<1>2. Seen' = Seen
  BY SeenKept DEF Reopen, media
<1>3. Holding = {} /\ Holding' = Reached(Seen', fil'.sclust)
  BY <1>0 DEF Holding, InFile, InWrite, Reached
<1> QED BY <1>0, <1>1, <1>2, <1>3, ReachedNone, TidiedBy DEF Tidied

LEMMA EntryTidied ==
  ASSUME FilesInv, Tidied, Clean, Entry PROVE Tidied'
<1>0. Base /\ Typed /\ pc = "entry" /\ pc' = "sync" /\ win.sect = "dir" /\ card' = card
      /\ [Next]_vars
  BY AtDir DEF FilesInv, Known, Entry, At, Next, Step, media
<1>1. Seen' = Seen /\ Fat' = Fat /\ Seen = Fat
  BY <1>0, SeenDir DEF Entry, Base
<1>2. win'.val["ours"].clust = fil.sclust
  <2>1. "ours" \in DOMAIN win.val
    BY <1>0 DEF Typed, SectorsTyped, Names
  <2> QED BY <2>1 DEF Entry, Put, Window
<1>3. Holding = Reached(Seen, fil.sclust) /\ Holding' = Reached(Fat', win'.val["ours"].clust)
  BY <1>0 DEF Holding, InFile, InWrite, Reached
<1> QED BY <1>0, <1>1, <1>2, <1>3, TidiedBy DEF Tidied

LEMMA SyncFsTidied ==
  ASSUME FilesInv, Tidied, Clean, SyncFs PROVE Tidied'
<1>0. Base /\ pc = "sync" /\ pc' = "idle" /\ win.sect = "dir" /\ ~win.dirty /\ [Next]_vars
  BY DEF FilesInv, Known, Phased, SyncFs, Done, Next, Step
<1>1. card'.dir = card.dir /\ Fat' = Fat
  <2>1. ~Sync
    BY DEF Sync, SyncFs
  <2> QED BY <1>0, <2>1, CardMoves
<1>2. win.val = card.dir /\ Seen = Fat
  BY <1>0, SeenIsFat DEF Base, WindowTells
<1>3. win'.sect \in {"dir", "fsinfo"} /\ ~win'.dirty
  BY <1>0 DEF SyncFs, Window
<1>4. Seen' = Seen
  BY <1>1, <1>2, <1>3, SeenLeaves
<1>5. Holding = Reached(Fat, card.dir["ours"].clust)
  BY <1>0, <1>2 DEF Holding, InFile, InWrite
<1>6. Holding' = ClustersOf("ours")'
  BY <1>0 DEF Holding, InFile, InWrite
<1>7. ClustersOf("ours")' = ClustersOf("ours")
  BY <1>1 DEF ClustersOf, ChainOf
<1> QED BY <1>0, <1>3, <1>4, <1>5, <1>6, <1>7, ReachedOfOurs, TidiedBy DEF Tidied

LEMMA NextTidied ==
  ASSUME TornReads = FALSE, FilesInv, Tidied, CutsOK, [Next]_vars PROVE Tidied'
<1> SUFFICES ASSUME Clean' PROVE Tidied'
  BY DEF Tidied
<1>0. /\ Clean /\ ~Fail /\ ~NotMounted /\ ~PowerCut /\ ~faulty
      /\ Base /\ Typed /\ Phased /\ UsedIn(Seen) = Holding \cup others
      /\ pc \in {"idle", "mount"} => ~win.dirty
  BY StaysClean DEF Tidied, FilesInv, Known
<1>1. CASE Sync
  <2>1. Proceed /\ UNCHANGED <<pc, clst, fil>> /\ Seen' = Seen
    BY <1>0, <1>1, SeenMoves DEF Sync, Proceed, local
  <2>2. win.dirty /\ win'.val = win.val /\ (win.sect = "dir" => Fat' = Fat)
    BY <1>0, <1>1, DirMoves, FatMoves
  <2>3. pc \in {"reopen", "entry", "remove", "search", "stretch", "link", "sync"}
        /\ (pc = "sync" => win.sect = "dir")
    BY <1>0, <1>1, <2>2, Stalls DEF Phased
  <2>4. Holding' = Holding
    BY <2>1, <2>2, <2>3, HoldingKept DEF InFile, InWrite
  <2> QED BY <1>0, <2>1, <2>3, <2>4, TidiedBy
<1>2. CASE Load
  <2>1. Proceed /\ UNCHANGED <<pc, clst, fil, card>> /\ Seen' = Seen
    BY <1>0, <1>2, SeenMoves DEF Load, Proceed, local, media
  <2>2. pc \in {"count", "find", "reopen", "entry", "remove", "search", "stretch", "link"}
    BY <1>2, Stalls
  <2>3. Fat' = Fat
    BY <2>1 DEF Fat, FatOn, FatOf, Clusters
  <2>4. Holding' = Holding
    BY <2>1, <2>2, <2>3, HoldingKept DEF InFile, InWrite
  <2> QED BY <1>0, <2>1, <2>2, <2>4, TidiedBy
<1>3. CASE Press \/ Count \/ Open \/ Refuse
  <2>1. UNCHANGED <<card, win>> /\ {pc, pc'} \subseteq {"idle", "mount", "count", "open", "find"}
        /\ (pc' \in {"idle", "mount"} => ~win.dirty)
    BY <1>0, <1>3 DEF Press, Count, Open, Refuse, Done, At, media, memory, Phased
  <2>2. Seen' = Seen /\ Fat' = Fat
    BY <2>1, SeenKept
  <2>3. Holding' = Holding
    BY <2>1, <2>2, HoldingKept
  <2> QED BY <1>0, <2>1, <2>2, <2>3, TidiedBy
<1>4. CASE Mount
  <2>1. pc = "mount" /\ pc' \in {"open", "count"} /\ card' = card
        /\ win'.sect \in {"fsinfo", "boot"}
    BY <1>0, <1>4 DEF Mount, Mounted, Window, media
  <2>2. Fat' = Fat /\ Seen' = Fat' /\ Seen = Fat
    BY <1>0, <2>1, SeenLeaves, SeenIsFat DEF Fat, FatOn, FatOf, Clusters, Base
  <2>3. Holding' = Holding
    BY <2>1, <2>2, HoldingKept
  <2> QED BY <1>0, <2>1, <2>2, <2>3, TidiedBy
<1>5. CASE Write \/ Stretch \/ SearchOn \/ CardFull \/ Copy \/ Flush \/ FlushLast \/ Close
  <2>1. UNCHANGED <<card, win>> /\ fil'.sclust = fil.sclust
    BY <1>0, <1>5, FileTyped, CopyPuts
       DEF Write, Stretch, SearchOn, CardFull, Flush, FlushLast, WriteBuffer, Close, EndOfWrite,
           WriteReturns, Copy, Copied, media, memory, OurFile, FilesInv
  <2>2. {pc, pc'} \subseteq InFile \ {"link"}
    BY <1>0, <1>5
       DEF Write, Stretch, SearchOn, CardFull, Copy, Flush, FlushLast, WriteBuffer, Close,
           EndOfWrite, WriteReturns, Turn, At, InFile, InWrite
  <2>3. Seen' = Seen
    BY <2>1, SeenKept
  <2>4. Holding' = Holding
    BY <2>1, <2>2, <2>3, HoldingKept
  <2> QED BY <1>0, <2>2, <2>3, <2>4, TidiedBy DEF InFile, InWrite
<1>6. CASE UNCHANGED vars
  <2>1. Seen' = Seen /\ Fat' = Fat /\ UNCHANGED <<pc, clst, fil, win, card>>
    BY <1>6, SeenKept DEF vars, media, memory, local
  <2>2. ClustersOf("ours")' = ClustersOf("ours")
    BY <2>1 DEF ClustersOf, ChainOf
  <2>3. Holding' = Holding
    BY <2>1, <2>2 DEF Holding, InFile, InWrite, Reached
  <2> QED BY <1>0, <2>1, <2>3, TidiedBy
<1> QED
  BY <1>0, <1>1, <1>2, <1>3, <1>4, <1>5, <1>6, FindTidied, ReopenTidied, EntryTidied,
     SyncFsTidied, RemoveTidied, SearchTidied, LinkTidied
  DEF Next, Step

\* The cards are tidy at first.
LEMMA InitTidied == ASSUME TidyCards, Init, Known PROVE Tidied
<1>1. PICK c \in Cards : card = c.card /\ others = c.others
  BY DEF Init
<1>2. /\ Clusters \ FreeIn(Fat) = ClustersIn(c.chain["ours"]) \cup others
      /\ others = ClustersIn(c.chain["other"])
  BY <1>1 DEF TidyCards, Tidy, FreeIn, Fat
<1>3. /\ Chained(Fat, card.dir["ours"].clust, c.chain["ours"])
      /\ Chained(Fat, card.dir["other"].clust, c.chain["other"])
  BY <1>1, FilesAssumption DEF Fat, Names
<1>4. ClustersOf("ours") = ClustersIn(c.chain["ours"])
      /\ ClustersOf("other") = ClustersIn(c.chain["other"])
  BY <1>3, ChainRead
<1>5. pc = "idle" /\ ~win.dirty /\ Seen = Fat
  <2>1. pc = "idle" /\ ~win.dirty
    BY DEF Init, NoWindow, Window
  <2> QED BY <2>1, SeenIsFat DEF Known, Base
<1>6. UsedIn(Seen) = Clusters \ FreeIn(Fat)
  BY <1>5 DEF UsedIn, FreeIn
<1>7. Holding = ClustersOf("ours")
  BY <1>5 DEF Holding, InFile, InWrite
<1> QED BY <1>2, <1>4, <1>5, <1>6, <1>7 DEF Tidied

LEMMA TidiedHolds == ASSUME TornReads = FALSE, TidyCards PROVE Spec => []Tidied
<1>1. Init /\ Known => Tidied
  BY InitTidied
<1>2. FilesInv /\ CutsOK /\ Tidied /\ [Next]_vars => Tidied'
  BY NextTidied
<1>3. FilesInv => Known
  BY DEF FilesInv
<1> QED BY <1>1, <1>2, <1>3, FilesHold, CutsTyped, PTL DEF Spec

\* Between two screenshots of a run without a fault or a cut, the clusters in use are those
\* of the two files, if they were so at first: what is freed, marked and linked is never
\* forgotten in between.
THEOREM NothingHasLeaked ==
  ASSUME TornReads = FALSE, TidyCards PROVE Spec => []NothingLeaks
<1>1. FilesInv /\ Tidied => NothingLeaks
  <2> SUFFICES ASSUME FilesInv, Tidied, Clean, pc = "idle"
               PROVE  Used = ClustersOf("ours") \cup ClustersOf("other") /\ ~win.dirty
    BY DEF NothingLeaks
  <2>1. ~win.dirty /\ Seen = Fat
    BY SeenIsFat DEF Tidied, FilesInv, Known, Base
  <2>2. Holding = ClustersOf("ours")
    BY DEF Holding, InFile, InWrite
  <2>3. UsedIn(Seen) = Used
    BY <2>1 DEF UsedIn, Used
  <2> QED BY <2>1, <2>2, <2>3 DEF Tidied
<1> QED BY <1>1, FilesHold, TidiedHolds, PTL

-----------------------------------------------------------------------------
(* The number of free clusters.                                             *)

Left == Cardinality(FreeIn(Seen))

\* What FSINFO has until a file is opened, what the volume has while there is one, with
\* the cluster that is marked but not yet linked, and what f_getfree has counted so far.
\* FSINFO is as the volume unless it is to be written.
ToldByCard   == card.boot = "FAT32" => card.fsinfo.free \in {Unknown, Left}
ToldByVolume == /\ fs.type = card.boot
                /\ card.boot = "FAT32" => fs.fsi # "disabled"
                /\ card.boot = "FAT32" /\ fs.fsi = "clean" => card.fsinfo.free = fs.free
                /\ fs.free \in {Unknown, IF pc = "link" THEN Left + 1 ELSE Left}
ToldByCount  == n = IF clst = 1 THEN 0 ELSE Cardinality(FreeIn(Seen) \cap Part("fat1"))

Counted ==
  Clean => /\ pc \in {"idle", "mount"} => n = 0
           /\ pc \in {"idle", "mount", "count", "open"} => ToldByCard
           /\ pc \notin {"idle", "mount"} => ToldByVolume
           /\ pc = "count" => ToldByCount

\* What the steps find in the FAT: remove_chain no free cluster, and create_chain the end of
\* the chain that it is to stretch.
LEMMA RemovesUsed ==
  ASSUME FilesInv, pc = "remove" PROVE Seen[clst] # 0
<1>1. PICK s \in Seq(Clusters) : Ours(Seen, clst, s) /\ s # <<>>
  BY DEF FilesInv, Removing
<1>2. Chained(Seen, clst, s)
  BY <1>1 DEF Ours
<1>3. clst \in ClustersIn(s)
  BY <1>1, <1>2, ChainParts DEF ClustersIn
<1> QED BY <1>2, <1>3, ChainInUse

LEMMA EndsChain ==
  ASSUME FilesInv, pc \in {"stretch", "link"} PROVE Seen[fil.clust] = EOC
<1>0. Base /\ Typed
  BY DEF FilesInv, Known
<1>1. PICK s \in Seq(Clusters), g \in [1..fil.fptr -> 1..1 + 2 * Lines] :
        Linked(s) /\ Sized(s) /\ Filled(s, g)
  BY DEF FilesInv, Writing, InFile, InWrite
<1>2. Len(s) \in Nat /\ 2 * Len(s) = fil.fptr /\ fil.fptr # 0 /\ s # <<>>
  BY <1>0, <1>1, WritingParts DEF Sized
<1>3. Chained(Seen, fil.sclust, s) /\ fil.clust = s[Len(s)]
  BY <1>1, <1>2 DEF Linked, Ours
<1> QED BY <1>2, <1>3 DEF Chained

\* One cluster more is free, or one less.
LEMMA FreeFinite ==
  ASSUME NEW fat PROVE IsFiniteSet(FreeIn(fat)) /\ Cardinality(FreeIn(fat)) \in Nat
<1>1. IsFiniteSet(Clusters)
  BY FS_Interval, VolumeAssumption DEF Clusters
<1>2. FreeIn(fat) \in SUBSET Clusters
  BY DEF FreeIn
<1>3. IsFiniteSet(FreeIn(fat))
  BY <1>1, <1>2, FS_Subset
<1> QED BY <1>3, FS_CardinalityType

LEMMA LeftKept == ASSUME Seen' = Seen PROVE Left' = Left
BY DEF Left, FreeIn, Clusters

LEMMA LeftTyped == Left \in Nat
BY FreeFinite DEF Left

LEMMA OneFreed ==
  ASSUME NEW c \in Clusters, Seen[c] # 0, Seen'[c] = 0,
         \A d \in Clusters : d # c => Seen'[d] = Seen[d]
  PROVE  Left' = Left + 1
<1>1. FreeIn(Seen)' = FreeIn(Seen) \cup {c} /\ c \notin FreeIn(Seen)
  BY DEF FreeIn, Clusters
<1>2. IsFiniteSet(FreeIn(Seen))
  BY FreeFinite
<1> QED BY <1>1, <1>2, FS_AddElement DEF Left

LEMMA OneTaken ==
  ASSUME NEW c \in Clusters, Seen[c] = 0, Seen'[c] # 0,
         \A d \in Clusters : d # c => Seen'[d] = Seen[d]
  PROVE  Left' = Left - 1
<1>1. FreeIn(Seen)' = FreeIn(Seen) \ {c} /\ c \in FreeIn(Seen)
  BY DEF FreeIn, Clusters
<1>2. IsFiniteSet(FreeIn(Seen))
  BY FreeFinite
<1> QED BY <1>1, <1>2, FS_RemoveElement DEF Left

\* f_getfree counts the sectors of the FAT, which share no cluster.
LEMMA CountCounted ==
  ASSUME FilesInv, Counted, Clean, Count PROVE Counted'
<1>0. /\ Base /\ Typed /\ pc = "count" /\ At("count") /\ clst \in {1, 2} /\ n \in Nat
      /\ Seen' = Seen /\ card' = card
  BY SeenKept DEF FilesInv, Known, Base, Inv, ProgramOK, Count, At, media, memory, Typed,
                  LocalsTyped
<1>1. win.sect = FatSectors[clst] /\ FatSectors[1] = "fat1" /\ FatSectors[2] = "fat2"
      /\ Len(FatSectors) = 2
  BY <1>0 DEF At, Need, FatSectors
<1> DEFINE S == {c \in DOMAIN win.val : win.val[c] = 0}
           found == n + Cardinality(S)
<1>2. S = FreeIn(Seen) \cap Part(win.sect)
  <2>1. DOMAIN win.val = Part(win.sect)
    BY <1>0, <1>1 DEF Base, Inv, WindowOK, Apart, Cached
  <2>2. \A c \in Part(win.sect) : c \in Clusters /\ win.sect = FatOf(c)
    BY <1>0, <1>1, VolumeAssumption DEF Part, Clusters, FatOf
  <2>3. \A c \in Part(win.sect) : Seen[c] = win.val[c]
    BY <2>2, SeenAt
  <2> QED BY <2>1, <2>2, <2>3 DEF FreeIn
<1>3. ToldByVolume /\ ToldByCount
  BY <1>0 DEF Counted
<1>4. Left' = Left /\ FreeIn(Seen)' = FreeIn(Seen)
  BY <1>0, LeftKept DEF FreeIn, Clusters
<1>5. ToldByCard'
  BY <1>0, <1>4 DEF Counted, ToldByCard
<1>6. CASE clst = 1
  <2>1. pc' = "count" /\ clst' = 2 /\ n' = found /\ UNCHANGED fs /\ n = 0
    BY <1>0, <1>1, <1>3, <1>6 DEF Count, ToldByCount
  <2>2. Cardinality(S) \in Nat
    <3>1. S \in SUBSET FreeIn(Seen)
      BY <1>2
    <3> HIDE DEF S
    <3> QED BY <3>1, FreeFinite, FS_Subset, FS_CardinalityType
  <2>3. n' = Cardinality(S)
    <3> HIDE DEF S
    <3> QED BY <2>1, <2>2
  <2>4. ToldByCount'
    BY <1>1, <1>2, <1>4, <1>6, <2>1, <2>3 DEF ToldByCount, Part
  <2>5. ToldByVolume'
    BY <1>0, <1>3, <1>4, <2>1 DEF ToldByVolume
  <2> QED BY <1>5, <2>1, <2>4, <2>5 DEF Counted
<1>7. CASE clst = 2
  <2>1. pc' = "open" /\ fs' = [fs EXCEPT !.free = found, !.fsi = Touched(@)]
    BY <1>0, <1>1, <1>7 DEF Count
  <2>2. found = Left
    <3> DEFINE T == FreeIn(Seen) \cap Part("fat1")
    <3>1. T \cup S = FreeIn(Seen) /\ T \cap S = {}
      BY <1>1, <1>2, <1>7, VolumeAssumption DEF FreeIn, Part, Clusters
    <3>2. n = Cardinality(T)
      BY <1>3, <1>7 DEF ToldByCount
    <3>3. T \in SUBSET FreeIn(Seen) /\ S \in SUBSET FreeIn(Seen)
      BY <3>1
    <3> HIDE DEF T, S
    <3>4. IsFiniteSet(T) /\ IsFiniteSet(S)
      BY <3>3, FreeFinite, FS_Subset
    <3>5. Cardinality(T \cup S) = Cardinality(T) + Cardinality(S) - Cardinality(T \cap S)
      BY <3>4, FS_Union
    <3>6. Cardinality(T) \in Nat /\ Cardinality(S) \in Nat
      BY <3>4, FS_CardinalityType
    <3>7. Cardinality(T \cup S) = Left /\ Cardinality(T \cap S) = 0
      BY <3>1, FS_EmptySet DEF Left
    <3> QED BY <3>2, <3>5, <3>6, <3>7
  <2> HIDE DEF found
  <2>3. fs'.free = Left /\ fs'.type = fs.type
        /\ (fs.fsi # "disabled" => fs'.fsi = "dirty")
    BY <1>0, <2>1, <2>2 DEF Typed, LocalsTyped, Volumes, Touched
  <2>4. ToldByVolume'
    BY <1>0, <1>3, <1>4, <2>1, <2>3 DEF ToldByVolume
  <2> QED BY <1>5, <2>1, <2>4 DEF Counted
<1> QED BY <1>0, <1>6, <1>7

\* The steps that leave FatFs where there is a volume, and its clusters in use.
LEMMA CountedOn ==
  ASSUME Counted, Clean, Seen' = Seen, UNCHANGED fs,
         card'.boot = card.boot, card'.fsinfo = card.fsinfo,
         pc \notin {"idle", "mount"}, pc' \notin {"idle", "mount"},
         pc' = "link" <=> pc = "link",
         pc' \in {"count", "open"} => pc' = pc,
         pc' = "count" => UNCHANGED <<clst, n>>
  PROVE  Counted'
<1>1. Left' = Left /\ FreeIn(Seen)' = FreeIn(Seen)
  BY LeftKept DEF FreeIn, Clusters
<1>2. ToldByVolume'
  BY <1>1 DEF Counted, ToldByVolume
<1>3. pc' = "count" => ToldByCount'
  BY <1>1 DEF Counted, ToldByCount, Part
<1>4. pc' \in {"count", "open"} => ToldByCard'
  BY <1>1 DEF Counted, ToldByCard
<1> QED BY <1>2, <1>3, <1>4 DEF Counted

\* What a cluster that is freed or taken does to the volume.
LEMMA FreedTells ==
  ASSUME NEW f \in Volumes
  PROVE  /\ Freed(f).type = f.type /\ (f.fsi # "disabled" => Freed(f).fsi # "disabled")
         /\ Freed(f).free = IF f.free = Unknown THEN Unknown ELSE f.free + 1
         /\ f.fsi # "disabled" /\ Freed(f).fsi = "clean" => Freed(f).free = f.free /\ f.fsi = "clean"
BY DEF Volumes, Freed, Touched

LEMMA TakenTells ==
  ASSUME NEW f \in Volumes, NEW c
  PROVE  /\ Taken(f, c).type = f.type /\ (f.fsi # "disabled" => Taken(f, c).fsi # "disabled")
         /\ Taken(f, c).free = IF f.free = Unknown THEN Unknown ELSE f.free - 1
         /\ f.fsi # "disabled" /\ Taken(f, c).fsi = "clean"
              => Taken(f, c).free = f.free /\ f.fsi = "clean"
BY DEF Volumes, Taken, Touched

\* The volume after a step that frees, takes or marks a cluster.
LEMMA CountedMoves ==
  ASSUME Typed, Counted, Clean, card' = card, NEW STATE g, fs' = g,
         pc \notin {"idle", "mount"}, pc' \notin {"idle", "mount", "count", "open"},
         g.type = fs.type, fs.fsi # "disabled" => g.fsi # "disabled",
         fs.fsi # "disabled" /\ g.fsi = "clean" => g.free = fs.free /\ fs.fsi = "clean",
         NEW STATE d, d \in Int, g.free = IF fs.free = Unknown THEN Unknown ELSE fs.free + d,
         (IF pc' = "link" THEN Left' + 1 ELSE Left') = (IF pc = "link" THEN Left + 1 ELSE Left) + d
  PROVE  Counted'
<1>1. ToldByVolume
  BY DEF Counted
<1>2. fs'.type = card'.boot
  BY <1>1 DEF ToldByVolume
<1>3. card'.boot = "FAT32" => fs'.fsi # "disabled"
  BY <1>1 DEF ToldByVolume
<1>4. card'.boot = "FAT32" /\ fs'.fsi = "clean" => card'.fsinfo.free = fs'.free
  BY <1>1 DEF ToldByVolume
<1>5. fs'.free \in {Unknown, IF pc' = "link" THEN Left' + 1 ELSE Left'}
  BY <1>1, LeftTyped DEF ToldByVolume
<1>6. ToldByVolume'
  BY <1>2, <1>3, <1>4, <1>5 DEF ToldByVolume
<1> QED BY <1>6 DEF Counted

LEMMA RemoveCounted ==
  ASSUME FilesInv, Counted, Clean, Remove PROVE Counted'
<1>0. Base /\ Typed /\ pc = "remove" /\ At("remove") /\ card' = card /\ fs \in Volumes
      /\ pc' \in {"remove", "reopen"} /\ scl \in Nat /\ scl # 0
  BY DEF FilesInv, Known, Remove, At, media, Typed, LocalsTyped
<1>1. clst \in Clusters /\ win.sect = FatOf(clst) /\ win.val[clst] = Seen[clst]
  BY <1>0, AtCluster
<1>2. Seen[clst] # 0
  BY <1>0, RemovesUsed
<1>3. Put(clst, 0)
  BY <1>1, <1>2 DEF Remove
<1>4. Left' = Left + 1
  <2>1. Seen'[clst] = 0
    BY <1>0, <1>1, <1>3, SeenPut
  <2>2. \A d \in Clusters : d # clst => Seen'[d] = Seen[d]
    BY <1>0, <1>1, <1>3, SeenPut
  <2> QED BY <1>1, <1>2, <2>1, <2>2, OneFreed
<1>5. fs' = Freed(fs) \/ fs' = [Freed(fs) EXCEPT !.last = scl - 1]
  BY <1>1, <1>2 DEF Remove
<1>6. Freed(fs) \in Volumes
  BY <1>0, CountedTyped
<1>7. fs'.type = Freed(fs).type /\ fs'.fsi = Freed(fs).fsi /\ fs'.free = Freed(fs).free
  BY <1>5, <1>6 DEF Volumes
<1>8. fs'.type = fs.type /\ (fs.fsi # "disabled" => fs'.fsi # "disabled")
      /\ (fs.fsi # "disabled" /\ fs'.fsi = "clean" => fs'.free = fs.free /\ fs.fsi = "clean")
      /\ fs'.free = IF fs.free = Unknown THEN Unknown ELSE fs.free + 1
  BY <1>0, <1>7, FreedTells
<1>9. (IF pc' = "link" THEN Left' + 1 ELSE Left') = (IF pc = "link" THEN Left + 1 ELSE Left) + 1
  BY <1>0, <1>4
<1> QED BY <1>0, <1>8, <1>9, CountedMoves

LEMMA AllocatedCounted ==
  ASSUME FilesInv, Counted, Clean, card' = card, pc \in {"search", "link"}, NEW STATE c,
         Allocated(c), Left' = IF pc = "link" THEN Left ELSE Left - 1
  PROVE  Counted'
<1>1. Typed /\ fs \in Volumes /\ fs' = Taken(fs, c) /\ pc' \in {"flush", "copy"}
  BY DEF FilesInv, Known, Typed, LocalsTyped, Allocated
<1>2. fs'.type = fs.type /\ (fs.fsi # "disabled" => fs'.fsi # "disabled")
      /\ (fs.fsi # "disabled" /\ fs'.fsi = "clean" => fs'.free = fs.free /\ fs.fsi = "clean")
      /\ fs'.free = IF fs.free = Unknown THEN Unknown ELSE fs.free - 1
  BY <1>1, TakenTells
<1>3. fs.free \in Int
  BY <1>1 DEF Volumes, Number, Unknown
<1>4. fs'.free = IF fs.free = Unknown THEN Unknown ELSE fs.free + (-1)
  BY <1>2, <1>3
<1>5. (IF pc' = "link" THEN Left' + 1 ELSE Left') = (IF pc = "link" THEN Left + 1 ELSE Left) + (-1)
  BY <1>1, LeftTyped
<1> QED BY <1>1, <1>2, <1>4, <1>5, CountedMoves

LEMMA SearchCounted ==
  ASSUME FilesInv, Counted, Clean, Search PROVE Counted'
<1>0. Base /\ Typed /\ pc = "search" /\ At("search") /\ card' = card
  BY DEF FilesInv, Known, Search, At, media
<1>1. clst \in Clusters /\ win.sect = FatOf(clst) /\ Seen[clst] = 0 /\ Put(clst, EOC)
  BY <1>0, AtCluster DEF Search
<1>2. Left' = Left - 1
  <2>1. Seen'[clst] # 0
    BY <1>0, <1>1, SeenPut, VolumeAssumption DEF EOC
  <2>2. \A d \in Clusters : d # clst => Seen'[d] = Seen[d]
    BY <1>0, <1>1, SeenPut
  <2> QED BY <1>1, <2>1, <2>2, OneTaken
<1>3. CASE fil.fptr = 0
  BY <1>0, <1>2, <1>3, AllocatedCounted DEF Search
<1>4. CASE fil.fptr # 0
  <2>1. pc' = "link" /\ fs' = fs
    BY <1>4 DEF Search
  <2>2. Left' + 1 = Left
    BY <1>2, LeftTyped
  <2>3. ToldByVolume'
    BY <1>0, <2>1, <2>2 DEF Counted, ToldByVolume
  <2> QED BY <2>1, <2>3 DEF Counted
<1> QED BY <1>3, <1>4

LEMMA LinkCounted ==
  ASSUME FilesInv, Counted, Clean, Link PROVE Counted'
<1>0. Base /\ Typed /\ pc = "link" /\ At("link") /\ card' = card
      /\ Put(fil.clust, clst) /\ Allocated(clst)
  BY DEF FilesInv, Known, Link, At, media
<1>1. fil.clust \in Clusters /\ win.sect = FatOf(fil.clust) /\ clst \in Clusters
  BY <1>0, AtEnd
<1>2. Seen[fil.clust] # 0
  BY <1>0, EndsChain, VolumeAssumption DEF EOC
<1>3. Seen'[fil.clust] # 0
  BY <1>0, <1>1, SeenPut DEF Clusters
<1>4. \A d \in Clusters : d # fil.clust => Seen'[d] = Seen[d]
  BY <1>0, <1>1, SeenPut
<1>5. FreeIn(Seen)' = FreeIn(Seen)
  BY <1>2, <1>3, <1>4 DEF FreeIn, Clusters
<1> QED BY <1>0, <1>5, AllocatedCounted DEF Left

\* FSINFO is written when it does not tell what the volume does.
LEMMA SyncFsCounted ==
  ASSUME FilesInv, Counted, Clean, SyncFs PROVE Counted'
<1>0. /\ Base /\ Typed /\ pc = "sync" /\ pc' = "idle" /\ n' = 0 /\ win.sect = "dir"
      /\ ~win.dirty /\ [Next]_vars /\ ~faulty /\ ToldByVolume
  BY DEF FilesInv, Known, Phased, SyncFs, Done, Next, Step, Clean, Counted
<1>1. Seen' = Seen
  <2>1. win'.sect \in {"dir", "fsinfo"}
    BY <1>0 DEF SyncFs, Window
  <2>2. Seen = Fat /\ Seen' = Fat'
    BY <1>0, <2>1, SeenIsFat, SeenLeaves DEF Base
  <2>3. ~Sync
    BY DEF Sync, SyncFs
  <2> QED BY <1>0, <2>2, <2>3, CardMoves
<1>2. Left' = Left /\ fs.free \in {Unknown, Left}
  BY <1>0, <1>1, LeftKept DEF ToldByVolume
<1>3. CASE fs.type = "FAT32" /\ fs.fsi = "dirty"
  <2>1. card' = [card EXCEPT !.fsinfo = [free |-> fs.free, next |-> fs.last]]
    BY <1>0, <1>3 DEF SyncFs
  <2>2. card'.fsinfo.free = fs.free
    BY <1>0, <2>1 DEF Base, Inv, MediaOK
  <2> QED BY <1>0, <1>2, <2>2 DEF Counted, ToldByCard
<1>4. CASE ~(fs.type = "FAT32" /\ fs.fsi = "dirty")
  <2>1. card' = card
    BY <1>0, <1>4 DEF SyncFs
  <2>2. card.boot = "FAT32" => fs.fsi = "clean"
    BY <1>0, <1>4 DEF ToldByVolume, Typed, LocalsTyped, Volumes
  <2> QED BY <1>0, <1>2, <2>1, <2>2 DEF Counted, ToldByCard, ToldByVolume
<1> QED BY <1>3, <1>4

LEMMA MountCounted ==
  ASSUME FilesInv, Tidied, Counted, Clean, Mount, ~NotMounted PROVE Counted'
<1>0. /\ Base /\ Typed /\ pc = "mount" /\ card' = card /\ Mounted /\ ~win.dirty
      /\ ToldByCard /\ n = 0 /\ n' = 0 /\ ~faulty
      /\ pc' = "open" \/ (pc' = "count" /\ clst' = 1)
  BY DEF FilesInv, Known, Mount, Tidied, Clean, Counted, media
<1>1. Seen' = Seen
  <2>1. win'.sect \notin {"fat1", "fat2"}
    BY <1>0 DEF Mounted, Window
  <2>2. Seen = Fat /\ Seen' = Fat' /\ Fat' = Fat
    BY <1>0, <2>1, SeenIsFat, SeenLeaves DEF Base, Fat, FatOn, FatOf, Clusters
  <2> QED BY <2>2
<1>2. Left' = Left
  BY <1>1, LeftKept
<1>3. /\ fs'.type = card.boot
      /\ card.boot = "FAT32" => fs'.fsi = "clean" /\ fs'.free = card.fsinfo.free
      /\ card.boot # "FAT32" => fs'.free = Unknown
  <2>1. CASE card.boot = "FAT32"
    <3>1. fs' = [type |-> "FAT32", fsi |-> "clean",
                 last |-> card.fsinfo.next, free |-> card.fsinfo.free]
      BY <1>0, <2>1 DEF Mounted
    <3> QED BY <2>1, <3>1
  <2>2. CASE card.boot # "FAT32"
    <3>1. fs' = [NoVolume EXCEPT !.type = card.boot]
      BY <1>0, <2>2 DEF Mounted
    <3> QED BY <2>2, <3>1 DEF NoVolume
  <2> QED BY <2>1, <2>2
<1>4. ToldByVolume'
  BY <1>0, <1>2, <1>3 DEF ToldByVolume, ToldByCard
<1>5. pc' = "count" => ToldByCount'
  BY <1>0 DEF ToldByCount
<1>6. ToldByCard'
  BY <1>0, <1>2 DEF ToldByCard
<1> QED BY <1>0, <1>4, <1>5, <1>6 DEF Counted

LEMMA NextCounted ==
  ASSUME TornReads = FALSE, FilesInv, Tidied, Counted, CutsOK, [Next]_vars PROVE Counted'
<1> SUFFICES ASSUME Clean' PROVE Counted'
  BY DEF Counted
<1>0. /\ Clean /\ ~Fail /\ ~NotMounted /\ ~PowerCut /\ ~faulty
      /\ Base /\ Typed /\ Phased
  BY StaysClean DEF FilesInv, Known
<1>1. CASE Sync \/ Load
  <2>1. Proceed /\ UNCHANGED <<pc, clst, n, fs>> /\ Seen' = Seen
    BY <1>0, <1>1, SeenMoves DEF Sync, Load, Proceed, local
  <2>2. card'.boot = card.boot /\ card'.fsinfo = card.fsinfo
    <3>1. card' = card \/ (card' = [card EXCEPT ![win.sect] = win.val] /\ win.sect \in Cached)
      BY <1>0, <1>1 DEF Sync, Load, media, Base, Inv, WindowOK
    <3> QED BY <1>0, <3>1 DEF Base, Inv, MediaOK, Cached
  <2>3. pc \notin {"idle", "mount"}
    BY <1>1, Stalls
  <2> QED BY <1>0, <2>1, <2>2, <2>3, CountedOn
<1>2. CASE Press
  <2>1. UNCHANGED <<card, win, n>> /\ pc = "idle" /\ pc' = "mount"
    BY <1>2 DEF Press, media
  <2>2. Left' = Left
    BY <2>1, SeenKept, LeftKept
  <2> QED BY <1>0, <2>1, <2>2 DEF Counted, ToldByCard
<1>3. CASE Open \/ Find \/ Reopen \/ Entry
  <2>1. card' = card /\ fs' = fs /\ pc \notin {"idle", "mount", "link"}
        /\ pc' \notin {"idle", "mount", "link", "count", "open"}
    BY <1>0, <1>3 DEF Open, Find, Reopen, Entry, At, media, memory
  <2>2. Seen' = Seen
    <3>1. CASE Find
      BY <3>1, FindsEntry
    <3>2. CASE Entry
      BY <1>0, <3>2, AtDir, SeenDir DEF Entry, media, Base
    <3>3. CASE Open \/ Reopen
      BY <1>0, <3>3, SeenKept DEF Open, Reopen, media, memory
    <3> QED BY <1>3, <3>1, <3>2, <3>3
  <2> QED BY <1>0, <2>1, <2>2, CountedOn
<1>4. CASE Write \/ Stretch \/ SearchOn \/ CardFull \/ Copy \/ Flush \/ FlushLast \/ Close
  <2>1. UNCHANGED <<card, win, fs>>
    BY <1>0, <1>4
       DEF Write, Stretch, SearchOn, CardFull, Flush, FlushLast, WriteBuffer, Close, Copy, media,
           memory
  <2>2. {pc, pc'} \subseteq InFile \ {"link"}
    BY <1>0, <1>4
       DEF Write, Stretch, SearchOn, CardFull, Copy, Flush, FlushLast, WriteBuffer, Close,
           EndOfWrite, WriteReturns, Turn, At, InFile, InWrite
  <2>3. Seen' = Seen
    BY <2>1, SeenKept
  <2> QED BY <1>0, <2>1, <2>2, <2>3, CountedOn DEF InFile, InWrite
<1>5. CASE UNCHANGED vars
  <2>1. UNCHANGED <<pc, clst, n, fs, card, win>>
    BY <1>5 DEF vars, media, memory, local
  <2>2. Left' = Left /\ FreeIn(Seen)' = FreeIn(Seen)
    BY <2>1, SeenKept, LeftKept DEF FreeIn, Clusters
  <2> QED BY <1>0, <2>1, <2>2
          DEF Counted, ToldByCard, ToldByVolume, ToldByCount, Part
<1>6. CASE Refuse
  <2>1. UNCHANGED <<card, win>> /\ pc = "open" /\ pc' = "idle" /\ n' = 0
    BY <1>0, <1>6 DEF Refuse, Done, media
  <2>2. Left' = Left
    BY <2>1, SeenKept, LeftKept
  <2> QED BY <1>0, <2>1, <2>2 DEF Counted, ToldByCard
<1> QED
  BY <1>0, <1>1, <1>2, <1>3, <1>4, <1>5, <1>6, MountCounted, CountCounted, RemoveCounted,
     SearchCounted, LinkCounted, SyncFsCounted
  DEF Next, Step

LEMMA InitCounted == ASSUME TidyCards, Init, Known PROVE Counted
<1>1. PICK c \in Cards : card = c.card
  BY DEF Init
<1>2. card.fsinfo.free \in {Unknown, Cardinality(FreeIn(Fat))}
  BY <1>1 DEF TidyCards, Tidy, FreeIn, Fat
<1>3. pc = "idle" /\ n = 0 /\ Seen = Fat
  <2>1. pc = "idle" /\ n = 0 /\ ~win.dirty
    BY DEF Init, NoWindow, Window
  <2> QED BY <2>1, SeenIsFat DEF Known, Base
<1> QED BY <1>2, <1>3 DEF Counted, ToldByCard, Left

LEMMA CountedHolds == ASSUME TornReads = FALSE, TidyCards PROVE Spec => []Counted
<1>1. Init /\ Known => Counted
  BY InitCounted
<1>2. FilesInv /\ Tidied /\ CutsOK /\ Counted /\ [Next]_vars => Counted'
  BY NextCounted
<1>3. FilesInv => Known
  BY DEF FilesInv
<1> QED BY <1>1, <1>2, <1>3, FilesHold, TidiedHolds, CutsTyped, PTL DEF Spec

\* The number of free clusters, counted by f_getfree or read from FSINFO, is what the FAT
\* says whenever it is known, in a run without a fault or a cut, if what FSINFO tells is true
\* at first: what each call frees and takes goes into it, and it goes into FSINFO at the end.
THEOREM FreeIsTold ==
  ASSUME TornReads = FALSE, TidyCards PROVE Spec => []FreeTells
<1>1. Counted => FreeTells
  BY DEF Counted, ToldByVolume, FreeTells, Left, FreeIn
<1> QED BY <1>1, CountedHolds, PTL

\* What the steps of the model find in the FAT.
LinksExpected == /\ pc = "remove" => Seen[clst] # 0
                 /\ pc = "stretch" => Seen[fil.clust] = EOC

\* Whatever fails, remove_chain, which also ends on a free cluster, meets none, and
\* create_chain, which also looks for a chain that goes on, finds the end of it.
THEOREM LinksAreExpected == ASSUME TornReads = FALSE PROVE Spec => []LinksExpected
<1>1. FilesInv => LinksExpected
  BY RemovesUsed, EndsChain DEF LinksExpected
<1> QED BY <1>1, FilesHold, PTL
===============================================================================
