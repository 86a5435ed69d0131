-------------------------------- MODULE MCFat --------------------------------
(* Cards with files over both sectors of the FAT: without a screenshot; full,  *)
(* but for an old one; without room for one.  FSINFO, on a FAT32 card, knows   *)
(* the free clusters or does not, and its hint makes the search wrap or not.   *)
EXTENDS FatVolume

Fresh  == [other |-> <<3>>, ours |-> <<>>]
Full   == [other |-> <<5, 2>>, ours |-> <<4, 3, 6>>]
NoRoom == [other |-> <<3, 6, 2>>, ours |-> <<5>>]

LinkIn(chain, c) ==
  LET i == CHOOSE j \in DOMAIN chain : chain[j] = c
  IN  IF i = Len(chain) THEN EOC ELSE chain[i + 1]

FatIn(layout) ==
  [c \in Clusters |-> IF \E i \in DOMAIN layout.ours : layout.ours[i] = c
                      THEN LinkIn(layout.ours, c)
                      ELSE IF \E i \in DOMAIN layout.other : layout.other[i] = c
                      THEN LinkIn(layout.other, c) ELSE 0]

EntryOf(chain, size) ==
  IF chain = <<>> THEN NoEntry ELSE [size |-> size, clust |-> chain[1]]

DataIn(layout) ==
  [c \in Clusters |->
     IF \E i \in DOMAIN layout.ours : layout.ours[i] = c
     THEN LET i == CHOOSE j \in DOMAIN layout.ours : layout.ours[j] = c
          IN  <<<<0, 2 * i - 1>>, <<0, 2 * i>>>>
     ELSE <<<<-1, 2 * c>>, <<-1, 2 * c + 1>>>>]

CardOf(layout, type, info) ==
  [data |-> DataIn(layout), others |-> {layout.other[i] : i \in DOMAIN layout.other},
   chain |-> [ours |-> layout.ours, other |-> layout.other],
   card |-> [boot |-> type, fsinfo |-> info,
             dir |-> [ours |-> EntryOf(layout.ours, 2 * Len(layout.ours) - 1),
                      other |-> EntryOf(layout.other, 2 * Len(layout.other))],
             fat1 |-> [c \in 2..Split |-> FatIn(layout)[c]],
             fat2 |-> [c \in Split + 1..LastCluster |-> FatIn(layout)[c]]]]

NoInfo == [free |-> Unknown, next |-> Unknown]

SomeCards == {CardOf(Fresh, "FAT32", [free |-> 4, next |-> LastCluster]),
              CardOf(Full, "FAT16", NoInfo),
              CardOf(NoRoom, "FAT16", NoInfo),
              CardOf(Full, "FAT32", [free |-> Unknown, next |-> 3])}

\* The letters of "scope_screen", and of "img" (lcd_display_form_and_text.c:467).
ProgramBodies == {12}
SomeBodies    == {3, 12}
=============================================================================
