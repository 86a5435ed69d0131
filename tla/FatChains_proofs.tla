-------------------------- MODULE FatChains_proofs --------------------------
(***************************************************************************)
(* Lemmas about the chains of a FAT, for every size of it: that a chain is *)
(* the only one from its head, that a reader who follows the links finds   *)
(* it, and what freeing, marking and linking a cluster do to it.  They are *)
(* by induction on the place in the chain, as the least place where a      *)
(* claim fails.                                                            *)
(***************************************************************************)
EXTENDS FatVolume, FiniteSetTheorems, WellFoundedInduction, TLAPS

\* A set of naturals has a least element.
LEMMA Least ==
  ASSUME NEW S \in SUBSET Nat, S # {}
  PROVE  \E m \in S : \A k \in S : m <= k
<1> DEFINE R == {p \in Nat \X Nat : p[1] < p[2]}
<1>1. IsWellFoundedOn(R, Nat)
  BY NatLessThanWellFounded DEF OpToRel
<1>2. PICK x \in S : \A y \in S : ~(<<y, x>> \in R)
  <2> HIDE DEF R
  <2> QED BY <1>1, WFMin
<1>3. ASSUME NEW k \in S PROVE x <= k
  <2>1. k \in Nat /\ x \in Nat /\ <<k, x>> \in Nat \X Nat /\ <<k, x>> \notin R
    BY <1>2
  <2>2. ~(k < x)
    BY <2>1
  <2> QED BY <2>1, <2>2
<1> QED BY <1>3

\* What holds of 0, and of a number when it holds of the one before, holds up to top.
LEMMA Steps ==
  ASSUME NEW top \in Nat, NEW T, 0 \in T, \A i \in 1..top : i - 1 \in T => i \in T
  PROVE  \A i \in 0..top : i \in T
<1> DEFINE S == {i \in 0..top : i \notin T}
<1>1. SUFFICES ASSUME S # {} PROVE FALSE
  OBVIOUS
<1>2. PICK m \in S : \A k \in S : m <= k
  <2>1. S \in SUBSET Nat
    OBVIOUS
  <2> HIDE DEF S
  <2> QED BY <1>1, <2>1, Least
<1>3. m \in 1..top /\ m - 1 \in 0..top /\ m - 1 \notin S
  BY <1>2
<1> QED BY <1>2, <1>3

-----------------------------------------------------------------------------

\* The parts of a chain.
LEMMA ChainParts ==
  ASSUME NEW fat, NEW head, NEW s, Chained(fat, head, s)
  PROVE  /\ s \in Seq(Clusters) /\ Len(s) \in Nat /\ DOMAIN s = 1..Len(s)
         /\ s # <<>> <=> Len(s) > 0
         /\ \A i \in 1..Len(s) : s[i] \in Clusters
         /\ \A i, j \in 1..Len(s) : s[i] = s[j] => i = j
         /\ \A i \in 1..Len(s) - 1 : fat[s[i]] = s[i + 1]
         /\ s # <<>> => head = s[1] /\ fat[s[Len(s)]] = EOC
         /\ s = <<>> => head = 0
BY DEF Chained

\* The clusters are no more than the FAT has, so that the chain ends.
LEMMA ChainShort ==
  ASSUME NEW fat, NEW head, NEW s, Chained(fat, head, s)
  PROVE  Len(s) < LastCluster
<1>1. s \in Injection(1..Len(s), Clusters) /\ Len(s) \in Nat
  BY ChainParts DEF Injection, IsInjective
<1>2. IsFiniteSet(Clusters) /\ Cardinality(Clusters) = LastCluster - 1
  BY FS_Interval, VolumeAssumption DEF Clusters
<1>3. Cardinality(1..Len(s)) <= Cardinality(Clusters)
  BY <1>1, <1>2, FS_Injection
<1>4. \A m \in Nat : Cardinality(1..m) = m
  BY FS_Interval
<1> QED BY <1>1, <1>2, <1>3, <1>4, VolumeAssumption

\* Each cluster of a chain is followed by another or by the mark: none is free.
LEMMA ChainInUse ==
  ASSUME NEW fat, NEW head, NEW s, Chained(fat, head, s)
  PROVE  \A c \in ClustersIn(s) : c \in Clusters /\ fat[c] # 0
<1> SUFFICES ASSUME NEW i \in DOMAIN s PROVE s[i] \in Clusters /\ fat[s[i]] # 0
  BY DEF ClustersIn
<1>1. i \in 1..Len(s) /\ s[i] \in Clusters /\ (i # Len(s) => fat[s[i]] = s[i + 1])
  BY ChainParts
<1>2. i # Len(s) => s[i + 1] \in Clusters
  BY <1>1, ChainParts
<1>3. i = Len(s) => fat[s[i]] = EOC
  BY <1>1, ChainParts
<1> QED BY <1>1, <1>2, <1>3, VolumeAssumption DEF Clusters, EOC

\* A reader who follows the links from the head finds the chain, which is therefore
\* the only one.
LEMMA ChainFound ==
  ASSUME NEW fat, NEW head, NEW s, Chained(fat, head, s)
  PROVE  ChainFrom(fat, head) = s
<1> DEFINE Next1(f) ==
             [i \in 0..LastCluster |-> IF i = 0 THEN head ELSE FollowedBy(fat, f[i - 1])]
           F == [i \in 0..LastCluster |-> IF i < Len(s) THEN s[i + 1]
                                          ELSE IF i = 0 THEN 0 ELSE EOC]
           at == CHOOSE f : f = Next1(f)
<1>1. EOC \notin Clusters /\ 0 \notin Clusters /\ LastCluster \in Nat /\ LastCluster > 0
  BY VolumeAssumption DEF Clusters, EOC
<1>2. Len(s) \in Nat /\ Len(s) < LastCluster
  BY ChainParts, ChainShort
<1>3. /\ \A i \in 0..LastCluster : F[i] = IF i < Len(s) THEN s[i + 1]
                                       ELSE IF i = 0 THEN 0 ELSE EOC
      /\ F = [i \in 0..LastCluster |-> F[i]]
  OBVIOUS
<1> HIDE DEF F
<1>4. F[0] = head
  BY <1>1, <1>2, <1>3, ChainParts
<1>5. \A i \in 1..LastCluster : F[i] = FollowedBy(fat, F[i - 1])
  <2> SUFFICES ASSUME NEW i \in 1..LastCluster PROVE F[i] = FollowedBy(fat, F[i - 1])
    OBVIOUS
  <2>0. i \in 0..LastCluster /\ i - 1 \in 0..LastCluster
    BY <1>1
  <2>1. CASE i < Len(s)
    <3>1. F[i] = s[i + 1] /\ F[i - 1] = s[i]
      BY <1>2, <1>3, <2>0, <2>1
    <3>2. s[i] \in Clusters /\ fat[s[i]] = s[i + 1]
      BY <1>2, <2>1, ChainParts
    <3> QED BY <3>1, <3>2 DEF FollowedBy
  <2>2. CASE i = Len(s)
    <3>1. F[i] = EOC /\ F[i - 1] = s[i]
      BY <1>2, <1>3, <2>0, <2>2
    <3>2. s[i] \in Clusters /\ fat[s[i]] = EOC
      BY <1>2, <2>2, ChainParts
    <3> QED BY <3>1, <3>2 DEF FollowedBy
  <2>3. CASE i > Len(s)
    <3>1. F[i] = EOC /\ F[i - 1] \in {0, EOC}
      BY <1>2, <1>3, <2>0, <2>3
    <3> QED BY <1>1, <3>1 DEF FollowedBy
  <2> QED BY <1>2, <2>1, <2>2, <2>3
<1>6. at = Next1(at)
  <2>1. F = Next1(F)
    <3>1. \A i \in 0..LastCluster :
            F[i] = IF i = 0 THEN head ELSE FollowedBy(fat, F[i - 1])
      BY <1>4, <1>5
    <3> QED BY <1>3, <3>1
  <2> HIDE DEF Next1
  <2> QED BY <2>1
<1>7. at = F
  <2> HIDE DEF at
  <2> DEFINE T == {i \in 0..LastCluster : at[i] = F[i]}
  <2>1. 0 \in T
    BY <1>1, <1>4, <1>6
  <2>2. \A i \in 1..LastCluster : i - 1 \in T => i \in T
    BY <1>1, <1>5, <1>6
  <2>3. \A i \in 0..LastCluster : i \in T
    <3> HIDE DEF T
    <3> QED BY <1>1, <2>1, <2>2, Steps
  <2>4. F = [i \in 0..LastCluster |-> F[i]] /\ at = [i \in 0..LastCluster |-> at[i]]
    BY <1>3, <1>6
  <2> QED BY <2>3, <2>4
<1> DEFINE Ends(k) == /\ \A i \in 0..k - 1 : at[i] \in Clusters
                      /\ k = LastCluster \/ at[k] \notin Clusters
           len == CHOOSE k \in 0..LastCluster : Ends(k)
<1> HIDE DEF at
<1>8. \A i \in 0..LastCluster : at[i] \in Clusters <=> i < Len(s)
  BY <1>1, <1>2, <1>3, <1>7, ChainParts
<1>9. len = Len(s)
  <2>1. Ends(Len(s)) /\ Len(s) \in 0..LastCluster
    BY <1>1, <1>2, <1>8
  <2>2. ASSUME NEW k \in 0..LastCluster, Ends(k) PROVE k = Len(s)
    <3>1. ~(k < Len(s))
      BY <1>2, <1>8, <2>2
    <3>2. ~(Len(s) < k)
      <4>1. Len(s) < k => Len(s) \in 0..k - 1 /\ Len(s) \in 0..LastCluster
        BY <1>1, <1>2
      <4> QED BY <1>8, <2>2, <4>1
    <3> QED BY <1>2, <3>1, <3>2
  <2> HIDE DEF Ends
  <2> QED BY <2>1, <2>2
<1>10. ChainFrom(fat, head) = [i \in 1..len |-> at[i - 1]]
  BY DEF ChainFrom, at
<1>11. [i \in 1..Len(s) |-> at[i - 1]] = s
  <2>1. \A i \in 1..Len(s) : at[i - 1] = s[i]
    <3> SUFFICES ASSUME NEW i \in 1..Len(s) PROVE at[i - 1] = s[i]
      OBVIOUS
    <3>1. i - 1 \in 0..LastCluster /\ i - 1 < Len(s) /\ (i - 1) + 1 = i
      BY <1>1, <1>2
    <3> QED BY <1>3, <1>7, <3>1
  <2>2. s = [i \in 1..Len(s) |-> s[i]]
    BY ChainParts
  <2> QED BY <2>1, <2>2
<1> HIDE DEF len
<1> QED BY <1>9, <1>10, <1>11

LEMMA OneChain ==
  ASSUME NEW fat, NEW head, NEW s, NEW t, Chained(fat, head, s), Chained(fat, head, t)
  PROVE  s = t
BY ChainFound

-----------------------------------------------------------------------------
(* What becomes of a chain.                                                 *)

\* Nothing, as long as its own links stay.
LEMMA ChainStays ==
  ASSUME NEW fat, NEW fat2, NEW head, NEW s, Chained(fat, head, s),
         \A c \in ClustersIn(s) : fat2[c] = fat[c]
  PROVE  Chained(fat2, head, s)
<1>1. \A i \in 1..Len(s) : fat2[s[i]] = fat[s[i]]
  BY ChainParts DEF ClustersIn
<1>2. \A i \in 1..Len(s) - 1 : fat2[s[i]] = s[i + 1]
  BY <1>1, ChainParts
<1>3. s # <<>> => fat2[s[Len(s)]] = EOC
  <2>1. s # <<>> => Len(s) \in 1..Len(s)
    BY ChainParts
  <2> QED BY <1>1, <2>1, ChainParts
<1> QED BY <1>2, <1>3 DEF Chained

\* No cluster is a chain of its own, and so is one that is marked.
LEMMA ChainOfNone == ASSUME NEW fat PROVE Chained(fat, 0, <<>>) /\ ClustersIn(<<>>) = {}
BY DEF Chained, ClustersIn

LEMMA ChainOfOne ==
  ASSUME NEW fat, NEW c \in Clusters, fat[c] = EOC
  PROVE  Chained(fat, c, <<c>>) /\ ClustersIn(<<c>>) = {c}
<1>1. <<c>> \in Seq(Clusters) /\ Len(<<c>>) = 1 /\ <<c>>[1] = c /\ DOMAIN <<c>> = {1}
  OBVIOUS
<1> QED BY <1>1 DEF Chained, ClustersIn

\* Its end is linked to a marked cluster it does not have (create_chain).
LEMMA ChainGrows ==
  ASSUME NEW fat, NEW fat2, NEW head, NEW s, Chained(fat, head, s), s # <<>>,
         NEW c \in Clusters, c \notin ClustersIn(s), fat2[c] = EOC,
         fat2[s[Len(s)]] = c, \A d \in ClustersIn(s) \ {s[Len(s)]} : fat2[d] = fat[d]
  PROVE  /\ Chained(fat2, head, Append(s, c))
         /\ ClustersIn(Append(s, c)) = ClustersIn(s) \cup {c}
         /\ Len(Append(s, c)) = Len(s) + 1 /\ Append(s, c)[Len(s) + 1] = c
         /\ \A i \in 1..Len(s) : Append(s, c)[i] = s[i]
<1> DEFINE t == Append(s, c)
           m == Len(s)
<1>1. /\ s \in Seq(Clusters) /\ m \in Nat /\ m > 0 /\ DOMAIN s = 1..m
      /\ head = s[1]
  BY ChainParts
<1>2. /\ t \in Seq(Clusters) /\ Len(t) = m + 1 /\ DOMAIN t = 1..m + 1
      /\ t[m + 1] = c /\ \A i \in 1..m : t[i] = s[i]
  BY <1>1
<1>3. \A i \in 1..m : s[i] # c
  BY <1>1 DEF ClustersIn
<1> HIDE DEF t
<1>4. \A i, j \in 1..m + 1 : t[i] = t[j] => i = j
  BY <1>1, <1>2, <1>3, ChainParts
<1>5. ASSUME NEW i \in 1..m PROVE fat2[t[i]] = t[i + 1]
  <2>1. CASE i = m
    BY <1>2, <1>5, <2>1
  <2>2. CASE i # m
    <3>1. i \in 1..m - 1 /\ i + 1 \in 1..m /\ m \in 1..m
      <4> HIDE DEF m
      <4> QED BY <1>1, <1>5, <2>2
    <3>2. s[i] \in ClustersIn(s) /\ s[i] # s[m]
      BY <1>1, <2>2, <3>1, ChainParts DEF ClustersIn
    <3>3. fat[s[i]] = s[i + 1]
      BY <3>1, ChainParts
    <3> QED BY <1>2, <3>1, <3>2, <3>3
  <2> QED BY <2>1, <2>2
<1>6. ClustersIn(t) = ClustersIn(s) \cup {c}
  BY <1>1, <1>2 DEF ClustersIn
<1>7. Chained(fat2, head, t)
  BY <1>1, <1>2, <1>4, <1>5 DEF Chained
<1> QED BY <1>2, <1>6, <1>7 DEF t

\* Its head is freed, and the rest is a chain (remove_chain).
LEMMA ChainShrinks ==
  ASSUME NEW fat, NEW fat2, NEW head, NEW s, Chained(fat, head, s), s # <<>>,
         \A d \in ClustersIn(s) \ {head} : fat2[d] = fat[d]
  PROVE  /\ head \in ClustersIn(s) /\ head \in Clusters
         /\ fat[head] \notin Clusters => fat[head] = EOC /\ ClustersIn(s) = {head}
         /\ fat[head] \in Clusters =>
              /\ Chained(fat2, fat[head], Tail(s)) /\ Tail(s) # <<>>
              /\ ClustersIn(Tail(s)) = ClustersIn(s) \ {head}
<1> DEFINE t == Tail(s)
           m == Len(s)
<1>1. /\ s \in Seq(Clusters) /\ m \in Nat /\ m > 0 /\ DOMAIN s = 1..m
      /\ head = s[1] /\ head \in Clusters
      /\ \A i, j \in 1..m : s[i] = s[j] => i = j
  BY ChainParts
<1>2. head \in ClustersIn(s)
  BY <1>1 DEF ClustersIn
<1>3. CASE m = 1
  <2>1. fat[head] = EOC /\ ClustersIn(s) = {head}
    BY <1>1, <1>3, ChainParts DEF ClustersIn
  <2> QED BY <1>1, <1>2, <2>1, VolumeAssumption DEF EOC, Clusters
<1>4. CASE m > 1
  <2>1. fat[head] = s[2] /\ s[2] \in Clusters
    BY <1>1, <1>4, ChainParts
  <2>2. /\ t \in Seq(Clusters) /\ Len(t) = m - 1 /\ DOMAIN t = 1..m - 1
        /\ \A i \in 1..m - 1 : t[i] = s[i + 1]
    BY <1>1, <1>4
  <2> HIDE DEF t
  <2>3. \A i, j \in 1..m - 1 : t[i] = t[j] => i = j
    BY <1>1, <2>2
  <2>4. ClustersIn(t) = ClustersIn(s) \ {head}
    <3>1. \A i \in 1..m - 1 : t[i] \in ClustersIn(s) /\ t[i] # head
      BY <1>1, <2>2 DEF ClustersIn
    <3>2. \A i \in 1..m : s[i] # head => i - 1 \in 1..m - 1 /\ s[i] = t[i - 1]
      BY <1>1, <2>2
    <3>3. ClustersIn(t) \subseteq ClustersIn(s) \ {head}
      BY <2>2, <3>1 DEF ClustersIn
    <3>4. ASSUME NEW c \in ClustersIn(s) \ {head} PROVE c \in ClustersIn(t)
      <4>1. PICK i \in 1..m : s[i] = c
        BY <1>1, <3>4 DEF ClustersIn
      <4>2. i - 1 \in DOMAIN t /\ c = t[i - 1]
        BY <2>2, <3>2, <3>4, <4>1
      <4> QED BY <4>2 DEF ClustersIn
    <3> QED BY <3>3, <3>4
  <2>5. \A i \in 1..m - 1 : fat2[t[i]] = fat[t[i]]
    BY <2>2, <2>4 DEF ClustersIn
  <2>6. \A i \in 1..m - 2 : fat2[t[i]] = t[i + 1]
    <3> SUFFICES ASSUME NEW i \in 1..m - 2 PROVE fat2[t[i]] = t[i + 1]
      OBVIOUS
    <3>1. i \in 1..m - 1 /\ i + 1 \in 1..m - 1
      BY <1>1
    <3>2. fat[s[i + 1]] = s[i + 1 + 1]
      BY <3>1, ChainParts
    <3> QED BY <2>2, <2>5, <3>1, <3>2
  <2>7. fat2[t[m - 1]] = EOC
    <3>1. m - 1 \in 1..m - 1 /\ t[m - 1] = s[m] /\ fat[s[m]] = EOC
      BY <1>1, <1>4, <2>2, ChainParts
    <3> QED BY <2>5, <3>1
  <2>8. t # <<>> /\ t[1] = s[2] /\ (Len(t) - 1) = m - 2
    BY <1>1, <1>4, <2>2
  <2>9. Chained(fat2, fat[head], t)
    BY <2>1, <2>2, <2>3, <2>6, <2>7, <2>8 DEF Chained
  <2> QED BY <1>1, <1>2, <2>1, <2>4, <2>8, <2>9 DEF t
<1> QED BY <1>1, <1>3, <1>4
=============================================================================
