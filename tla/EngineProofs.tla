---------------------------- MODULE EngineProofs ----------------------------
(***************************************************************************)
(* Proofs about the placement engine, for every set of clients, contents,  *)
(* anchors, layouts, window geometries and sizes, and every bound: first   *)
(* what the operations of its upload cache preserve, for every set of      *)
(* contents and every cache size.                                          *)
(***************************************************************************)
EXTENDS Engine, FiniteSetTheorems, SequenceTheorems, TLAPS

-----------------------------------------------------------------------------
(* Types of the upload cache.                                               *)

LEMMA StoreHitType ==
    ASSUME NEW Ids, NEW c, CacheType(c, Ids), NEW d \in DOMAIN c.byHash,
           NEW j \in 1..Len(c.lru)
    PROVE  CacheType(StoreHit(c, d, j), Ids)
<1>1. c.lru \in Seq(Ids) /\ Len(c.lru) \in Nat
  BY DEF CacheType
<1>2. MoveToFront(c.lru, j) \in Seq(Ids)
  <2>1. \A i \in 1..Len(c.lru) : MoveToFront(c.lru, j)[i] \in Ids
    BY <1>1 DEF MoveToFront
  <2> QED
    BY <1>1, <2>1, IsASeq DEF MoveToFront
<1> QED
  BY <1>2 DEF CacheType, StoreHit, Entry

LEMMA StoreMissType ==
    ASSUME NEW Ids, NEW c, CacheType(c, Ids), NEW d \in Data, NEW img \in Ids,
           NEW n \in 0..Len(c.lru)
    PROVE  CacheType(StoreMiss(c, d, img, n), Ids)
<1>1. c.lru \in Seq(Ids) /\ Len(c.lru) - n \in 0..Len(c.lru)
  BY DEF CacheType
<1>2. SubSeq(c.lru, 1, Len(c.lru) - n) \in Seq(Ids)
  BY <1>1
<1>3. <<img>> \o SubSeq(c.lru, 1, Len(c.lru) - n) \in Seq(Ids)
  BY <1>2
<1> QED
  BY <1>3 DEF CacheType, StoreMiss, KeptHashes, Entry

LEMMA ReleaseAllType ==
    ASSUME NEW Ids, NEW c, CacheType(c, Ids), NEW handles, NEW ks, IsFiniteSet(ks)
    PROVE  CacheType(ReleaseAll(c, handles, ks), Ids)
<1>1. ASSUME NEW i PROVE Uses(handles, ks, i) \in Nat
  BY FS_Subset, FS_CardinalityType DEF Uses
<1> QED
  BY <1>1 DEF CacheType, ReleaseAll, Entry

-----------------------------------------------------------------------------
(* Coherence of the hash index, the id index and the LRU list.              *)

LEMMA StoreHitCoherent ==
    ASSUME NEW Ids, NEW c, CacheType(c, Ids), Coherent(c), NEW d \in DOMAIN c.byHash,
           NEW j \in 1..Len(c.lru)
    PROVE  Coherent(StoreHit(c, d, j))
<1> DEFINE s == c.lru
           t == MoveToFront(c.lru, j)
           c2 == StoreHit(c, d, j)
<1>1. s \in Seq(Ids) /\ Len(s) \in Nat /\ j \in 1..Len(s)
  BY DEF CacheType
<1>2. t \in Seq(Ids) /\ Len(t) = Len(s)
  <2>1. \A i \in 1..Len(s) : t[i] \in Ids
    BY <1>1 DEF MoveToFront
  <2> QED
    BY <1>1, <2>1, IsASeq DEF MoveToFront
<1>3. \A i \in 1..Len(s) : t[i] = IF i = 1 THEN s[j] ELSE IF i <= j THEN s[i - 1] ELSE s[i]
  BY DEF MoveToFront
<1>4. \A i \in 1..Len(s) : \E k \in 1..Len(s) : t[i] = s[k]
  BY <1>1, <1>3
<1>5. \A k \in 1..Len(s) : \E i \in 1..Len(s) : t[i] = s[k]
  <2> TAKE k \in 1..Len(s)
  <2>1. CASE k = j
    BY <1>1, <1>3, <2>1
  <2>2. CASE k < j
    <3>1. k + 1 \in 1..Len(s) /\ t[k + 1] = s[k]
      BY <1>1, <1>3, <2>2
    <3> QED
      BY <3>1
  <2>3. CASE k > j
    BY <1>1, <1>3, <2>3
  <2> QED
    BY <1>1, <2>1, <2>2, <2>3
<1>6. \A a, b \in 1..Len(s) : s[a] = s[b] => a = b
  BY DEF Coherent
<1>7. \A a, b \in 1..Len(s) : t[a] = t[b] => a = b
  <2> SUFFICES ASSUME NEW a \in 1..Len(s), NEW b \in 1..Len(s), t[a] = t[b] PROVE a = b
    OBVIOUS
  <2> DEFINE from(i) == IF i = 1 THEN j ELSE IF i <= j THEN i - 1 ELSE i
  <2>1. from(a) \in 1..Len(s) /\ from(b) \in 1..Len(s)
    BY <1>1
  <2>2. t[a] = s[from(a)] /\ t[b] = s[from(b)]
    BY <1>1, <1>3
  <2>3. from(a) = from(b)
    BY <1>6, <2>1, <2>2
  <2> QED
    BY <1>1, <2>3
<1>8. /\ c2.byHash = c.byHash
      /\ DOMAIN c2.byID = DOMAIN c.byID
      /\ \A i \in DOMAIN c.byID : c2.byID[i].data = c.byID[i].data
      /\ c2.lru = t
  BY DEF StoreHit, Entry
<1>9. \A i \in 1..Len(s) : s[i] \in DOMAIN c.byID
  BY DEF Coherent
<1>10. \A i \in DOMAIN c.byID : \E k \in 1..Len(s) : s[k] = i
  BY DEF Coherent
<1> HIDE DEF t, s
<1>11. \A i \in 1..Len(t) : t[i] \in DOMAIN c.byID
  BY <1>2, <1>4, <1>9
<1>12. \A i \in DOMAIN c.byID : \E k \in 1..Len(t) : t[k] = i
  BY <1>2, <1>5, <1>10
<1>13. \A a, b \in 1..Len(t) : t[a] = t[b] => a = b
  BY <1>2, <1>7
<1>14. /\ \A e \in DOMAIN c.byHash : c.byHash[e] \in DOMAIN c.byID /\ c.byID[c.byHash[e]].data = e
       /\ \A i \in DOMAIN c.byID : c.byID[i].data \in DOMAIN c.byHash /\ c.byHash[c.byID[i].data] = i
  BY DEF Coherent
<1> HIDE DEF c2
<1>15. /\ \A e \in DOMAIN c2.byHash : c2.byHash[e] \in DOMAIN c2.byID /\ c2.byID[c2.byHash[e]].data = e
       /\ \A i \in DOMAIN c2.byID : c2.byID[i].data \in DOMAIN c2.byHash /\ c2.byHash[c2.byID[i].data] = i
  BY <1>8, <1>14
<1>16. /\ \A i \in 1..Len(c2.lru) : c2.lru[i] \in DOMAIN c2.byID
       /\ \A i \in DOMAIN c2.byID : \E k \in 1..Len(c2.lru) : c2.lru[k] = i
       /\ \A a, b \in 1..Len(c2.lru) : c2.lru[a] = c2.lru[b] => a = b
  BY <1>8, <1>11, <1>12, <1>13
<1>17. Coherent(c2)
  BY <1>15, <1>16 DEF Coherent
<1> QED
  BY <1>17 DEF c2

LEMMA StoreMissCoherent ==
    ASSUME NEW Ids, NEW c, CacheType(c, Ids), Coherent(c), NEW d, d \notin DOMAIN c.byHash,
           NEW img, img \notin DOMAIN c.byID, NEW n \in 0..Len(c.lru)
    PROVE  Coherent(StoreMiss(c, d, img, n))
<1> DEFINE s == c.lru
           m == Len(c.lru) - n
           t == <<img>> \o SubSeq(c.lru, 1, m)
           gone == Victims(c, n)
           c2 == StoreMiss(c, d, img, n)
<1>1. s \in Seq(Ids) /\ Len(s) \in Nat /\ m \in 0..Len(s)
  BY DEF CacheType
<1>2. Len(t) = m + 1 /\ t[1] = img /\ \A i \in 1..m : t[i + 1] = s[i]
  BY <1>1
<1>3. \A i \in 1..Len(s) : s[i] \in DOMAIN c.byID
  BY DEF Coherent
<1>4. \A a, b \in 1..Len(s) : s[a] = s[b] => a = b
  BY DEF Coherent
<1>5. \A i \in 1..Len(s) : s[i] \in gone <=> i > m
  <2> TAKE i \in 1..Len(s)
  <2>1. CASE i > m
    <3> DEFINE k == Len(s) + 1 - i
    <3>1. k \in 1..n /\ Len(s) + 1 - k = i
      BY <1>1, <2>1
    <3>2. FromBack(c, k) = s[i]
      <4> HIDE DEF k
      <4> QED
        BY <3>1 DEF FromBack
    <3> HIDE DEF k
    <3> QED
      BY <2>1, <3>1, <3>2 DEF Victims
  <2>2. CASE i <= m
    <3>1. ASSUME NEW k \in 1..n, s[i] = FromBack(c, k) PROVE FALSE
      <4>1. Len(s) + 1 - k \in 1..Len(s) /\ Len(s) + 1 - k > m
        BY <1>1
      <4>2. s[i] = s[Len(s) + 1 - k]
        BY <3>1 DEF FromBack
      <4>3. i = Len(s) + 1 - k
        BY <1>4, <4>1, <4>2
      <4> QED
        BY <1>1, <2>2, <4>1, <4>3
    <3> QED
      BY <1>1, <2>2, <3>1 DEF Victims
  <2> QED
    BY <1>1, <2>1, <2>2
<1>6. img \notin gone
  <2>1. ASSUME NEW k \in 1..n PROVE FromBack(c, k) \in DOMAIN c.byID
    <3>1. Len(s) + 1 - k \in 1..Len(s)
      BY <1>1
    <3> QED
      BY <1>3, <3>1 DEF FromBack
  <2> QED
    BY <2>1 DEF Victims
<1>7. DOMAIN c2.byID = (DOMAIN c.byID \ gone) \cup {img}
  BY DEF StoreMiss
<1>8. /\ c2.lru = t
      /\ c2.byID[img].data = d
      /\ \A i \in DOMAIN c.byID \ gone : c2.byID[i].data = c.byID[i].data
      /\ DOMAIN c2.byHash = {e \in DOMAIN c.byHash : c.byHash[e] \notin gone} \cup {d}
      /\ c2.byHash[d] = img
      /\ \A e \in DOMAIN c.byHash : c.byHash[e] \notin gone => c2.byHash[e] = c.byHash[e]
  BY DEF StoreMiss, KeptHashes, Entry
<1> HIDE DEF gone, c2, t, s, m
<1>9. \A e \in DOMAIN c2.byHash : c2.byHash[e] \in DOMAIN c2.byID /\ c2.byID[c2.byHash[e]].data = e
  <2> TAKE e \in DOMAIN c2.byHash
  <2>1. CASE e = d
    BY <1>7, <1>8, <2>1
  <2>2. CASE e # d
    <3>1. e \in DOMAIN c.byHash /\ c.byHash[e] \notin gone
      BY <1>8, <2>2
    <3>2. c.byHash[e] \in DOMAIN c.byID \ gone /\ c.byID[c.byHash[e]].data = e
      BY <3>1 DEF Coherent
    <3> QED
      BY <1>7, <1>8, <3>1, <3>2
  <2> QED
    BY <2>1, <2>2
<1>10. \A i \in DOMAIN c2.byID : c2.byID[i].data \in DOMAIN c2.byHash /\ c2.byHash[c2.byID[i].data] = i
  <2> TAKE i \in DOMAIN c2.byID
  <2>1. CASE i = img
    BY <1>7, <1>8, <2>1
  <2>2. CASE i # img
    <3>1. i \in DOMAIN c.byID \ gone
      BY <1>7, <2>2
    <3>2. c.byID[i].data \in DOMAIN c.byHash /\ c.byHash[c.byID[i].data] = i
      BY <3>1 DEF Coherent
    <3> QED
      BY <1>8, <3>1, <3>2
  <2> QED
    BY <2>1, <2>2
<1>11. \A i \in 1..Len(t) : i = 1 \/ \E k \in 1..m : i = k + 1 /\ t[i] = s[k]
  <2> TAKE i \in 1..Len(t)
  <2>1. CASE i = 1
    BY <1>2, <2>1
  <2>2. CASE i # 1
    <3>1. i - 1 \in 1..m /\ i = (i - 1) + 1
      BY <1>1, <1>2, <2>2
    <3> QED
      BY <1>2, <3>1
  <2> QED
    BY <2>1, <2>2
<1>12. \A i \in 1..Len(c2.lru) : c2.lru[i] \in DOMAIN c2.byID
  <2> SUFFICES ASSUME NEW i \in 1..Len(t) PROVE t[i] \in (DOMAIN c.byID \ gone) \cup {img}
    BY <1>7, <1>8
  <2>1. CASE i = 1
    BY <1>2, <2>1
  <2>2. CASE i # 1
    <3>1. PICK k \in 1..m : t[i] = s[k]
      BY <1>11, <2>2
    <3>2. k \in 1..Len(s) /\ ~(k > m)
      BY <1>1
    <3>3. s[k] \in DOMAIN c.byID /\ s[k] \notin gone
      BY <1>3, <1>5, <3>2
    <3> QED
      BY <3>1, <3>3
  <2> QED
    BY <2>1, <2>2
<1>13. \A i \in DOMAIN c2.byID : \E j \in 1..Len(c2.lru) : c2.lru[j] = i
  <2> TAKE i \in DOMAIN c2.byID
  <2>1. CASE i = img
    BY <1>1, <1>2, <1>8, <2>1
  <2>2. CASE i \in DOMAIN c.byID \ gone
    <3>1. PICK k \in 1..Len(s) : s[k] = i
      BY <2>2 DEF Coherent, s
    <3>2. k \in 1..m
      BY <1>1, <1>5, <2>2, <3>1
    <3>3. k + 1 \in 1..Len(t) /\ t[k + 1] = i
      BY <1>1, <1>2, <3>1, <3>2
    <3> QED
      BY <1>8, <3>3
  <2> QED
    BY <1>7, <2>1, <2>2
<1>14. \A a, b \in 1..Len(c2.lru) : c2.lru[a] = c2.lru[b] => a = b
  <2> SUFFICES ASSUME NEW a \in 1..Len(t), NEW b \in 1..Len(t), t[a] = t[b] PROVE a = b
    BY <1>8
  <2>1. \A i \in 1..Len(t) : t[i] = img => i = 1
    BY <1>1, <1>3, <1>11
  <2>2. CASE t[a] = img
    BY <2>1, <2>2
  <2>3. CASE t[a] # img
    <3>1. PICK k \in 1..m : a = k + 1 /\ t[a] = s[k]
      BY <1>2, <1>11, <2>3
    <3>2. PICK l \in 1..m : b = l + 1 /\ t[b] = s[l]
      BY <1>2, <1>11, <2>3
    <3>3. k \in 1..Len(s) /\ l \in 1..Len(s)
      BY <1>1
    <3> QED
      BY <1>4, <3>1, <3>2, <3>3
  <2> QED
    BY <2>2, <2>3
<1> QED
  BY <1>9, <1>10, <1>12, <1>13, <1>14 DEF Coherent, c2

LEMMA ReleaseAllCoherent ==
    ASSUME NEW c, Coherent(c), NEW handles, NEW ks
    PROVE  Coherent(ReleaseAll(c, handles, ks))
BY DEF Coherent, ReleaseAll, Entry

-----------------------------------------------------------------------------
(* Type correctness of the engine.                                          *)

\* Placement.ScreenPos returns two integers and a Boolean for every anchor.
LEMMA ResolveType ==
    ASSUME NEW a \in Anchor, NEW pn, NEW wn, NEW sz \in Size,
           PanesType(pn), WinsType(wn)
    PROVE  Resolve(a, pn, wn, sz) \in Position
<1>1. CASE a.type = "absolute"
  BY <1>1 DEF Resolve, AbsolutePos, Anchor, Size, Position, At
<1>2. CASE a.type = "pane"
  <2>1. CASE ActivePane(pn, a.at)
    <3>1. pn[a.at] \in Pane
      BY <2>1 DEF ActivePane, PanesType
    <3>2. \A r, c : InPane(pn[a.at], r, c) \in BOOLEAN
      BY DEF InPane
    <3> QED
      BY <1>2, <2>1, <3>1, <3>2 DEF Resolve, PanePos, Anchor, Position, At, Pane
  <2>2. CASE ~ActivePane(pn, a.at)
    BY <1>2, <2>2 DEF Resolve, PanePos, Position, Hidden
  <2> QED
    BY <2>1, <2>2
<1>3. CASE a.type = "nvim_win"
  <2>1. ASSUME a.at \in DOMAIN wn PROVE wn[a.at] \in Win
    BY <2>1 DEF WinsType
  <2>2. ASSUME NEW p \in DOMAIN pn PROVE pn[p] \in Pane
    BY <2>2 DEF PanesType
  <2> QED
    BY <1>3, <2>1, <2>2 DEF Resolve, WinPos, ActivePane, InPane, Anchor, Position, At, Hidden, Win, Pane
<1>4. CASE a.type = "other"
  BY <1>4 DEF Resolve, Position, Hidden
<1> QED
  BY <1>1, <1>2, <1>3, <1>4 DEF Anchor, AnchorTypes

\* What Place puts on the terminal is well formed.
LEMMA DrawType ==
    ASSUME NEW scr \in SUBSET Shown, NEW pl, PlacementsType(pl),
           NEW ps \in SUBSET DOMAIN pl
    PROVE  Draw(scr, pl, ps) \in SUBSET Shown
BY DEF Draw, PlacementsType, Placement, Shown

\* recomputePlacements keeps the types, whatever the topology it is given.
LEMMA RecomputeType ==
    ASSUME TypeOK, NEW pn, NEW wn, NEW sz \in Size, PanesType(pn), WinsType(wn),
           Recompute(pn, wn, sz)
    PROVE  /\ PlacementsType(placements')
           /\ (screen \subseteq Shown)'
           /\ DOMAIN told' = DOMAIN placements'
           /\ \A p \in DOMAIN told' : told'[p] \in {"none", "shown", "hidden"}
<1> DEFINE pos == [p \in DOMAIN placements |-> Resolve(placements[p].anchor, pn, wn, sz)]
<1>1. ASSUME NEW p \in DOMAIN placements
      PROVE  pos[p] \in Position
  <2>1. placements[p].anchor \in Anchor
    BY DEF TypeOK, PlacementsType, Placement
  <2> QED
    BY <2>1, ResolveType
<1> HIDE DEF pos
<1>2. placements' = [p \in DOMAIN placements |->
                       [placements[p] EXCEPT !.row = pos[p].row, !.col = pos[p].col,
                                             !.visible = pos[p].visible,
                                             !.rendered = pos[p].visible]]
  BY DEF Recompute, pos
<1>3. PlacementsType(placements')
  <2>1. DOMAIN placements \subseteq PlacementIds /\ \A p \in DOMAIN placements : placements[p] \in Placement
    BY DEF TypeOK, PlacementsType
  <2>2. ASSUME NEW q \in Placement, NEW o \in Position
        PROVE  [q EXCEPT !.row = o.row, !.col = o.col, !.visible = o.visible, !.rendered = o.visible]
                   \in Placement
    <3>1. o.row \in Int /\ o.col \in Int /\ o.visible \in BOOLEAN
      BY DEF Position
    <3> QED
      BY <3>1 DEF Placement
  <2>3. \A p \in DOMAIN placements : placements'[p] \in Placement
    BY <1>1, <1>2, <2>1, <2>2
  <2> QED
    BY <1>2, <2>1, <2>3 DEF PlacementsType
<1>4. \E er, dr : /\ dr \subseteq DOMAIN placements
                  /\ screen' = Draw(Erase(screen, er), placements', dr)
  <2> DEFINE moved == {p \in DOMAIN placements : Moved(p, pos[p])}
             er == {p \in DOMAIN placements : ~pos[p].visible \/ p \in moved}
             dr == {p \in DOMAIN placements :
                     pos[p].visible /\ (~placements[p].rendered \/ p \in moved)}
  <2>1. screen' = Draw(Erase(screen, er), placements', dr)
    BY DEF Recompute, pos
  <2> QED
    BY <2>1
<1>5. (screen \subseteq Shown)'
  <2>1. PICK er, dr : /\ dr \subseteq DOMAIN placements
                      /\ screen' = Draw(Erase(screen, er), placements', dr)
    BY <1>4
  <2>2. Erase(screen, er) \in SUBSET Shown
    BY DEF Erase, TypeOK
  <2>3. DOMAIN placements' = DOMAIN placements
    BY <1>2
  <2> QED
    BY <1>3, <2>1, <2>2, <2>3, DrawType
<1>6. /\ DOMAIN told' = DOMAIN placements'
      /\ \A p \in DOMAIN told' : told'[p] \in {"none", "shown", "hidden"}
  BY <1>2 DEF Recompute, Notice, TypeOK
<1> QED
  BY <1>3, <1>5, <1>6

\* Placements leave the map, or one enters it: Unplace, UnplaceAll, disconnect.
LEMMA RemoveType ==
    ASSUME TypeOK, NEW ps, RemovePlacements(ps)
    PROVE  /\ PlacementsType(placements')
           /\ (screen \subseteq Shown)'
           /\ DOMAIN told' = DOMAIN placements'
           /\ \A p \in DOMAIN told' : told'[p] \in {"none", "shown", "hidden"}
           /\ nextPlacement' \in 0..MaxPlacements
BY DEF TypeOK, RemovePlacements, Without, PlacementsType, Erase

\* Every step of Next, that is every handler, the size events of Run and its
\* return, keeps the types.
LEMMA TypeStep ==
    ASSUME TypeOK, [Next]_vars PROVE TypeOK'
<1> USE InputsAssumption, BoundsAssumption
<1>1. ASSUME NEW k \in DOMAIN images, NEW a \in Anchors, Place(k[1], k[2], a)
      PROVE  TypeOK'
  <2>1. Resolve(a, panes, wins, termSize) \in Position
    BY ResolveType DEF TypeOK
  <2>2. /\ <<k[1], k[2]>> \in DOMAIN images /\ k[1] \in Clients /\ k[2] \in Handles
        /\ images[<<k[1], k[2]>>] \in ImageIds
    BY <1>1 DEF Place, NextPlacementId, TypeOK
  <2>3. nextPlacement + 1 \in PlacementIds
    BY <1>1 DEF Place, NextPlacementId, TypeOK, PlacementIds
  <2>4. PlacementsType(placements')
    BY <1>1, <2>1, <2>2, <2>3 DEF Place, NextPlacementId, TypeOK, PlacementsType, Placement, Position
  <2>5. (screen \subseteq Shown)'
    <3>1. \E ps : ps \subseteq DOMAIN placements' /\ screen' = Draw(screen, placements', ps)
      BY <1>1 DEF Place, NextPlacementId
    <3> QED
      BY <2>4, <3>1, DrawType DEF TypeOK
  <2>6. /\ DOMAIN told' = DOMAIN placements'
        /\ \A p \in DOMAIN told' : told'[p] \in {"none", "shown", "hidden"}
    BY <1>1 DEF Place, NextPlacementId, TypeOK
  <2>7. nextPlacement' \in 0..MaxPlacements
    BY <1>1, <2>3 DEF Place, NextPlacementId, PlacementIds
  <2>8. UNCHANGED <<running, owned, topology, termImages>>
    BY <1>1 DEF Place, NextPlacementId
  <2> QED
    BY <2>4, <2>5, <2>6, <2>7, <2>8 DEF TypeOK, owned, topology
<1>2. ASSUME NEW c \in Clients, NEW p \in DOMAIN placements, Unplace(c, p)
      PROVE  TypeOK'
  BY <1>2, RemoveType DEF Unplace, TypeOK, owned, topology
<1>3. ASSUME NEW c \in Clients, UnplaceAll(c)
      PROVE  TypeOK'
  BY <1>3, RemoveType DEF UnplaceAll, TypeOK, owned, topology
<1>4. ASSUME NEW c \in Clients, NEW d \in Data, NEW h \in Handles,
             NEW j \in 1..Len(cache.lru), UploadHit(c, d, h, j)
      PROVE  TypeOK'
  <2>1. CacheType(cache', ImageIds)
    BY <1>4, StoreHitType DEF UploadHit, TypeOK, Cached
  <2>2. Lookup(cache, d) \in ImageIds
    BY <1>4 DEF UploadHit, TypeOK, CacheType, Cached, Lookup
  <2>3. IsFiniteSet(DOMAIN images')
    BY <1>4, FS_AddElement DEF UploadHit, TypeOK
  <2> QED
    BY <1>4, <2>1, <2>2, <2>3 DEF UploadHit, TypeOK, topology
<1>5. ASSUME NEW c \in Clients, NEW d \in Data, NEW h \in Handles,
             NEW n \in 0..Len(cache.lru), UploadMiss(c, d, h, n)
      PROVE  TypeOK'
  <2>1. nextImage \in ImageIds
    BY <1>5 DEF UploadMiss, TypeOK, ImageIds
  <2>2. CacheType(cache', ImageIds)
    BY <1>5, <2>1, StoreMissType DEF UploadMiss, TypeOK
  <2> DEFINE kept == {k \in DOMAIN images : images[k] \notin Victims(cache, n)}
  <2>3. IsFiniteSet(kept \cup {<<c, h>>})
    BY FS_Subset, FS_AddElement DEF TypeOK
  <2>4. /\ DOMAIN images' = kept \cup {<<c, h>>}
        /\ \A k \in DOMAIN images' : images'[k] \in ImageIds
    BY <1>5, <2>1 DEF UploadMiss, TypeOK
  <2>5. nextImage' \in 1..(MaxImages + 1)
    BY <1>5 DEF UploadMiss, TypeOK
  <2>6. DOMAIN images' \subseteq Clients \X Handles
    BY <2>4 DEF TypeOK
  <2>7. screen' \subseteq Shown /\ termImages' \subseteq ImageIds
    BY <1>5, <2>1 DEF UploadMiss, TypeOK, FreeOnScreen, FreeData
  <2> HIDE DEF kept
  <2> QED
    BY <1>5, <2>2, <2>3, <2>4, <2>5, <2>6, <2>7 DEF UploadMiss, TypeOK, topology
<1>6. ASSUME NEW k \in DOMAIN images, Free(k[1], k[2])
      PROVE  TypeOK'
  <2>1. CacheType(cache', ImageIds)
    BY <1>6, FS_Singleton, ReleaseAllType DEF Free, TypeOK
  <2>2. IsFiniteSet(DOMAIN images')
    BY <1>6, FS_RemoveElement DEF Free, TypeOK, Without
  <2> QED
    BY <1>6, <2>1, <2>2 DEF Free, TypeOK, topology, Without
<1>7. ASSUME NEW c \in Clients, ClientDisconnect(c)
      PROVE  TypeOK'
  <2>1. IsFiniteSet(HeldBy(c)) /\ IsFiniteSet(DOMAIN images')
    BY <1>7, FS_Subset DEF ClientDisconnect, HeldBy, TypeOK, Without
  <2>2. CacheType(cache', ImageIds)
    BY <1>7, <2>1, ReleaseAllType DEF ClientDisconnect, TypeOK
  <2>3. WinsType(wins')
    BY <1>7 DEF ClientDisconnect, TypeOK, WinsType, Without
  <2> QED
    BY <1>7, <2>1, <2>2, <2>3, RemoveType DEF ClientDisconnect, TypeOK, Without
<1>8. ASSUME NEW c \in Clients, NEW w \in WinIds, NEW shape \in Shapes, RegisterWin(c, w, shape)
      PROVE  TypeOK'
  <2>1. WinsType(wins')
    BY <1>8 DEF RegisterWin, TypeOK, WinsType, Win, Shape
  <2>2. Recompute(panes, wins', termSize)
    BY <1>8 DEF RegisterWin
  <2> QED
    BY <1>8, <2>1, <2>2, RecomputeType DEF RegisterWin, TypeOK, owned
<1>9. ASSUME NEW w \in WinIds, NEW top \in Scrolls, ScrollUpdate(w, top)
      PROVE  TypeOK'
  <2>1. WinsType(wins')
    BY <1>9 DEF ScrollUpdate, TypeOK, WinsType, Win
  <2>2. Recompute(panes, wins', termSize)
    BY <1>9 DEF ScrollUpdate
  <2> QED
    BY <1>9, <2>1, <2>2, RecomputeType DEF ScrollUpdate, TypeOK, owned
<1>10. ASSUME NEW w \in WinIds, UnregisterWin(w)
       PROVE  TypeOK'
  <2>1. WinsType(wins')
    BY <1>10 DEF UnregisterWin, TypeOK, WinsType, Without
  <2>2. Recompute(panes, wins', termSize)
    BY <1>10 DEF UnregisterWin
  <2> QED
    BY <1>10, <2>1, <2>2, RecomputeType DEF UnregisterWin, TypeOK, owned
<1>11. ASSUME NEW layout \in Layouts, UpdatePanes(layout)
       PROVE  TypeOK'
  <2>1. PanesType(panes')
    BY <1>11 DEF UpdatePanes, PanesType
  <2>2. Recompute(panes', wins, termSize)
    BY <1>11 DEF UpdatePanes
  <2> QED
    BY <1>11, <2>1, <2>2, RecomputeType DEF UpdatePanes, TypeOK, owned
<1>12. ASSUME NEW sz \in Sizes, Resize(sz)
       PROVE  TypeOK'
  <2>1. termSize' \in Size
    BY <1>12 DEF Resize
  <2>2. Recompute(panes, wins, termSize')
    BY <1>12 DEF Resize
  <2> QED
    BY <1>12, <2>1, <2>2, RecomputeType DEF Resize, TypeOK, owned
<1>13. CASE Stop
  BY <1>13 DEF Stop, TypeOK, owned, topology, FreeOnScreen, FreeData, Erase
<1>14. CASE UNCHANGED vars
  BY <1>14 DEF vars, TypeOK, PlacementsType, PanesType, WinsType, CacheType
<1> QED
  BY <1>1, <1>2, <1>3, <1>4, <1>5, <1>6, <1>7, <1>8, <1>9, <1>10, <1>11, <1>12, <1>13, <1>14
     DEF Next

\* The type invariant holds in every reachable state.
THEOREM TypeCorrect == Spec => []TypeOK
<1>1. Init => TypeOK
  BY FS_EmptySet, BoundsAssumption
     DEF Init, FirstImage, TypeOK, PlacementsType, PanesType, WinsType, CacheType, EmptyCache, Size
<1>2. TypeOK /\ [Next]_vars => TypeOK'
  BY TypeStep
<1> QED
  BY <1>1, <1>2, PTL DEF Spec

-----------------------------------------------------------------------------
(* Reference counts and evictions.  RefsCountHandles and HandlesBacked are  *)
(* inductive together once the indexes of the cache agree and the ids yet   *)
(* to be allocated are not in use.                                          *)

NextImageUnused == \A i \in DOMAIN cache.byID : i < nextImage
HandlesCached == \A k \in DOMAIN images : images[k] \in DOMAIN cache.byID

CacheInv ==
    /\ TypeOK
    /\ CacheCoherent
    /\ NextImageUnused
    /\ HandlesCached
    /\ RefsCountHandles
    /\ TerminalHoldsTheCache

\* The handles on an image are finitely many, and at least one if one is held.
LEMMA HandlesOfFinite ==
    ASSUME TypeOK, NEW i
    PROVE  /\ IsFiniteSet(HandlesOf(i))
           /\ Cardinality(HandlesOf(i)) \in Nat
           /\ \A k \in DOMAIN images : images[k] = i => Cardinality(HandlesOf(i)) > 0
<1>1. IsFiniteSet(HandlesOf(i))
  BY FS_Subset DEF HandlesOf, TypeOK
<1>2. Cardinality(HandlesOf(i)) \in Nat
  BY <1>1, FS_CardinalityType
<1>3. ASSUME NEW k \in DOMAIN images, images[k] = i
      PROVE  Cardinality(HandlesOf(i)) > 0
  <2>1. HandlesOf(i) # {}
    BY <1>3 DEF HandlesOf
  <2> QED
    BY <1>1, <1>2, <2>1, FS_EmptySet
<1> QED
  BY <1>1, <1>2, <1>3

\* No image a client holds is ever a victim of the eviction loop of Store.
LEMMA VictimsUnheld ==
    ASSUME CacheInv, NEW n \in 0..Len(cache.lru), EvictsExactly(cache, n)
    PROVE  \A k \in DOMAIN images : images[k] \notin Victims(cache, n)
<1> SUFFICES ASSUME NEW k \in DOMAIN images, images[k] \in Victims(cache, n) PROVE FALSE
  OBVIOUS
<1>1. PICK i \in 1..n : images[k] = FromBack(cache, i)
  BY DEF Victims
<1>2. cache.byID[images[k]].refs <= 0
  BY <1>1 DEF EvictsExactly, Idle
<1>3. cache.byID[images[k]].refs = Cardinality(HandlesOf(images[k]))
  BY DEF CacheInv, HandlesCached, RefsCountHandles
<1> QED
  BY <1>2, <1>3, HandlesOfFinite DEF CacheInv

\* Victims are cached images: the LRU list holds nothing else.
LEMMA VictimsCached ==
    ASSUME CacheInv, NEW n \in 0..Len(cache.lru)
    PROVE  Victims(cache, n) \subseteq DOMAIN cache.byID
<1>1. cache.lru \in Seq(ImageIds) /\ Len(cache.lru) \in Nat
  BY DEF CacheInv, TypeOK, CacheType
<1>2. ASSUME NEW i \in 1..n PROVE FromBack(cache, i) \in DOMAIN cache.byID
  <2>1. Len(cache.lru) + 1 - i \in 1..Len(cache.lru)
    BY <1>1
  <2> QED
    BY <2>1 DEF CacheInv, CacheCoherent, Coherent, FromBack
<1> QED
  BY <1>2 DEF Victims

\* Dropping the handles ks with one Release each drops one reference per handle.
LEMMA ReleaseCounts ==
    ASSUME CacheInv, NEW ks, ks \subseteq DOMAIN images,
           images' = Without(images, ks), cache' = ReleaseAll(cache, images, ks)
    PROVE  /\ DOMAIN cache'.byID = DOMAIN cache.byID
           /\ CacheCoherent' /\ HandlesCached' /\ RefsCountHandles'
<1>1. /\ DOMAIN cache'.byID = DOMAIN cache.byID
      /\ \A i \in DOMAIN cache.byID :
            cache'.byID[i].refs = cache.byID[i].refs - Uses(images, ks, i)
  BY DEF ReleaseAll, Entry
<1>2. HandlesCached'
  BY <1>1 DEF CacheInv, HandlesCached, Without
<1>3. ASSUME NEW i \in DOMAIN cache.byID
      PROVE  cache'.byID[i].refs = Cardinality(HandlesOf(i)')
  <2> DEFINE T == {k \in ks : images[k] = i}
  <2>1. HandlesOf(i)' = HandlesOf(i) \ T
    BY DEF HandlesOf, Without
  <2>2. HandlesOf(i) \cap T = T
    BY DEF HandlesOf
  <2>3. Cardinality(HandlesOf(i) \ T) = Cardinality(HandlesOf(i)) - Cardinality(T)
    BY <2>2, HandlesOfFinite, FS_Difference DEF CacheInv
  <2>4. Uses(images, ks, i) = Cardinality(T)
    BY DEF Uses
  <2>5. cache.byID[i].refs = Cardinality(HandlesOf(i))
    BY DEF CacheInv, RefsCountHandles
  <2> QED
    BY <1>1, <2>1, <2>3, <2>4, <2>5
<1>4. CacheCoherent'
  BY ReleaseAllCoherent DEF CacheInv, CacheCoherent
<1> QED
  BY <1>1, <1>2, <1>3, <1>4 DEF RefsCountHandles

\* assignHandle adds one to the handles on an image and to those of no other.
LEMMA HandleAdded ==
    ASSUME TypeOK, NEW k0, k0 \notin DOMAIN images, NEW img,
           images' = [k \in DOMAIN images \cup {k0} |-> IF k = k0 THEN img ELSE images[k]]
    PROVE  /\ Cardinality(HandlesOf(img)') = Cardinality(HandlesOf(img)) + 1
           /\ \A i : i # img => HandlesOf(i)' = HandlesOf(i)
<1>1. HandlesOf(img)' = HandlesOf(img) \cup {k0}
  BY DEF HandlesOf
<1>2. k0 \notin HandlesOf(img)
  BY DEF HandlesOf
<1>3. \A i : i # img => HandlesOf(i)' = HandlesOf(i)
  BY DEF HandlesOf
<1>4. Cardinality(HandlesOf(img) \cup {k0}) = Cardinality(HandlesOf(img)) + 1
  BY <1>2, HandlesOfFinite, FS_AddElement
<1> QED
  BY <1>1, <1>3, <1>4

\* A cache hit pairs the new handle with one more reference.
LEMMA UploadHitCounts ==
    ASSUME CacheInv, NEW c \in Clients, NEW d \in Data, NEW h \in Handles,
           NEW j \in 1..Len(cache.lru), UploadHit(c, d, h, j)
    PROVE  /\ CacheCoherent' /\ NextImageUnused' /\ HandlesCached'
           /\ RefsCountHandles' /\ TerminalHoldsTheCache'
<1>1. PICK img \in DOMAIN cache.byID : img = cache.byHash[d]
  BY DEF UploadHit, Cached, CacheInv, CacheCoherent, Coherent
<1>2. /\ DOMAIN cache'.byID = DOMAIN cache.byID
      /\ cache'.byID[img].refs = cache.byID[img].refs + 1
      /\ \A i \in DOMAIN cache.byID : i # img => cache'.byID[i] = cache.byID[i]
  BY <1>1 DEF UploadHit, StoreHit, Entry
<1>3. /\ <<c, h>> \notin DOMAIN images
      /\ images' = [k \in DOMAIN images \cup {<<c, h>>} |->
                       IF k = <<c, h>> THEN img ELSE images[k]]
  BY <1>1 DEF UploadHit, FirstFree, Lookup
<1>4. /\ Cardinality(HandlesOf(img)') = Cardinality(HandlesOf(img)) + 1
      /\ \A i : i # img => HandlesOf(i)' = HandlesOf(i)
  BY <1>3, HandleAdded DEF CacheInv
<1>5. HandlesCached'
  BY <1>2, <1>3 DEF CacheInv, HandlesCached
<1>6. RefsCountHandles'
  <2> SUFFICES ASSUME NEW i \in DOMAIN cache.byID
               PROVE  cache'.byID[i].refs = Cardinality(HandlesOf(i)')
    BY <1>2 DEF RefsCountHandles
  <2> QED
    BY <1>2, <1>4 DEF CacheInv, RefsCountHandles
<1>7. CacheCoherent'
  BY StoreHitCoherent DEF UploadHit, Cached, CacheInv, CacheCoherent, TypeOK
<1> QED
  BY <1>2, <1>5, <1>6, <1>7 DEF UploadHit, CacheInv, NextImageUnused, TerminalHoldsTheCache

\* A cache miss evicts no held image, so notifyEviction finds no handle to drop,
\* and the new image starts with the one reference of the new handle.
LEMMA UploadMissCounts ==
    ASSUME CacheInv, NEW c \in Clients, NEW d \in Data, NEW h \in Handles,
           NEW n \in 0..Len(cache.lru), UploadMiss(c, d, h, n)
    PROVE  /\ CacheCoherent' /\ NextImageUnused' /\ HandlesCached'
           /\ RefsCountHandles' /\ TerminalHoldsTheCache'
<1>1. PICK gone : gone = Victims(cache, n)
  OBVIOUS
<1>2. PICK img \in Nat : img = nextImage
  BY DEF CacheInv, TypeOK
<1>3. /\ \A k \in DOMAIN images : images[k] \notin gone
      /\ gone \subseteq DOMAIN cache.byID
  BY <1>1, VictimsUnheld, VictimsCached DEF UploadMiss
<1>4. {k \in DOMAIN images : images[k] \notin gone} = DOMAIN images
  BY <1>3
<1>5. /\ <<c, h>> \notin DOMAIN images
      /\ images' = [k \in DOMAIN images \cup {<<c, h>>} |->
                       IF k = <<c, h>> THEN img ELSE images[k]]
  BY <1>1, <1>2, <1>4 DEF UploadMiss, FirstFree
<1>6. /\ Cardinality(HandlesOf(img)') = Cardinality(HandlesOf(img)) + 1
      /\ \A i : i # img => HandlesOf(i)' = HandlesOf(i)
  BY <1>5, HandleAdded DEF CacheInv
<1>7. img \notin DOMAIN cache.byID
  BY <1>2 DEF CacheInv, NextImageUnused
<1>8. Cardinality(HandlesOf(img)') = 1
  <2>1. HandlesOf(img) = {}
    BY <1>7 DEF HandlesOf, CacheInv, HandlesCached
  <2> QED
    BY <1>6, <2>1, FS_EmptySet
<1>9. /\ DOMAIN cache'.byID = (DOMAIN cache.byID \ gone) \cup {img}
      /\ cache'.byID[img].refs = 1
      /\ \A i \in DOMAIN cache.byID \ gone : cache'.byID[i] = cache.byID[i]
  BY <1>1, <1>2, <1>7 DEF UploadMiss, StoreMiss, Entry
<1>10. HandlesCached'
  BY <1>3, <1>5, <1>9 DEF CacheInv, HandlesCached
<1>11. RefsCountHandles'
  <2> SUFFICES ASSUME NEW i \in DOMAIN cache'.byID
               PROVE  cache'.byID[i].refs = Cardinality(HandlesOf(i)')
    BY DEF RefsCountHandles
  <2>1. CASE i = img
    BY <1>8, <1>9, <2>1
  <2>2. CASE i # img
    BY <1>6, <1>9, <2>2 DEF CacheInv, RefsCountHandles
  <2> QED
    BY <2>1, <2>2
<1>12. CacheCoherent'
  BY <1>2, <1>7, StoreMissCoherent DEF UploadMiss, Cached, CacheInv, CacheCoherent, TypeOK
<1>13. NextImageUnused'
  BY <1>2, <1>9 DEF UploadMiss, CacheInv, NextImageUnused, TypeOK, CacheType, ImageIds
<1>14. TerminalHoldsTheCache'
  <2>1. termImages' = (termImages \cup {img}) \ gone
    BY <1>1, <1>2 DEF UploadMiss, FreeData
  <2> QED
    BY <1>3, <1>7, <1>9, <2>1 DEF UploadMiss, CacheInv, TerminalHoldsTheCache
<1> QED
  BY <1>10, <1>11, <1>12, <1>13, <1>14

\* The initial state, and each step, one action at a time: only uploads, frees
\* and disconnects touch handles, cache or terminal memory.
LEMMA CacheInvInit == Init => CacheInv
<1> SUFFICES ASSUME Init PROVE CacheInv
  OBVIOUS
<1>1. TypeOK
  BY FS_EmptySet, BoundsAssumption
     DEF Init, FirstImage, TypeOK, PlacementsType, PanesType, WinsType, CacheType, EmptyCache, Size
<1> QED
  BY <1>1 DEF Init, CacheInv, CacheCoherent, Coherent, EmptyCache, NextImageUnused,
              HandlesCached, RefsCountHandles, TerminalHoldsTheCache

LEMMA CacheInvStep ==
    ASSUME CacheInv, [Next]_vars PROVE CacheInv'
<1>1. TypeOK'
  BY TypeStep DEF CacheInv
<1>2. ASSUME UNCHANGED owned, UNCHANGED termImages, UNCHANGED running
      PROVE  CacheInv'
  BY <1>1, <1>2 DEF owned, CacheInv, CacheCoherent, NextImageUnused, HandlesCached,
                    RefsCountHandles, TerminalHoldsTheCache, HandlesOf
<1>3. ASSUME NEW k \in DOMAIN images, NEW a \in Anchors, Place(k[1], k[2], a)
      PROVE  CacheInv'
  BY <1>2, <1>3 DEF Place, NextPlacementId
<1>4. ASSUME NEW c \in Clients, NEW p \in DOMAIN placements, Unplace(c, p)
      PROVE  CacheInv'
  BY <1>2, <1>4 DEF Unplace
<1>5. ASSUME NEW c \in Clients, UnplaceAll(c)
      PROVE  CacheInv'
  BY <1>2, <1>5 DEF UnplaceAll
<1>6. ASSUME NEW c \in Clients, NEW d \in Data, NEW h \in Handles,
             NEW j \in 1..Len(cache.lru), UploadHit(c, d, h, j)
      PROVE  CacheInv'
  BY <1>1, <1>6, UploadHitCounts DEF CacheInv
<1>7. ASSUME NEW c \in Clients, NEW d \in Data, NEW h \in Handles,
             NEW n \in 0..Len(cache.lru), UploadMiss(c, d, h, n)
      PROVE  CacheInv'
  BY <1>1, <1>7, UploadMissCounts DEF CacheInv
<1>8. ASSUME NEW k \in DOMAIN images, Free(k[1], k[2])
      PROVE  CacheInv'
  <2>1. /\ DOMAIN cache'.byID = DOMAIN cache.byID
        /\ CacheCoherent' /\ HandlesCached' /\ RefsCountHandles'
    BY <1>8, ReleaseCounts DEF Free
  <2> QED
    BY <1>1, <1>8, <2>1 DEF Free, CacheInv, NextImageUnused, TerminalHoldsTheCache
<1>9. ASSUME NEW c \in Clients, ClientDisconnect(c)
      PROVE  CacheInv'
  <2>1. HeldBy(c) \subseteq DOMAIN images
    BY DEF HeldBy
  <2>2. /\ DOMAIN cache'.byID = DOMAIN cache.byID
        /\ CacheCoherent' /\ HandlesCached' /\ RefsCountHandles'
    BY <1>9, <2>1, ReleaseCounts DEF ClientDisconnect
  <2> QED
    BY <1>1, <1>9, <2>2 DEF ClientDisconnect, CacheInv, NextImageUnused, TerminalHoldsTheCache
<1>10. ASSUME NEW c \in Clients, NEW w \in WinIds, NEW shape \in Shapes, RegisterWin(c, w, shape)
       PROVE  CacheInv'
  BY <1>2, <1>10 DEF RegisterWin
<1>11. ASSUME NEW w \in WinIds, NEW top \in Scrolls, ScrollUpdate(w, top)
       PROVE  CacheInv'
  BY <1>2, <1>11 DEF ScrollUpdate
<1>12. ASSUME NEW w \in WinIds, UnregisterWin(w)
       PROVE  CacheInv'
  BY <1>2, <1>12 DEF UnregisterWin
<1>13. ASSUME NEW layout \in Layouts, UpdatePanes(layout)
       PROVE  CacheInv'
  BY <1>2, <1>13 DEF UpdatePanes
<1>14. ASSUME NEW sz \in Sizes, Resize(sz)
       PROVE  CacheInv'
  BY <1>2, <1>14 DEF Resize
<1>15. CASE Stop
  BY <1>1, <1>15 DEF Stop, owned, CacheInv, CacheCoherent, NextImageUnused, HandlesCached,
                     RefsCountHandles, TerminalHoldsTheCache, HandlesOf
<1>16. CASE UNCHANGED vars
  BY <1>2, <1>16 DEF vars, owned
<1> QED
  BY <1>3, <1>4, <1>5, <1>6, <1>7, <1>8, <1>9, <1>10, <1>11, <1>12, <1>13, <1>14, <1>15, <1>16
     DEF Next

\* The inductive invariant of the cache, the handle maps and terminal memory.
THEOREM CacheInvariant == Spec => []CacheInv
<1>1. Init => CacheInv
  BY CacheInvInit
<1>2. CacheInv /\ [Next]_vars => CacheInv'
  BY CacheInvStep
<1> QED
  BY <1>1, <1>2, PTL DEF Spec

\* The indexes of the upload cache agree in every reachable state (Store, Release).
THEOREM CacheAlwaysCoherent == Spec => []CacheCoherent
<1>1. CacheInv => CacheCoherent
  BY DEF CacheInv
<1> QED
  BY <1>1, CacheInvariant, PTL

\* Every cached image's refCount is the number of handles on it, over all clients.
THEOREM ReferencesAreHandles == Spec => []RefsCountHandles
<1>1. CacheInv => RefsCountHandles
  BY DEF CacheInv
<1> QED
  BY <1>1, CacheInvariant, PTL

\* The cache's indexes and counts agree with one another and with the handles.
THEOREM CountsAlwaysAgree == Spec => []CountsAgree
<1>1. CacheInv => CountsAgree
  BY DEF CacheInv, CountsAgree
<1> QED
  BY <1>1, CacheInvariant, PTL

\* The terminal stores exactly the cached images until the engine stops.
THEOREM TerminalMemory == Spec => []TerminalHoldsTheCache
<1>1. CacheInv => TerminalHoldsTheCache
  BY DEF CacheInv
<1> QED
  BY <1>1, CacheInvariant, PTL

\* No eviction ever takes an image a client holds a handle on.
THEOREM HandlesStayGood == Spec => []HandlesBacked
<1>1. CacheInv => HandlesBacked
  BY DEF CacheInv, HandlesBacked, HandlesCached, TerminalHoldsTheCache
<1> QED
  BY <1>1, CacheInvariant, PTL

-----------------------------------------------------------------------------
(* The screen shows nothing the engine does not know of.  NoGhosts is       *)
(* inductive once a new placement's id is known to be new.                  *)

PlacementIdsUsed == \A p \in DOMAIN placements : p <= nextPlacement

ScreenInv == TypeOK /\ PlacementIdsUsed /\ NoGhosts /\ StopClearsTheScreen

\* Delete removes every display of a rendered placement, Place adds displays at
\* the recorded positions only.
LEMMA DrawShows ==
    ASSUME NEW scr, NEW pl, NEW ps, NEW s \in Draw(scr, pl, ps)
    PROVE  \/ s \in scr
           \/ s.pid \in ps /\ s = [img |-> pl[s.pid].img, pid |-> s.pid,
                                   row |-> pl[s.pid].row, col |-> pl[s.pid].col]
BY DEF Draw

\* recomputePlacements leaves no display behind at an old position.
LEMMA RecomputeNoGhosts ==
    ASSUME ScreenInv, NEW pn, NEW wn, NEW sz \in Size, PanesType(pn), WinsType(wn),
           Recompute(pn, wn, sz)
    PROVE  NoGhosts' /\ DOMAIN placements' = DOMAIN placements
<1> DEFINE pos == [p \in DOMAIN placements |-> Resolve(placements[p].anchor, pn, wn, sz)]
           moved == {p \in DOMAIN placements : Moved(p, pos[p])}
           erase == {p \in DOMAIN placements : ~pos[p].visible \/ p \in moved}
           draw == {p \in DOMAIN placements :
                       pos[p].visible /\ (~placements[p].rendered \/ p \in moved)}
<1>1. /\ placements' = [p \in DOMAIN placements |->
                         [placements[p] EXCEPT !.row = pos[p].row, !.col = pos[p].col,
                                               !.visible = pos[p].visible,
                                               !.rendered = pos[p].visible]]
      /\ screen' = Draw(Erase(screen, erase), placements', draw)
  BY DEF Recompute
<1>2. ASSUME NEW p \in DOMAIN placements
      PROVE  /\ placements'[p].row = pos[p].row /\ placements'[p].col = pos[p].col
             /\ placements'[p].rendered = pos[p].visible
             /\ placements'[p].img = placements[p].img
             /\ pos[p].visible \in BOOLEAN
  <2>1. placements[p] \in Placement
    BY DEF ScreenInv, TypeOK, PlacementsType
  <2>2. pos[p] \in Position
    BY <2>1, ResolveType DEF Placement
  <2> HIDE DEF pos
  <2> QED
    BY <1>1, <2>1, <2>2 DEF Placement, Position
<1>3. ASSUME NEW s \in screen'
      PROVE  /\ s.pid \in DOMAIN placements
             /\ placements'[s.pid].rendered
             /\ s.img = placements'[s.pid].img
             /\ s.row = placements'[s.pid].row /\ s.col = placements'[s.pid].col
  <2>1. CASE s \in Erase(screen, erase)
    <3>1. /\ s.pid \in DOMAIN placements
          /\ placements[s.pid].rendered
          /\ s.img = placements[s.pid].img
          /\ s.row = placements[s.pid].row /\ s.col = placements[s.pid].col
      BY <2>1 DEF Erase, ScreenInv, NoGhosts
    <3>2. s.pid \notin erase
      BY <2>1, <3>1 DEF Erase
    <3>3. /\ pos[s.pid].visible
          /\ pos[s.pid].row = placements[s.pid].row
          /\ pos[s.pid].col = placements[s.pid].col
      BY <3>1, <3>2 DEF Moved
    <3> QED
      BY <1>2, <3>1, <3>3
  <2>2. CASE s.pid \in draw /\ s = [img |-> placements'[s.pid].img, pid |-> s.pid,
                                    row |-> placements'[s.pid].row,
                                    col |-> placements'[s.pid].col]
    <3> HIDE DEF pos
    <3>1. s.pid \in DOMAIN placements /\ pos[s.pid].visible
      BY <2>2
    <3> QED
      BY <1>2, <2>2, <3>1
  <2>3. screen' = Draw(Erase(screen, erase), placements', draw)
    BY <1>1
  <2> HIDE DEF pos, moved, erase, draw
  <2> QED
    BY <2>1, <2>2, <2>3, DrawShows
<1>4. DOMAIN placements' = DOMAIN placements
  BY <1>1
<1> QED
  BY <1>3, <1>4 DEF NoGhosts

\* Taking placements away takes their displays away: Unplace, UnplaceAll, disconnect.
LEMMA RemoveNoGhosts ==
    ASSUME ScreenInv, NEW ps, RemovePlacements(ps)
    PROVE  NoGhosts' /\ PlacementIdsUsed'
<1>1. ASSUME NEW s \in screen'
      PROVE  /\ s.pid \in DOMAIN placements'
             /\ placements'[s.pid] = placements[s.pid]
             /\ s \in screen
  BY DEF RemovePlacements, Erase, Without, ScreenInv, NoGhosts
<1>2. NoGhosts'
  BY <1>1 DEF NoGhosts, ScreenInv
<1> QED
  BY <1>2 DEF RemovePlacements, Without, PlacementIdsUsed, ScreenInv

LEMMA ScreenInvStep ==
    ASSUME ScreenInv, [Next]_vars PROVE ScreenInv'
<1> USE InputsAssumption, BoundsAssumption
<1>1. TypeOK'
  BY TypeStep DEF ScreenInv
<1>2. ASSUME running, running', NoGhosts', PlacementIdsUsed'
      PROVE  ScreenInv'
  BY <1>1, <1>2 DEF ScreenInv, StopClearsTheScreen
<1>3. ASSUME NEW k \in DOMAIN images, NEW a \in Anchors, Place(k[1], k[2], a)
      PROVE  ScreenInv'
  <2>1. PICK id : id = nextPlacement + 1
    OBVIOUS
  <2>2. PICK v : v = Resolve(a, panes, wins, termSize)
    OBVIOUS
  <2>3. /\ DOMAIN placements' = DOMAIN placements \cup {id}
        /\ \A p \in DOMAIN placements : p # id => placements'[p] = placements[p]
        /\ placements'[id].rendered = v.visible
        /\ screen' = Draw(screen, placements', {q \in {id} : v.visible})
        /\ nextPlacement' = id
    BY <1>3, <2>1, <2>2 DEF Place, NextPlacementId
  <2>4. id \notin DOMAIN placements /\ \A p \in DOMAIN placements : p <= id
    BY <2>1 DEF ScreenInv, PlacementIdsUsed, TypeOK, PlacementsType, PlacementIds
  <2>5. PlacementIdsUsed'
    BY <2>1, <2>3, <2>4 DEF PlacementIdsUsed, ScreenInv, TypeOK
  <2>6. ASSUME NEW s \in screen'
        PROVE  /\ s.pid \in DOMAIN placements'
               /\ placements'[s.pid].rendered
               /\ s.img = placements'[s.pid].img
               /\ s.row = placements'[s.pid].row /\ s.col = placements'[s.pid].col
    <3>1. CASE s \in screen
      BY <2>3, <2>4, <3>1 DEF ScreenInv, NoGhosts
    <3>2. CASE s.pid \in {q \in {id} : v.visible} /\
               s = [img |-> placements'[s.pid].img, pid |-> s.pid,
                    row |-> placements'[s.pid].row, col |-> placements'[s.pid].col]
      BY <2>3, <3>2
    <3> QED
      BY <2>3, <3>1, <3>2, DrawShows
  <2> QED
    BY <1>2, <1>3, <2>5, <2>6 DEF Place, NextPlacementId, NoGhosts
<1>4. ASSUME NEW c \in Clients, NEW p \in DOMAIN placements, Unplace(c, p)
      PROVE  ScreenInv'
  BY <1>2, <1>4, RemoveNoGhosts DEF Unplace
<1>5. ASSUME NEW c \in Clients, UnplaceAll(c)
      PROVE  ScreenInv'
  BY <1>2, <1>5, RemoveNoGhosts DEF UnplaceAll
<1>6. ASSUME UNCHANGED <<running, placements, nextPlacement>>, screen' \subseteq screen
      PROVE  ScreenInv'
  <2>1. NoGhosts' /\ PlacementIdsUsed'
    BY <1>6 DEF ScreenInv, NoGhosts, PlacementIdsUsed
  <2> QED
    BY <1>1, <1>6, <2>1 DEF ScreenInv, StopClearsTheScreen
<1>7. ASSUME NEW c \in Clients, NEW d \in Data, NEW h \in Handles,
             NEW j \in 1..Len(cache.lru), UploadHit(c, d, h, j)
      PROVE  ScreenInv'
  BY <1>6, <1>7 DEF UploadHit
<1>8. ASSUME NEW c \in Clients, NEW d \in Data, NEW h \in Handles,
             NEW n \in 0..Len(cache.lru), UploadMiss(c, d, h, n)
      PROVE  ScreenInv'
  BY <1>6, <1>8 DEF UploadMiss, FreeOnScreen
<1>9. ASSUME NEW k \in DOMAIN images, Free(k[1], k[2])
      PROVE  ScreenInv'
  BY <1>6, <1>9 DEF Free
<1>10. ASSUME NEW c \in Clients, ClientDisconnect(c)
       PROVE  ScreenInv'
  BY <1>2, <1>10, RemoveNoGhosts DEF ClientDisconnect
<1>11. ASSUME NEW pn, NEW wn, NEW sz \in Size, PanesType(pn), WinsType(wn),
              Recompute(pn, wn, sz), running, running', UNCHANGED nextPlacement
       PROVE  ScreenInv'
  <2>1. NoGhosts' /\ DOMAIN placements' = DOMAIN placements
    BY <1>11, RecomputeNoGhosts
  <2>2. PlacementIdsUsed'
    BY <1>11, <2>1 DEF PlacementIdsUsed, ScreenInv
  <2> QED
    BY <1>2, <1>11, <2>1, <2>2
<1>12. ASSUME NEW c \in Clients, NEW w \in WinIds, NEW shape \in Shapes, RegisterWin(c, w, shape)
       PROVE  ScreenInv'
  <2>1. PICK wn : wn = wins'
    OBVIOUS
  <2>2. WinsType(wn)
    BY <1>1, <2>1 DEF TypeOK
  <2> QED
    BY <1>11, <1>12, <2>1, <2>2 DEF RegisterWin, ScreenInv, TypeOK
<1>13. ASSUME NEW w \in WinIds, NEW top \in Scrolls, ScrollUpdate(w, top)
       PROVE  ScreenInv'
  <2>1. PICK wn : wn = wins'
    OBVIOUS
  <2>2. WinsType(wn)
    BY <1>1, <2>1 DEF TypeOK
  <2> QED
    BY <1>11, <1>13, <2>1, <2>2 DEF ScrollUpdate, ScreenInv, TypeOK
<1>14. ASSUME NEW w \in WinIds, UnregisterWin(w)
       PROVE  ScreenInv'
  <2>1. PICK wn : wn = wins'
    OBVIOUS
  <2>2. WinsType(wn)
    BY <1>1, <2>1 DEF TypeOK
  <2> QED
    BY <1>11, <1>14, <2>1, <2>2 DEF UnregisterWin, ScreenInv, TypeOK
<1>15. ASSUME NEW layout \in Layouts, UpdatePanes(layout)
       PROVE  ScreenInv'
  <2>1. PanesType(layout)
    BY DEF PanesType
  <2> QED
    BY <1>11, <1>15, <2>1 DEF UpdatePanes, ScreenInv, TypeOK
<1>16. ASSUME NEW sz \in Sizes, Resize(sz)
       PROVE  ScreenInv'
  BY <1>11, <1>16 DEF Resize, ScreenInv, TypeOK
<1>17. CASE Stop
  <2>1. Erase(screen, DOMAIN placements) = {}
    BY DEF Erase, ScreenInv, NoGhosts
  <2>2. screen' = {}
    BY <1>17, <2>1 DEF Stop, FreeOnScreen
  <2> QED
    BY <1>1, <1>17, <2>2 DEF Stop, ScreenInv, NoGhosts, PlacementIdsUsed, StopClearsTheScreen
<1>18. CASE UNCHANGED vars
  BY <1>6, <1>18 DEF vars
<1> QED
  BY <1>3, <1>4, <1>5, <1>7, <1>8, <1>9, <1>10, <1>12, <1>13, <1>14, <1>15, <1>16, <1>17, <1>18
     DEF Next

\* The inductive invariant of the screen.
THEOREM ScreenInvariant == Spec => []ScreenInv
<1>1. Init => ScreenInv
  <2> SUFFICES ASSUME Init PROVE ScreenInv
    OBVIOUS
  <2>1. TypeOK
    BY CacheInvInit DEF CacheInv
  <2> QED
    BY <2>1 DEF Init, ScreenInv, PlacementIdsUsed, NoGhosts, StopClearsTheScreen
<1>2. ScreenInv /\ [Next]_vars => ScreenInv'
  BY ScreenInvStep
<1> QED
  BY <1>1, <1>2, PTL DEF Spec

\* Whatever is displayed belongs to a live, rendered placement at its recorded
\* position, after any history of handlers.
THEOREM NothingIsLeftOnScreen == Spec => []NoGhosts
<1>1. ScreenInv => NoGhosts
  BY DEF ScreenInv
<1> QED
  BY <1>1, ScreenInvariant, PTL

\* cleanupRenderedPlacements leaves an empty screen.
THEOREM StopLeavesAnEmptyScreen == Spec => []StopClearsTheScreen
<1>1. ScreenInv => StopClearsTheScreen
  BY DEF ScreenInv
<1> QED
  BY <1>1, ScreenInvariant, PTL

-----------------------------------------------------------------------------
(* What the screen, the notices and the topology owe each other.  Seen from *)
(* the placements a step is of one of six kinds, whatever handler takes it. *)

\* Unplace, UnplaceAll, disconnect: placements of one client go, and perhaps windows.
Removing(ps) ==
    /\ RemovePlacements(ps)
    /\ \E c \in Clients : ps \subseteq PlacementsOf(c)
    /\ running /\ running'
    /\ DOMAIN wins' \subseteq DOMAIN wins /\ \A w \in DOMAIN wins' : wins'[w] = wins[w]
    /\ UNCHANGED <<nextImage, panes, termSize, termImages>>

\* A handler that changes panes, windows or size and recomputes under the new ones.
Recomputing(pn, wn, sz) ==
    /\ panes' = pn /\ wins' = wn /\ termSize' = sz
    /\ PanesType(pn) /\ WinsType(wn) /\ sz \in Size
    /\ Recompute(pn, wn, sz)
    /\ running /\ running'
    /\ UNCHANGED <<owned, nextPlacement, termImages>>

\* Cache hits, frees and stutters touch neither the terminal nor a placement.
Quiet ==
    UNCHANGED <<running, placements, nextImage, nextPlacement, topology, termImages, screen, told>>

LEMMA StepKinds ==
    ASSUME TypeOK, [Next]_vars
    PROVE  \/ \E k \in DOMAIN images, a \in Anchors : Place(k[1], k[2], a)
           \/ \E ps : Removing(ps)
           \/ \E pn, wn, sz : Recomputing(pn, wn, sz)
           \/ \E c \in Clients, d \in Data, h \in Handles, n \in 0..Len(cache.lru) :
                 UploadMiss(c, d, h, n)
           \/ Stop
           \/ Quiet
<1>1. TypeOK'
  BY TypeStep
<1>2. ASSUME NEW c \in Clients, NEW p \in DOMAIN placements, Unplace(c, p)
      PROVE  Removing({p})
  BY <1>2 DEF Unplace, Removing, PlacementsOf, owned, topology
<1>3. ASSUME NEW c \in Clients, UnplaceAll(c)
      PROVE  Removing(PlacementsOf(c))
  BY <1>3 DEF UnplaceAll, Removing, owned, topology
<1>4. ASSUME NEW c \in Clients, ClientDisconnect(c)
      PROVE  Removing(PlacementsOf(c))
  BY <1>4 DEF ClientDisconnect, Removing, Without
<1>5. ASSUME UNCHANGED <<running, owned, nextPlacement, termImages>>, running,
             \E pn, wn, sz : /\ panes' = pn /\ wins' = wn /\ termSize' = sz
                             /\ Recompute(pn, wn, sz)
      PROVE  \E pn, wn, sz : Recomputing(pn, wn, sz)
  BY <1>1, <1>5 DEF Recomputing, TypeOK
<1>6. ASSUME NEW c \in Clients, NEW w \in WinIds, NEW shape \in Shapes, RegisterWin(c, w, shape)
      PROVE  \E pn, wn, sz : Recomputing(pn, wn, sz)
  <2>1. PICK wn : wn = wins'
    OBVIOUS
  <2> QED
    BY <1>5, <1>6, <2>1 DEF RegisterWin
<1>7. ASSUME NEW w \in WinIds, NEW top \in Scrolls, ScrollUpdate(w, top)
      PROVE  \E pn, wn, sz : Recomputing(pn, wn, sz)
  <2>1. PICK wn : wn = wins'
    OBVIOUS
  <2> QED
    BY <1>5, <1>7, <2>1 DEF ScrollUpdate
<1>8. ASSUME NEW w \in WinIds, UnregisterWin(w)
      PROVE  \E pn, wn, sz : Recomputing(pn, wn, sz)
  <2>1. PICK wn : wn = wins'
    OBVIOUS
  <2> QED
    BY <1>5, <1>8, <2>1 DEF UnregisterWin
<1>9. ASSUME NEW layout \in Layouts, UpdatePanes(layout)
      PROVE  \E pn, wn, sz : Recomputing(pn, wn, sz)
  BY <1>5, <1>9 DEF UpdatePanes
<1>10. ASSUME NEW sz \in Sizes, Resize(sz)
       PROVE  \E pn, wn, s : Recomputing(pn, wn, s)
  BY <1>5, <1>10 DEF Resize
<1>11. ASSUME NEW c, NEW d, NEW h, NEW j, UploadHit(c, d, h, j)
       PROVE  Quiet
  BY <1>11 DEF UploadHit, Quiet
<1>12. ASSUME NEW k, Free(k[1], k[2])
       PROVE  Quiet
  BY <1>12 DEF Free, Quiet
<1>13. CASE UNCHANGED vars
  BY <1>13 DEF vars, Quiet, topology
<1> QED
  BY <1>2, <1>3, <1>4, <1>6, <1>7, <1>8, <1>9, <1>10, <1>11, <1>12, <1>13 DEF Next

\* What recomputePlacements makes of each placement.
LEMMA RecomputeEach ==
    ASSUME TypeOK, NEW pn, NEW wn, NEW sz \in Size, PanesType(pn), WinsType(wn),
           Recompute(pn, wn, sz)
    PROVE  /\ DOMAIN placements' = DOMAIN placements /\ DOMAIN told' = DOMAIN told
           /\ \A p \in DOMAIN placements : \E o \in Position :
                 /\ o = Resolve(placements[p].anchor, pn, wn, sz)
                 /\ placements'[p].row = o.row /\ placements'[p].col = o.col
                 /\ placements'[p].visible = o.visible /\ placements'[p].rendered = o.visible
                 /\ placements'[p].anchor = placements[p].anchor
                 /\ placements'[p].img = placements[p].img
                 /\ placements'[p].client = placements[p].client
                 /\ told'[p] = Notice(p, o)
<1> DEFINE pos == [p \in DOMAIN placements |-> Resolve(placements[p].anchor, pn, wn, sz)]
<1>1. /\ placements' = [p \in DOMAIN placements |->
                         [placements[p] EXCEPT !.row = pos[p].row, !.col = pos[p].col,
                                               !.visible = pos[p].visible,
                                               !.rendered = pos[p].visible]]
      /\ told' = [p \in DOMAIN told |-> Notice(p, pos[p])]
  BY DEF Recompute
<1>2. ASSUME NEW p \in DOMAIN placements
      PROVE  /\ placements[p] \in Placement
             /\ p \in DOMAIN told
             /\ pos[p] \in Position
             /\ pos[p] = Resolve(placements[p].anchor, pn, wn, sz)
  <2>1. placements[p] \in Placement /\ p \in DOMAIN told
    BY DEF TypeOK, PlacementsType
  <2> QED
    BY <2>1, ResolveType DEF Placement
<1> HIDE DEF pos
<1>3. ASSUME NEW p \in DOMAIN placements
      PROVE  /\ placements'[p].row = pos[p].row /\ placements'[p].col = pos[p].col
             /\ placements'[p].visible = pos[p].visible
             /\ placements'[p].rendered = pos[p].visible
             /\ placements'[p].anchor = placements[p].anchor
             /\ placements'[p].img = placements[p].img
             /\ placements'[p].client = placements[p].client
             /\ told'[p] = Notice(p, pos[p])
  <2>1. PICK r : r = placements'[p]
    OBVIOUS
  <2>2. r = [placements[p] EXCEPT !.row = pos[p].row, !.col = pos[p].col,
                                  !.visible = pos[p].visible, !.rendered = pos[p].visible]
    BY <1>1, <2>1
  <2>3. told'[p] = Notice(p, pos[p])
    BY <1>1, <1>2
  <2>4. placements[p] \in Placement /\ pos[p] \in Position
    BY <1>2
  <2>5. /\ r.row = pos[p].row /\ r.col = pos[p].col
        /\ r.visible = pos[p].visible /\ r.rendered = pos[p].visible
        /\ r.anchor = placements[p].anchor /\ r.img = placements[p].img
        /\ r.client = placements[p].client
    BY <2>2, <2>4 DEF Placement
  <2> QED
    BY <2>1, <2>3, <2>5
<1> QED
  BY <1>1, <1>2, <1>3

\* What Place makes of the new placement id, resolved to v, and of the others.
PlacedAs(k, a, id, v) ==
    /\ id = nextPlacement + 1 /\ nextPlacement' = id
    /\ v = Resolve(a, panes, wins, termSize)
    /\ DOMAIN placements' = DOMAIN placements \cup {id}
    /\ \A p \in DOMAIN placements : p # id => placements'[p] = placements[p]
    /\ placements'[id].row = v.row /\ placements'[id].col = v.col
    /\ placements'[id].visible = v.visible /\ placements'[id].rendered = v.visible
    /\ placements'[id].anchor = a
    /\ placements'[id].img = images[<<k[1], k[2]>>]
    /\ screen' = Draw(screen, placements', {q \in {id} : v.visible})
    /\ DOMAIN told' = DOMAIN told \cup {id}
    /\ \A p \in DOMAIN told : p # id => told'[p] = told[p]
    /\ told'[id] = "none"

LEMMA PlaceEach ==
    ASSUME TypeOK, NEW k \in DOMAIN images, NEW a \in Anchors, Place(k[1], k[2], a)
    PROVE  \E id \in Int, v \in Position : PlacedAs(k, a, id, v)
<1>1. PICK id \in Int : id = nextPlacement + 1
  BY DEF TypeOK
<1>2. PICK v \in Position : v = Resolve(a, panes, wins, termSize)
  BY ResolveType, InputsAssumption DEF TypeOK
<1>3. PICK rec : /\ rec.row = v.row /\ rec.col = v.col
                 /\ rec.visible = v.visible /\ rec.rendered = v.visible
                 /\ rec.anchor = a /\ rec.img = images[<<k[1], k[2]>>]
                 /\ placements' = [q \in DOMAIN placements \cup {id} |->
                                      IF q = id THEN rec ELSE placements[q]]
                 /\ screen' = Draw(screen, placements', {q \in {id} : v.visible})
  BY <1>1, <1>2 DEF Place, NextPlacementId
<1>4. told' = [q \in DOMAIN told \cup {id} |-> IF q = id THEN "none" ELSE told[q]]
  BY <1>1 DEF Place, NextPlacementId
<1>5. nextPlacement' = id
  BY <1>1 DEF Place, NextPlacementId
<1>6. /\ DOMAIN placements' = DOMAIN placements \cup {id}
      /\ \A p \in DOMAIN placements : p # id => placements'[p] = placements[p]
      /\ placements'[id] = rec
  BY <1>3
<1>7. /\ DOMAIN told' = DOMAIN told \cup {id}
      /\ \A p \in DOMAIN told : p # id => told'[p] = told[p]
      /\ told'[id] = "none"
  BY <1>4
<1>8. /\ placements'[id].row = v.row /\ placements'[id].col = v.col
      /\ placements'[id].visible = v.visible /\ placements'[id].rendered = v.visible
      /\ placements'[id].anchor = a
      /\ placements'[id].img = images[<<k[1], k[2]>>]
      /\ screen' = Draw(screen, placements', {q \in {id} : v.visible})
  BY <1>3, <1>6
<1> QED
  BY <1>1, <1>2, <1>5, <1>6, <1>7, <1>8 DEF PlacedAs

\* A placement is rendered exactly when it is visible.
RenderedIsVisible ==
    \A p \in DOMAIN placements : placements[p].rendered = placements[p].visible

TopologyInv == TypeOK /\ RenderedIsVisible /\ PositionsCurrent /\ ToldIsCurrent

\* A window that stays keeps the position of what is anchored in it; no other
\* anchor depends on the windows.
LEMMA ResolveKept ==
    ASSUME NEW a, NEW pn, NEW wn, NEW sz, NEW fewer,
           DOMAIN fewer \subseteq DOMAIN wn, \A w \in DOMAIN fewer : fewer[w] = wn[w],
           a.type = "nvim_win" => a.at \in DOMAIN fewer
    PROVE  Resolve(a, pn, fewer, sz) = Resolve(a, pn, wn, sz)
<1>1. CASE a.type = "nvim_win"
  <2>1. WinPos(a, pn, fewer) = WinPos(a, pn, wn)
    BY <1>1 DEF WinPos
  <2> QED
    BY <1>1, <2>1 DEF Resolve
<1>2. CASE a.type # "nvim_win"
  BY <1>2 DEF Resolve
<1> QED
  BY <1>1, <1>2

LEMMA TopologyInvStep ==
    ASSUME TopologyInv, [Next]_vars PROVE TopologyInv'
<1>1. TypeOK /\ TypeOK'
  BY TypeStep DEF TopologyInv
<1>2. ASSUME NEW k \in DOMAIN images, NEW a \in Anchors, Place(k[1], k[2], a)
      PROVE  RenderedIsVisible' /\ PositionsCurrent' /\ ToldIsCurrent'
  <2>1. PICK id \in Int, v \in Position : PlacedAs(k, a, id, v)
    BY <1>1, <1>2, PlaceEach
  <2>2. UNCHANGED <<panes, wins, termSize>>
    BY <1>2 DEF Place, NextPlacementId, topology
  <2>3. RenderedIsVisible'
    BY <2>1 DEF PlacedAs, RenderedIsVisible, TopologyInv
  <2>4. PositionsCurrent'
    <3>1. At(v.row, v.col, v.visible) = v
      BY DEF At, Position
    <3> QED
      BY <2>1, <2>2, <3>1 DEF PlacedAs, PositionsCurrent, Orphaned, TopologyInv
  <2>5. ToldIsCurrent'
    BY <1>1, <2>1 DEF PlacedAs, ToldIsCurrent, TopologyInv, TypeOK
  <2> QED
    BY <2>3, <2>4, <2>5
<1>3. ASSUME NEW ps, Removing(ps)
      PROVE  RenderedIsVisible' /\ PositionsCurrent' /\ ToldIsCurrent'
  <2>1. /\ DOMAIN placements' = DOMAIN placements \ ps
        /\ \A p \in DOMAIN placements' : placements'[p] = placements[p]
        /\ DOMAIN told' = DOMAIN told \ ps
        /\ \A p \in DOMAIN told' : told'[p] = told[p]
    BY <1>3 DEF Removing, RemovePlacements, Without
  <2>2. RenderedIsVisible' /\ ToldIsCurrent'
    BY <1>1, <2>1 DEF RenderedIsVisible, ToldIsCurrent, TopologyInv, TypeOK
  <2>3. /\ DOMAIN wins' \subseteq DOMAIN wins /\ \A w \in DOMAIN wins' : wins'[w] = wins[w]
        /\ panes' = panes /\ termSize' = termSize
    BY <1>3 DEF Removing
  <2>4. ASSUME NEW p \in DOMAIN placements', ~Orphaned(p)'
        PROVE  Resolve(placements[p].anchor, panes, wins', termSize)
                   = Resolve(placements[p].anchor, panes, wins, termSize)
    <3>1. PICK fewer : fewer = wins'
      OBVIOUS
    <3>2. placements[p].anchor.type = "nvim_win" => placements[p].anchor.at \in DOMAIN fewer
      BY <2>1, <2>4, <3>1 DEF Orphaned
    <3>3. Resolve(placements[p].anchor, panes, fewer, termSize)
             = Resolve(placements[p].anchor, panes, wins, termSize)
      BY <2>3, <3>1, <3>2, ResolveKept
    <3> QED
      BY <3>1, <3>3
  <2>5. ASSUME NEW p \in DOMAIN placements', ~Orphaned(p)'
        PROVE  ~Orphaned(p)
    BY <2>1, <2>3, <2>5 DEF Orphaned
  <2>6. PositionsCurrent'
    BY <2>1, <2>3, <2>4, <2>5 DEF PositionsCurrent, TopologyInv
  <2> QED
    BY <2>2, <2>6
<1>4. ASSUME NEW pn, NEW wn, NEW sz, Recomputing(pn, wn, sz)
      PROVE  RenderedIsVisible' /\ PositionsCurrent' /\ ToldIsCurrent'
  <2>1. /\ panes' = pn /\ wins' = wn /\ termSize' = sz
        /\ PanesType(pn) /\ WinsType(wn) /\ sz \in Size /\ Recompute(pn, wn, sz)
    BY <1>4 DEF Recomputing
  <2>2. /\ DOMAIN placements' = DOMAIN placements /\ DOMAIN told' = DOMAIN told
        /\ \A p \in DOMAIN placements : \E o \in Position :
              /\ o = Resolve(placements[p].anchor, pn, wn, sz)
              /\ placements'[p].row = o.row /\ placements'[p].col = o.col
              /\ placements'[p].visible = o.visible /\ placements'[p].rendered = o.visible
              /\ placements'[p].anchor = placements[p].anchor
              /\ told'[p] = Notice(p, o)
    BY <1>1, <2>1, RecomputeEach
  <2>3. RenderedIsVisible'
    BY <2>2 DEF RenderedIsVisible
  <2>4. \A o \in Position : At(o.row, o.col, o.visible) = o
    BY DEF At, Position
  <2>5. PositionsCurrent'
    BY <2>1, <2>2, <2>4 DEF PositionsCurrent
  <2>6. ASSUME NEW p \in DOMAIN placements, told'[p] # "none"
        PROVE  told'[p] = "shown" <=> placements'[p].visible
    <3>1. PICK o \in Position : placements'[p].visible = o.visible /\ told'[p] = Notice(p, o)
      BY <2>2
    <3>2. placements[p].visible \in BOOLEAN /\ o.visible \in BOOLEAN
      BY <1>1 DEF TypeOK, PlacementsType, Placement, Position
    <3>3. told[p] # "none" => (told[p] = "shown" <=> placements[p].visible)
      BY <1>1 DEF TopologyInv, ToldIsCurrent, TypeOK
    <3> QED
      BY <2>6, <3>1, <3>2, <3>3 DEF Notice
  <2>7. ToldIsCurrent'
    BY <1>1, <2>2, <2>6 DEF ToldIsCurrent, TypeOK
  <2> QED
    BY <2>3, <2>5, <2>7
<1>5. ASSUME UNCHANGED <<placements, topology, told>>
      PROVE  RenderedIsVisible' /\ PositionsCurrent' /\ ToldIsCurrent'
  BY <1>5 DEF topology, RenderedIsVisible, PositionsCurrent, Orphaned, ToldIsCurrent, TopologyInv
<1>6. ASSUME NEW c, NEW d, NEW h, NEW n, UploadMiss(c, d, h, n)
      PROVE  UNCHANGED <<placements, topology, told>>
  BY <1>6 DEF UploadMiss
<1>7. Stop \/ Quiet => UNCHANGED <<placements, topology, told>>
  BY DEF Stop, Quiet
<1> QED
  BY <1>1, <1>2, <1>3, <1>4, <1>5, <1>6, <1>7, StepKinds DEF TopologyInv

\* The inductive invariant of positions, visibility and notices.
THEOREM TopologyInvariant == Spec => []TopologyInv
<1>1. Init => TopologyInv
  <2> SUFFICES ASSUME Init PROVE TopologyInv
    OBVIOUS
  <2>1. TypeOK
    BY CacheInvInit DEF CacheInv
  <2> QED
    BY <2>1 DEF Init, TopologyInv, RenderedIsVisible, PositionsCurrent, ToldIsCurrent
<1>2. TopologyInv /\ [Next]_vars => TopologyInv'
  BY TopologyInvStep
<1> QED
  BY <1>1, <1>2, PTL DEF Spec

\* No handler that changes a pane, a window or the size forgets to recompute.
THEOREM PositionsStayCurrent == Spec => []PositionsCurrent
<1>1. TopologyInv => PositionsCurrent
  BY DEF TopologyInv
<1> QED
  BY <1>1, TopologyInvariant, PTL

\* The last visibility_changed a client was sent for a placement is still true.
THEOREM ClientsAreToldTheTruth == Spec => []ToldIsCurrent
<1>1. TopologyInv => ToldIsCurrent
  BY DEF TopologyInv
<1> QED
  BY <1>1, TopologyInvariant, PTL

-----------------------------------------------------------------------------
(* The converse of NoGhosts: what the engine counts as rendered is shown.   *)
(* It needs to know that a new image is not yet placed anywhere.            *)

PlacedImagesKnown == \A p \in DOMAIN placements : placements[p].img < nextImage

ShownInv == CacheInv /\ ScreenInv /\ PlacedImagesKnown /\ RenderedIsShown

\* The display of placement p at its recorded position
Display(p) == [img |-> placements[p].img, pid |-> p,
               row |-> placements[p].row, col |-> placements[p].col]

\* Must p be on the screen?
Showable(p) ==
    /\ placements[p].rendered
    /\ placements[p].row >= 0 /\ placements[p].col >= 0
    /\ placements[p].img \in termImages

LEMMA ShownIsDisplay ==
    RenderedIsShown <=> (running => \A p \in DOMAIN placements : Showable(p) => Display(p) \in screen)
BY DEF RenderedIsShown, Showable, Display

\* Place of some placements leaves the displays of the others alone, and puts
\* those it can serialize, of an image the terminal stores, on the screen.
LEMMA DrawKeeps ==
    ASSUME NEW scr, NEW pl, NEW ps, NEW s \in scr, s.pid \notin ps
    PROVE  s \in Draw(scr, pl, ps)
BY DEF Draw

LEMMA DrawAdds ==
    ASSUME NEW scr, NEW pl, NEW ps, NEW p \in ps,
           pl[p].row >= 0, pl[p].col >= 0, pl[p].img \in termImages
    PROVE  [img |-> pl[p].img, pid |-> p, row |-> pl[p].row, col |-> pl[p].col] \in Draw(scr, pl, ps)
BY DEF Draw

\* recomputePlacements shows again whatever it erased and is still visible.
LEMMA RecomputeShows ==
    ASSUME ShownInv, NEW pn, NEW wn, NEW sz, Recomputing(pn, wn, sz)
    PROVE  RenderedIsShown'
<1>1. /\ TypeOK /\ PanesType(pn) /\ WinsType(wn) /\ sz \in Size /\ Recompute(pn, wn, sz)
      /\ termImages' = termImages /\ running /\ running'
  BY DEF Recomputing, ShownInv, CacheInv
<1> DEFINE pos == [p \in DOMAIN placements |-> Resolve(placements[p].anchor, pn, wn, sz)]
           moved == {p \in DOMAIN placements : Moved(p, pos[p])}
           erase == {p \in DOMAIN placements : ~pos[p].visible \/ p \in moved}
           draw == {p \in DOMAIN placements :
                       pos[p].visible /\ (~placements[p].rendered \/ p \in moved)}
<1>2. screen' = Draw(Erase(screen, erase), placements', draw)
  BY <1>1 DEF Recompute
<1>3. ASSUME NEW p \in DOMAIN placements
      PROVE  /\ placements'[p].row = pos[p].row /\ placements'[p].col = pos[p].col
             /\ placements'[p].rendered = pos[p].visible
             /\ placements'[p].img = placements[p].img
  BY <1>1, RecomputeEach
<1>4. DOMAIN placements' = DOMAIN placements
  BY <1>1, RecomputeEach
<1>5. ASSUME NEW p \in DOMAIN placements', Showable(p)'
      PROVE  Display(p)' \in screen'
  <2>1. PICK pl : pl = placements'
    OBVIOUS
  <2>2. /\ pl[p].row >= 0 /\ pl[p].col >= 0 /\ pl[p].img \in termImages /\ pl[p].rendered
    BY <1>1, <1>5, <2>1 DEF Showable
  <2>3. Display(p)' = [img |-> pl[p].img, pid |-> p, row |-> pl[p].row, col |-> pl[p].col]
    BY <2>1 DEF Display
  <2>4. p \in DOMAIN placements
    BY <1>4
  <2>5. CASE p \in draw
    <3> HIDE DEF draw, erase
    <3> QED
      BY <1>2, <2>1, <2>2, <2>3, <2>5, DrawAdds
  <2>6. CASE p \notin draw
    <3>1. pos[p].visible
      BY <1>3, <2>1, <2>2, <2>4
    <3>2. /\ placements[p].rendered /\ p \notin erase
          /\ pos[p].row = placements[p].row /\ pos[p].col = placements[p].col
      BY <2>4, <2>6, <3>1 DEF Moved
    <3>3. /\ pl[p].row = placements[p].row /\ pl[p].col = placements[p].col
          /\ pl[p].img = placements[p].img
      BY <1>3, <2>1, <2>4, <3>2
    <3>4. Showable(p)
      BY <2>2, <3>2, <3>3 DEF Showable
    <3>5. Display(p) \in screen
      BY <1>1, <2>4, <3>4, ShownIsDisplay DEF ShownInv
    <3>6. Display(p).pid = p
      BY DEF Display
    <3>7. Display(p) \in Erase(screen, erase)
      BY <3>2, <3>5, <3>6 DEF Erase
    <3>8. Display(p)' = Display(p)
      BY <2>3, <3>3 DEF Display
    <3> HIDE DEF draw, erase
    <3> QED
      BY <1>2, <2>6, <3>6, <3>7, <3>8, DrawKeeps
  <2> QED
    BY <2>5, <2>6
<1>6. (running => \A p \in DOMAIN placements : Showable(p) => Display(p) \in screen)'
  BY <1>5
<1> QED
  BY <1>6, ShownIsDisplay, PTL

LEMMA ShownInvStep ==
    ASSUME ShownInv, [Next]_vars PROVE ShownInv'
<1>1. CacheInv' /\ ScreenInv'
  BY CacheInvStep, ScreenInvStep DEF ShownInv
<1>2. TypeOK /\ (running => \A p \in DOMAIN placements : Showable(p) => Display(p) \in screen)
  BY ShownIsDisplay DEF ShownInv, CacheInv
<1>3. ASSUME ASSUME NEW p \in DOMAIN placements', running', Showable(p)'
             PROVE  Display(p)' \in screen'
      PROVE  RenderedIsShown'
  <2>1. (running => \A p \in DOMAIN placements : Showable(p) => Display(p) \in screen)'
    BY <1>3
  <2> QED
    BY <2>1, ShownIsDisplay, PTL
<1>4. ASSUME NEW k \in DOMAIN images, NEW a \in Anchors, Place(k[1], k[2], a)
      PROVE  PlacedImagesKnown' /\ RenderedIsShown'
  <2>1. PICK id \in Int, v \in Position : PlacedAs(k, a, id, v)
    BY <1>2, <1>4, PlaceEach
  <2>2. running /\ termImages' = termImages /\ nextImage' = nextImage /\ <<k[1], k[2]>> \in DOMAIN images
    BY <1>4 DEF Place, NextPlacementId, owned
  <2>3. images[<<k[1], k[2]>>] < nextImage
    BY <2>2 DEF ShownInv, CacheInv, HandlesCached, NextImageUnused
  <2>4. PlacedImagesKnown'
    BY <2>1, <2>2, <2>3 DEF PlacedAs, ShownInv, PlacedImagesKnown
  <2>5. id \notin DOMAIN placements
    BY <2>1 DEF PlacedAs, ShownInv, ScreenInv, PlacementIdsUsed, TypeOK, PlacementsType, PlacementIds
  <2>6. ASSUME NEW p \in DOMAIN placements', Showable(p)'
        PROVE  Display(p)' \in screen'
    <3>1. PICK pl : pl = placements'
      OBVIOUS
    <3>2. Display(p)' = [img |-> pl[p].img, pid |-> p, row |-> pl[p].row, col |-> pl[p].col]
      BY <3>1 DEF Display
    <3>3. /\ pl[p].row >= 0 /\ pl[p].col >= 0 /\ pl[p].img \in termImages /\ pl[p].rendered
      BY <2>2, <2>6, <3>1 DEF Showable
    <3>4. CASE p = id
      <4>1. p \in {q \in {id} : v.visible}
        BY <2>1, <3>1, <3>3, <3>4 DEF PlacedAs
      <4> QED
        BY <2>1, <3>1, <3>2, <3>3, <4>1, DrawAdds DEF PlacedAs
    <3>5. CASE p # id
      <4>1. p \in DOMAIN placements /\ pl[p] = placements[p]
        BY <2>1, <3>1, <3>5 DEF PlacedAs
      <4>2. Display(p)' = Display(p) /\ Display(p).pid = p
        BY <3>2, <4>1 DEF Display
      <4>3. Display(p) \in screen
        BY <1>2, <2>2, <3>3, <4>1 DEF Showable
      <4> QED
        BY <2>1, <3>5, <4>2, <4>3, DrawKeeps DEF PlacedAs
    <3> QED
      BY <3>4, <3>5
  <2> QED
    BY <1>3, <2>4, <2>6
<1>5. ASSUME NEW ps, Removing(ps)
      PROVE  PlacedImagesKnown' /\ RenderedIsShown'
  <2>1. /\ DOMAIN placements' = DOMAIN placements \ ps
        /\ \A p \in DOMAIN placements' : placements'[p] = placements[p]
        /\ screen' = Erase(screen, ps)
        /\ termImages' = termImages /\ nextImage' = nextImage /\ running
    BY <1>5 DEF Removing, RemovePlacements, Without
  <2>2. PlacedImagesKnown'
    BY <2>1 DEF PlacedImagesKnown, ShownInv
  <2>3. ASSUME NEW p \in DOMAIN placements', Showable(p)'
        PROVE  Display(p)' \in screen'
    <3>1. Display(p)' = Display(p) /\ Display(p).pid = p
      BY <2>1 DEF Display
    <3>2. p \in DOMAIN placements /\ Showable(p)
      BY <2>1, <2>3 DEF Showable
    <3>3. Display(p) \in screen
      BY <1>2, <2>1, <3>2
    <3> QED
      BY <2>1, <3>1, <3>3 DEF Erase
  <2> QED
    BY <1>3, <2>2, <2>3
<1>6. ASSUME NEW pn, NEW wn, NEW sz, Recomputing(pn, wn, sz)
      PROVE  PlacedImagesKnown' /\ RenderedIsShown'
  <2>1. PanesType(pn) /\ WinsType(wn) /\ sz \in Size /\ Recompute(pn, wn, sz) /\ nextImage' = nextImage
    BY <1>6 DEF Recomputing, owned
  <2>2. /\ DOMAIN placements' = DOMAIN placements
        /\ \A p \in DOMAIN placements : placements'[p].img = placements[p].img
    BY <1>2, <2>1, RecomputeEach
  <2>3. PlacedImagesKnown'
    BY <2>1, <2>2 DEF ShownInv, PlacedImagesKnown
  <2> QED
    BY <1>6, <2>3, RecomputeShows
<1>7. ASSUME NEW c \in Clients, NEW d \in Data, NEW h \in Handles,
             NEW n \in 0..Len(cache.lru), UploadMiss(c, d, h, n)
      PROVE  PlacedImagesKnown' /\ RenderedIsShown'
  <2>1. PICK gone : /\ termImages' = (termImages \cup {nextImage}) \ gone
                    /\ screen' = {s \in screen : s.img \notin gone}
                    /\ nextImage' = nextImage + 1 /\ placements' = placements /\ running
    BY <1>7 DEF UploadMiss, FreeData, FreeOnScreen
  <2>2. nextImage \in Int /\ \A p \in DOMAIN placements : placements[p].img \in Int
    BY <1>2 DEF TypeOK, PlacementsType, Placement, ImageIds
  <2>3. PlacedImagesKnown'
    BY <2>1, <2>2 DEF ShownInv, PlacedImagesKnown
  <2>4. ASSUME NEW p \in DOMAIN placements', Showable(p)'
        PROVE  Display(p)' \in screen'
    <3>1. Display(p)' = Display(p) /\ Display(p).img = placements[p].img
      BY <2>1 DEF Display
    <3>2. placements[p].img # nextImage
      BY <2>1, <2>2 DEF ShownInv, PlacedImagesKnown
    <3>3. Showable(p) /\ placements[p].img \notin gone
      BY <2>1, <2>4, <3>2 DEF Showable
    <3> QED
      BY <1>2, <2>1, <3>1, <3>3
  <2> QED
    BY <1>3, <2>3, <2>4
<1>8. ASSUME Stop
      PROVE  PlacedImagesKnown' /\ RenderedIsShown'
  <2>1. running' = FALSE /\ placements' = placements /\ nextImage' = nextImage
    BY <1>8 DEF Stop, owned
  <2> QED
    BY <1>3, <2>1 DEF ShownInv, PlacedImagesKnown
<1>9. ASSUME Quiet
      PROVE  PlacedImagesKnown' /\ RenderedIsShown'
  <2>1. UNCHANGED <<running, placements, nextImage, termImages, screen>>
    BY <1>9 DEF Quiet
  <2>2. PlacedImagesKnown'
    BY <2>1 DEF ShownInv, PlacedImagesKnown
  <2>3. ASSUME NEW p \in DOMAIN placements', running', Showable(p)'
        PROVE  Display(p)' \in screen'
    BY <1>2, <2>1, <2>3 DEF Showable, Display
  <2> QED
    BY <1>3, <2>2, <2>3
<1> QED
  BY <1>1, <1>2, <1>4, <1>5, <1>6, <1>7, <1>8, <1>9, StepKinds DEF ShownInv

\* The inductive invariant of what is shown.
THEOREM ShownInvariant == Spec => []ShownInv
<1>1. Init => ShownInv
  <2> SUFFICES ASSUME Init PROVE ShownInv
    OBVIOUS
  <2>1. CacheInv
    BY CacheInvInit
  <2> QED
    BY <2>1 DEF Init, CacheInv, ShownInv, ScreenInv, PlacementIdsUsed, NoGhosts,
                StopClearsTheScreen, PlacedImagesKnown, RenderedIsShown
<1>2. ShownInv /\ [Next]_vars => ShownInv'
  BY ShownInvStep
<1> QED
  BY <1>1, <1>2, PTL DEF Spec

\* A placement the engine counts as rendered is on the screen where it says.
THEOREM RenderedStaysShown == Spec => []RenderedIsShown
<1>1. ShownInv => RenderedIsShown
  BY DEF ShownInv
<1> QED
  BY <1>1, ShownInvariant, PTL

\* CellNamed, which speaks of sets of cells and lines, and ScreenPos, which
\* compares offsets, agree on every cell.
LEMMA CellOfPane ==
    ASSUME TypeOK, NEW id, NEW r \in Int, NEW c \in Int
    PROVE  /\ ActivePane(panes, id) =>
                 /\ InFront(id) = {panes[id]} /\ panes[id] \in Pane
                 /\ <<r, c>> \in CellsOf(panes[id]) <=> InPane(panes[id], r, c)
           /\ ~ActivePane(panes, id) => InFront(id) = {}
<1>1. ASSUME ActivePane(panes, id)
      PROVE  InFront(id) = {panes[id]} /\ panes[id] \in Pane
  BY <1>1 DEF ActivePane, InFront, TypeOK, PanesType
<1>2. ASSUME NEW pn \in Pane
      PROVE  <<r, c>> \in CellsOf(pn) <=> InPane(pn, r, c)
  BY DEF CellsOf, InPane, Pane
<1>3. ASSUME ~ActivePane(panes, id) PROVE InFront(id) = {}
  BY <1>3 DEF ActivePane, InFront
<1> QED
  BY <1>1, <1>2, <1>3

LEMMA CellIsPosition ==
    ASSUME TypeOK, NEW a \in Anchor, NEW r \in Int, NEW c \in Int
    PROVE  <<r, c>> \in CellNamed(a) <=> Resolve(a, panes, wins, termSize) = At(r, c, TRUE)
<1>0. Hidden # At(r, c, TRUE)
  BY DEF At, Hidden
<1>1. CASE a.type = "absolute"
  <2>1. termSize.rows \in Nat /\ termSize.cols \in Nat /\ a.row \in Int /\ a.col \in Int
    BY DEF TypeOK, Size, Anchor
  <2>2. <<r, c>> \in CellNamed(a) <=>
           /\ r = a.row /\ c = a.col /\ r \in Nat /\ c \in Nat
           /\ termSize.rows = 0 \/ r \in 0..termSize.rows - 1
           /\ termSize.cols = 0 \/ c \in 0..termSize.cols - 1
    BY <1>1 DEF CellNamed
  <2> DEFINE inside == /\ a.row >= 0 /\ a.col >= 0
                       /\ termSize.rows > 0 => a.row < termSize.rows
                       /\ termSize.cols > 0 => a.col < termSize.cols
  <2>3. Resolve(a, panes, wins, termSize) = At(a.row, a.col, inside)
    BY <1>1 DEF Resolve, AbsolutePos
  <2>4. <<r, c>> \in CellNamed(a) <=> r = a.row /\ c = a.col /\ inside
    BY <2>1, <2>2
  <2>5. inside \in BOOLEAN
    OBVIOUS
  <2> HIDE DEF inside
  <2> QED
    <3>1. At(a.row, a.col, inside) = At(r, c, TRUE) <=> a.row = r /\ a.col = c /\ inside
      BY <2>5 DEF At
    <3> QED
      BY <2>3, <2>4, <3>1, Zenon
<1>2. CASE a.type = "pane"
  <2>1. CellNamed(a) = UNION {CellsOf(pn) \cap {<<pn.top + a.row, pn.left + a.col>>} :
                                 pn \in InFront(a.at)}
    BY <1>2 DEF CellNamed
  <2>2. Resolve(a, panes, wins, termSize) = PanePos(a, panes)
    BY <1>2 DEF Resolve
  <2>3. CASE ActivePane(panes, a.at)
    <3>1. PICK pn \in Pane : pn = panes[a.at]
      BY <2>3, CellOfPane
    <3>2. <<r, c>> \in CellNamed(a) <=>
             InPane(pn, r, c) /\ r = pn.top + a.row /\ c = pn.left + a.col
      BY <2>1, <2>3, <3>1, CellOfPane
    <3>3. PanePos(a, panes) = At(pn.top + a.row, pn.left + a.col,
                                 InPane(pn, pn.top + a.row, pn.left + a.col))
      BY <2>3, <3>1 DEF PanePos
    <3>4. InPane(pn, pn.top + a.row, pn.left + a.col) \in BOOLEAN
      BY DEF InPane
    <3>5. PICK r0 \in Int : r0 = pn.top + a.row
      BY DEF Pane, Anchor
    <3>6. PICK c0 \in Int : c0 = pn.left + a.col
      BY DEF Pane, Anchor
    <3>7. PICK v \in BOOLEAN : v = InPane(pn, r0, c0)
      BY <3>4, <3>5, <3>6
    <3>8. At(r0, c0, v) = At(r, c, TRUE) <=> r0 = r /\ c0 = c /\ v
      BY DEF At
    <3>9. Resolve(a, panes, wins, termSize) = At(r0, c0, v)
      BY <2>2, <3>3, <3>5, <3>6, <3>7
    <3>10. <<r, c>> \in CellNamed(a) <=> r0 = r /\ c0 = c /\ v
      BY <3>2, <3>5, <3>6, <3>7
    <3> QED
      BY <3>8, <3>9, <3>10, Zenon
  <2>4. CASE ~ActivePane(panes, a.at)
    <3>1. CellNamed(a) = {}
      BY <2>1, <2>4, CellOfPane
    <3>2. PanePos(a, panes) = Hidden
      BY <2>4 DEF PanePos
    <3>3. <<r, c>> \notin CellNamed(a)
      BY <3>1
    <3> QED
      BY <1>0, <2>2, <3>2, <3>3, Zenon
  <2> QED
    BY <2>3, <2>4
<1>3. CASE a.type = "nvim_win" /\ a.at \in DOMAIN wins
  <2>1. PICK w \in Win : w = wins[a.at]
    BY <1>3 DEF TypeOK, WinsType
  <2> DEFINE inWin == {<<w.top + (l - w.scroll), w.left + a.col>> : l \in LinesOf(w) \cap {a.row}}
             rel == a.row - w.scroll
  <2>2. CellNamed(a) = IF w.pane = NoPane THEN inWin
                       ELSE UNION {CellsOf(pn) \cap {<<pn.top + x[1], pn.left + x[2]>> : x \in inWin} :
                                      pn \in InFront(w.pane)}
    BY <1>3, <2>1 DEF CellNamed
  <2>3. Resolve(a, panes, wins, termSize) = WinPos(a, panes, wins)
    BY <1>3 DEF Resolve
  <2>4. /\ w.top \in Int /\ w.left \in Int /\ w.height \in Nat /\ w.scroll \in Int
        /\ a.row \in Int /\ a.col \in Int
    BY DEF Win, Anchor
  <2>5. rel < 0 \/ rel >= w.height => inWin = {}
    BY <2>4 DEF LinesOf
  <2>6. ~(rel < 0 \/ rel >= w.height) => inWin = {<<w.top + rel, w.left + a.col>>}
    BY <2>4 DEF LinesOf
  <2> HIDE DEF inWin, rel
  <2>7. CASE rel < 0 \/ rel >= w.height
    <3>1. CellNamed(a) = {}
      BY <2>2, <2>5, <2>7
    <3>2. WinPos(a, panes, wins) = Hidden
      BY <1>3, <2>1, <2>7 DEF WinPos, rel
    <3>3. <<r, c>> \notin CellNamed(a)
      BY <3>1
    <3> QED
      BY <1>0, <2>3, <3>2, <3>3, Zenon
  <2>8. CASE ~(rel < 0 \/ rel >= w.height) /\ w.pane = NoPane
    <3>1. <<r, c>> \in CellNamed(a) <=> r = w.top + rel /\ c = w.left + a.col
      BY <2>2, <2>6, <2>8
    <3>2. WinPos(a, panes, wins) = At(w.top + rel, w.left + a.col, TRUE)
      BY <1>3, <2>1, <2>8 DEF WinPos, rel
    <3>3. At(w.top + rel, w.left + a.col, TRUE) = At(r, c, TRUE) <=>
             w.top + rel = r /\ w.left + a.col = c
      BY DEF At
    <3> QED
      BY <2>3, <3>1, <3>2, <3>3, Zenon
  <2>9. CASE ~(rel < 0 \/ rel >= w.height) /\ w.pane # NoPane /\ ActivePane(panes, w.pane)
    <3>1. PICK pn \in Pane : pn = panes[w.pane]
      BY <2>9, CellOfPane
    <3>2. PICK r0 : r0 = pn.top + (w.top + rel)
      OBVIOUS
    <3>3. PICK c0 : c0 = pn.left + (w.left + a.col)
      OBVIOUS
    <3>4. CellNamed(a) = CellsOf(pn) \cap {<<r0, c0>>}
      <4>1. InFront(w.pane) = {pn}
        BY <2>9, <3>1, CellOfPane
      <4>2. {<<pn.top + x[1], pn.left + x[2]>> : x \in inWin} = {<<r0, c0>>}
        <5>1. PICK x0 : x0 = <<w.top + rel, w.left + a.col>>
          OBVIOUS
        <5>2. inWin = {x0} /\ x0[1] = w.top + rel /\ x0[2] = w.left + a.col
          BY <2>6, <2>9, <5>1
        <5>3. <<pn.top + x0[1], pn.left + x0[2]>> = <<r0, c0>>
          BY <3>2, <3>3, <5>2
        <5> QED
          BY <5>2, <5>3
      <4>3. CellNamed(a) = UNION {CellsOf(f) \cap {<<f.top + x[1], f.left + x[2]>> : x \in inWin} :
                                     f \in {pn}}
        BY <2>2, <2>9, <4>1, Zenon
      <4> QED
        BY <4>2, <4>3
    <3>5. <<r, c>> \in CellNamed(a) <=> InPane(pn, r0, c0) /\ r = r0 /\ c = c0
      BY <2>9, <3>1, <3>4, CellOfPane
    <3>6. WinPos(a, panes, wins) = IF InPane(pn, r0, c0) THEN At(r0, c0, TRUE) ELSE Hidden
      BY <1>3, <2>1, <2>9, <3>1, <3>2, <3>3 DEF WinPos, rel
    <3>7. At(r0, c0, TRUE) = At(r, c, TRUE) <=> r0 = r /\ c0 = c
      BY DEF At
    <3>8. CASE InPane(pn, r0, c0)
      BY <2>3, <3>5, <3>6, <3>7, <3>8, Zenon
    <3>9. CASE ~InPane(pn, r0, c0)
      BY <1>0, <2>3, <3>5, <3>6, <3>9, Zenon
    <3> QED
      BY <3>8, <3>9
  <2>10. CASE ~(rel < 0 \/ rel >= w.height) /\ w.pane # NoPane /\ ~ActivePane(panes, w.pane)
    <3>1. CellNamed(a) = {}
      BY <2>2, <2>10, CellOfPane
    <3>2. WinPos(a, panes, wins) = Hidden
      BY <1>3, <2>1, <2>10 DEF WinPos, rel
    <3>3. <<r, c>> \notin CellNamed(a)
      BY <3>1
    <3> QED
      BY <1>0, <2>3, <3>2, <3>3, Zenon
  <2> QED
    BY <2>7, <2>8, <2>9, <2>10
<1>4. CASE a.type = "nvim_win" /\ a.at \notin DOMAIN wins
  <2>1. CellNamed(a) = {}
    BY <1>4 DEF CellNamed
  <2>2. Resolve(a, panes, wins, termSize) = Hidden
    BY <1>4 DEF Resolve, WinPos
  <2> QED
    BY <1>0, <2>1, <2>2, Zenon
<1>5. CASE a.type = "other"
  <2>1. CellNamed(a) = {}
    BY <1>5 DEF CellNamed
  <2>2. Resolve(a, panes, wins, termSize) = Hidden
    BY <1>5 DEF Resolve
  <2> QED
    BY <1>0, <2>1, <2>2
<1> QED
  BY <1>1, <1>2, <1>3, <1>4, <1>5 DEF Anchor, AnchorTypes

\* A placement is on the screen if and only if the cell its anchor names is shown
\* now by its pane and window: what is on the screen is where the placement
\* resolves to and visible, and what is visible is rendered, hence shown.
THEOREM PlacementsShowWhereAnchored == Spec => []ShownWhereAnchored
<1>1. ASSUME TopologyInv, ShownInv, NEW p \in DOMAIN placements, ~Orphaned(p),
             NEW r \in Int, NEW c \in Int
      PROVE  <<r, c>> \in CellNamed(placements[p].anchor) <=>
                placements[p].rendered /\ placements[p].row = r /\ placements[p].col = c
  <2>1. PICK q \in Placement : q = placements[p]
    BY <1>1 DEF TopologyInv, TypeOK, PlacementsType
  <2>2. q.anchor \in Anchor /\ q.visible \in BOOLEAN /\ q.rendered = q.visible
    BY <1>1, <2>1 DEF TopologyInv, RenderedIsVisible, Placement
  <2>3. Resolve(q.anchor, panes, wins, termSize) = At(q.row, q.col, q.visible)
    BY <1>1, <2>1 DEF TopologyInv, PositionsCurrent
  <2>4. At(q.row, q.col, q.visible) = At(r, c, TRUE) <=>
           q.visible = TRUE /\ q.row = r /\ q.col = c
    BY DEF At
  <2> QED
    BY <1>1, <2>1, <2>2, <2>3, <2>4, CellIsPosition DEF TopologyInv
<1>2. ASSUME TopologyInv, ShownInv, NEW s \in screen, ~Orphaned(s.pid)
      PROVE  <<s.row, s.col>> \in CellNamed(placements[s.pid].anchor)
  <2>1. /\ s.pid \in DOMAIN placements /\ placements[s.pid].rendered
        /\ s.row = placements[s.pid].row /\ s.col = placements[s.pid].col
    BY <1>2 DEF ShownInv, ScreenInv, NoGhosts
  <2>2. s.row \in Int /\ s.col \in Int
    BY <1>2 DEF TopologyInv, TypeOK, Shown
  <2> QED
    BY <1>1, <1>2, <2>1, <2>2
<1>3. ASSUME TopologyInv, ShownInv, running, NEW p \in DOMAIN placements, ~Orphaned(p),
             placements[p].img \in termImages,
             NEW x \in CellNamed(placements[p].anchor) \cap (Nat \X Nat)
      PROVE  \E s \in screen : s.pid = p
  <2>1. PICK r \in Nat, c \in Nat : x = <<r, c>>
    BY <1>3
  <2>2. placements[p].rendered /\ placements[p].row = r /\ placements[p].col = c
    BY <1>1, <1>3, <2>1
  <2>3. [img |-> placements[p].img, pid |-> p,
         row |-> placements[p].row, col |-> placements[p].col] \in screen
    BY <1>3, <2>2 DEF ShownInv, RenderedIsShown
  <2> QED
    BY <2>3
<1>4. TopologyInv /\ ShownInv => ShownWhereAnchored
  BY <1>2, <1>3 DEF ShownWhereAnchored
<1> QED
  BY <1>4, TopologyInvariant, ShownInvariant, PTL

-----------------------------------------------------------------------------
(* No client pays for another: an action property.                          *)

\* Only client c loses a handle or a placement, and no handle changes its meaning.
OnlyLoses(c) ==
    /\ \A k \in DOMAIN images \cap DOMAIN images' : images'[k] = images[k]
    /\ \A k \in DOMAIN images \ DOMAIN images' : k[1] = c
    /\ \A p \in DOMAIN placements \ DOMAIN placements' : placements[p].client = c

LEMMA SomeoneLoses ==
    ASSUME CacheInv, [Next]_vars PROVE \E c : OnlyLoses(c)
<1>1. ASSUME UNCHANGED images, DOMAIN placements' = DOMAIN placements
      PROVE  \E c : OnlyLoses(c)
  BY <1>1 DEF OnlyLoses
<1>2. ASSUME NEW k \in DOMAIN images, NEW a \in Anchors, Place(k[1], k[2], a)
      PROVE  OnlyLoses(k[1])
  BY <1>2 DEF Place, NextPlacementId, owned, OnlyLoses
<1>3. ASSUME NEW c \in Clients, NEW p \in DOMAIN placements, Unplace(c, p)
      PROVE  OnlyLoses(c)
  BY <1>3 DEF Unplace, RemovePlacements, Without, owned, OnlyLoses
<1>4. ASSUME NEW c \in Clients, UnplaceAll(c)
      PROVE  OnlyLoses(c)
  BY <1>4 DEF UnplaceAll, RemovePlacements, PlacementsOf, Without, owned, OnlyLoses
<1>5. ASSUME NEW c \in Clients, NEW d \in Data, NEW h \in Handles,
             NEW j \in 1..Len(cache.lru), UploadHit(c, d, h, j)
      PROVE  OnlyLoses(c)
  BY <1>5 DEF UploadHit, FirstFree, OnlyLoses
<1>6. ASSUME NEW c \in Clients, NEW d \in Data, NEW h \in Handles,
             NEW n \in 0..Len(cache.lru), UploadMiss(c, d, h, n)
      PROVE  OnlyLoses(c)
  <2>1. PICK gone : gone = Victims(cache, n)
    OBVIOUS
  <2>2. {k \in DOMAIN images : images[k] \notin gone} = DOMAIN images
    BY <1>6, <2>1, VictimsUnheld DEF UploadMiss
  <2>3. /\ <<c, h>> \notin DOMAIN images
        /\ DOMAIN images' = DOMAIN images \cup {<<c, h>>}
        /\ \A k \in DOMAIN images : images'[k] = images[k]
    BY <1>6, <2>1, <2>2 DEF UploadMiss, FirstFree
  <2>4. placements' = placements
    BY <1>6 DEF UploadMiss
  <2> QED
    BY <2>3, <2>4 DEF OnlyLoses
<1>7. ASSUME NEW k \in DOMAIN images, Free(k[1], k[2])
      PROVE  OnlyLoses(k[1])
  <2>1. DOMAIN images \ DOMAIN images' \subseteq {<<k[1], k[2]>>}
    BY <1>7 DEF Free, Without
  <2>2. \A g \in DOMAIN images' : images'[g] = images[g]
    BY <1>7 DEF Free, Without
  <2>3. placements' = placements
    BY <1>7 DEF Free
  <2> QED
    BY <2>1, <2>2, <2>3 DEF OnlyLoses
<1>8. ASSUME NEW c \in Clients, ClientDisconnect(c)
      PROVE  OnlyLoses(c)
  BY <1>8 DEF ClientDisconnect, RemovePlacements, PlacementsOf, HeldBy, Without, OnlyLoses
<1>9. ASSUME NEW pn, NEW wn, NEW sz, Recompute(pn, wn, sz), UNCHANGED images
      PROVE  \E c : OnlyLoses(c)
  <2>1. DOMAIN placements' = DOMAIN placements
    BY <1>9 DEF Recompute
  <2> QED
    BY <1>1, <1>9, <2>1
<1>10. ASSUME NEW c \in Clients, NEW w \in WinIds, NEW shape \in Shapes, RegisterWin(c, w, shape)
       PROVE  \E b : OnlyLoses(b)
  <2>1. PICK wn : wn = wins'
    OBVIOUS
  <2> QED
    BY <1>9, <1>10, <2>1 DEF RegisterWin, owned
<1>11. ASSUME NEW w \in WinIds, NEW top \in Scrolls, ScrollUpdate(w, top)
       PROVE  \E b : OnlyLoses(b)
  <2>1. PICK wn : wn = wins'
    OBVIOUS
  <2> QED
    BY <1>9, <1>11, <2>1 DEF ScrollUpdate, owned
<1>12. ASSUME NEW w \in WinIds, UnregisterWin(w)
       PROVE  \E b : OnlyLoses(b)
  <2>1. PICK wn : wn = wins'
    OBVIOUS
  <2> QED
    BY <1>9, <1>12, <2>1 DEF UnregisterWin, owned
<1>13. ASSUME NEW layout \in Layouts, UpdatePanes(layout)
       PROVE  \E b : OnlyLoses(b)
  BY <1>9, <1>13 DEF UpdatePanes, owned
<1>14. ASSUME NEW sz \in Sizes, Resize(sz)
       PROVE  \E b : OnlyLoses(b)
  BY <1>9, <1>14 DEF Resize, owned
<1>15. CASE Stop
  BY <1>1, <1>15 DEF Stop, owned
<1>16. CASE UNCHANGED vars
  BY <1>1, <1>16 DEF vars
<1> QED
  BY <1>2, <1>3, <1>4, <1>5, <1>6, <1>7, <1>8, <1>10, <1>11, <1>12, <1>13, <1>14, <1>15, <1>16
     DEF Next

\* No request, disconnect or upload of one client costs another a handle or a
\* placement, and no step changes what a handle names.
THEOREM NoClientPaysForAnother == Spec => OneClientLoses
<1> DEFINE Losing ==
              LET lost == DOMAIN images \ DOMAIN images'
                  gone == DOMAIN placements \ DOMAIN placements'
                  losers == {k[1] : k \in lost} \cup {placements[p].client : p \in gone}
              IN  /\ \A k \in DOMAIN images \cap DOMAIN images' : images'[k] = images[k]
                  /\ \A b, c \in losers : b = c
<1>1. ASSUME CacheInv, [Next]_vars PROVE Losing
  <2>1. PICK c : OnlyLoses(c)
    BY <1>1, SomeoneLoses
  <2> QED
    BY <2>1 DEF OnlyLoses
<1>2. CacheInv /\ [Next]_vars => [Losing]_vars
  BY <1>1
<1> QED
  BY <1>2, CacheInvariant, PTL DEF Spec, OneClientLoses
=============================================================================
