---------------------------- MODULE UploadCache ----------------------------
(***************************************************************************)
(* The content-addressed upload cache of internal/upload/cache.go, as      *)
(* operators on a cache value.  The engine goroutine owns the cache and    *)
(* calls it inside its handlers, so the cache has no step of its own: the  *)
(* Engine module applies these operators to its variable `cache`.          *)
(*                                                                         *)
(*   byHash   image data -> kitty image id      (the hash stands for data) *)
(*   byID     kitty image id -> [data, refs]                               *)
(*   lru      kitty image ids, most recently stored first                  *)
(***************************************************************************)
EXTENDS Integers, Sequences, FiniteSets

CONSTANTS
    Data,       \* the distinct image contents clients may upload
    MaxSize     \* maxSize given to NewCache

ASSUME MaxSizeAssumption == MaxSize \in Nat

EmptyCache == [byHash |-> << >>, byID |-> << >>, lru |-> << >>]

\* Lookup: found, and the image id it returns
Cached(c, d) == d \in DOMAIN c.byHash
Lookup(c, d) == c.byHash[d]

\* Store of data that is cached: one more reference, and its LRU element, at
\* position j, moves to the front
MoveToFront(s, j) == [i \in 1..Len(s) |-> IF i = 1 THEN s[j] ELSE IF i <= j THEN s[i - 1] ELSE s[i]]

Entry(d, n) == [data |-> d, refs |-> n]

StoreHit(c, d, j) ==
    LET img == c.byHash[d]
    IN  [byHash |-> c.byHash,
         byID   |-> [i \in DOMAIN c.byID |->
                        IF i = img THEN Entry(c.byID[i].data, c.byID[i].refs + 1) ELSE c.byID[i]],
         lru    |-> MoveToFront(c.lru, j)]

\* The i-th victim candidate, counted from the back of the LRU list
FromBack(c, i) == c.lru[Len(c.lru) + 1 - i]

Idle(c, img) == c.byID[img].refs <= 0

\* The eviction loop of Store stops after n victims: each iteration before saw a
\* cache at capacity with an unreferenced entry at the back, the next one does not.
EvictsExactly(c, n) ==
    /\ \A i \in 1..n : Len(c.lru) + 1 - i >= MaxSize /\ Idle(c, FromBack(c, i))
    /\ n < Len(c.lru) /\ Len(c.lru) - n >= MaxSize => ~Idle(c, FromBack(c, n + 1))

Victims(c, n) == {FromBack(c, i) : i \in 1..n}

KeptHashes(c, gone) == {e \in DOMAIN c.byHash : c.byHash[e] \notin gone}

\* Store of new data under id img, after n evictions
StoreMiss(c, d, img, n) ==
    LET gone == Victims(c, n)
        kept == KeptHashes(c, gone)
    IN  [byHash |-> [e \in kept \cup {d} |-> IF e = d THEN img ELSE c.byHash[e]],
         byID   |-> [i \in (DOMAIN c.byID \ gone) \cup {img} |->
                        IF i = img THEN Entry(d, 1) ELSE c.byID[i]],
         lru    |-> <<img>> \o SubSeq(c.lru, 1, Len(c.lru) - n)]

\* Release, called once per handle of the set ks; handles[k] is the image of k
OneUse(handles, ks, img) ==   \* mutant: one Release per image instead of per handle
    IF \E k \in ks : handles[k] = img THEN 1 ELSE 0
Uses(handles, ks, img) == Cardinality({k \in ks : handles[k] = img})

ReleaseAll(c, handles, ks) ==
    [byHash |-> c.byHash,
     byID   |-> [i \in DOMAIN c.byID |->
                    Entry(c.byID[i].data, c.byID[i].refs - Uses(handles, ks, i))],
     lru    |-> c.lru]

-----------------------------------------------------------------------------
CacheType(c, Ids) ==
    /\ DOMAIN c.byHash \subseteq Data
    /\ \A d \in DOMAIN c.byHash : c.byHash[d] \in Ids
    /\ DOMAIN c.byID \subseteq Ids
    /\ \A i \in DOMAIN c.byID : c.byID[i].data \in Data /\ c.byID[i].refs \in Int
    /\ c.lru \in Seq(Ids)

\* byHash and byID are inverse to each other, and the LRU list holds every
\* cached image exactly once: what Store's three separate updates keep in step.
Coherent(c) ==
    /\ \A d \in DOMAIN c.byHash : c.byHash[d] \in DOMAIN c.byID /\ c.byID[c.byHash[d]].data = d
    /\ \A i \in DOMAIN c.byID : c.byID[i].data \in DOMAIN c.byHash /\ c.byHash[c.byID[i].data] = i
    /\ \A i \in 1..Len(c.lru) : c.lru[i] \in DOMAIN c.byID
    /\ \A i \in DOMAIN c.byID : \E j \in 1..Len(c.lru) : c.lru[j] = i
    /\ \A i, j \in 1..Len(c.lru) : c.lru[i] = c.lru[j] => i = j
=============================================================================
