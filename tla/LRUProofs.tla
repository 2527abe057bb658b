----------------------------- MODULE LRUProofs -----------------------------
(***************************************************************************)
(* Theorems about LRU for every set of goroutines, keys and values and     *)
(* every requested capacity.                                               *)
(***************************************************************************)
EXTENDS LRU, FiniteSetTheorems, TLAPS

NoDup(s) == \A i, j \in DOMAIN s : s[i] = s[j] => i = j

\* NewLRU never builds a cache without room (lru.go:48).
LEMMA CapacityPositive == capacity \in Nat /\ capacity >= 1
  BY LRUAssumption DEF capacity

\* Membership in the range of a sequence, by position.
LEMMA InToSet ==
  ASSUME NEW S, NEW s \in Seq(S), NEW x
  PROVE  x \in ToSet(s) <=> \E i \in 1..Len(s) : s[i] = x
BY DEF ToSet

\* No duplicates, with positions instead of a domain.
LEMMA NoDupIndex ==
  ASSUME NEW S, NEW s \in Seq(S)
  PROVE  NoDup(s) <=> \A i, j \in 1..Len(s) : s[i] = s[j] => i = j
BY DEF NoDup

\* Pushing an element at the front.
LEMMA ConsFacts ==
  ASSUME NEW S, NEW s \in Seq(S), NEW e \in S
  PROVE  /\ Cons(e, s) \in Seq(S)
         /\ Len(Cons(e, s)) = Len(s) + 1
         /\ Cons(e, s)[1] = e
         /\ ToSet(Cons(e, s)) = ToSet(s) \cup {e}
         /\ NoDup(s) /\ e \notin ToSet(s) => NoDup(Cons(e, s))
<1>. DEFINE c == Cons(e, s)
<1>1. /\ c \in Seq(S) /\ Len(c) = Len(s) + 1
      /\ c[1] = e
      /\ \A j \in 1..Len(s) : c[j + 1] = s[j]
      /\ \A j \in 1..Len(c) : j # 1 => j - 1 \in 1..Len(s) /\ c[j] = s[j - 1]
  BY DEF Cons
<1>. HIDE DEF c
<1>2. ASSUME NEW x PROVE x \in ToSet(c) <=> x \in ToSet(s) \cup {e}
  <2>1. ASSUME x \in ToSet(c) PROVE x \in ToSet(s) \cup {e}
    <3>1. PICK j \in 1..Len(c) : c[j] = x
      BY <2>1, <1>1, InToSet
    <3> QED BY <3>1, <1>1, InToSet
  <2>2. ASSUME x \in ToSet(s) PROVE x \in ToSet(c)
    <3>1. PICK j \in 1..Len(s) : s[j] = x
      BY <2>2, InToSet
    <3>2. j + 1 \in 1..Len(c) /\ c[j + 1] = x
      BY <3>1, <1>1
    <3> QED BY <3>2, <1>1, InToSet
  <2>3. e \in ToSet(c)
    <3>1. 1 \in 1..Len(c) /\ c[1] = e
      BY <1>1
    <3> QED BY <3>1, <1>1, InToSet
  <2> QED BY <2>1, <2>2, <2>3
<1>3. ToSet(c) = ToSet(s) \cup {e}
  BY <1>2
<1>4. ASSUME NoDup(s), e \notin ToSet(s) PROVE NoDup(c)
  <2>1. \A j \in 1..Len(s) : s[j] # e
    BY <1>4, InToSet
  <2>. SUFFICES ASSUME NEW i \in 1..Len(c), NEW j \in 1..Len(c), c[i] = c[j]
                PROVE  i = j
    BY <1>1, NoDupIndex
  <2>2. CASE i = 1 \/ j = 1
    BY <2>1, <2>2, <1>1
  <2>3. CASE i # 1 /\ j # 1
    BY <2>3, <1>1, <1>4, NoDupIndex
  <2> QED BY <2>2, <2>3
<1> QED BY <1>1, <1>3, <1>4 DEF c

\* Removing the only occurrence of an element: what was behind it moves up.
LEMMA RemoveFirstAt ==
  ASSUME NEW S, NEW s \in Seq(S), NoDup(s), NEW i \in 1..Len(s)
  PROVE  /\ RemoveFirst(s, s[i]) \in Seq(S)
         /\ Len(RemoveFirst(s, s[i])) = Len(s) - 1
         /\ \A j \in 1..(Len(s) - 1) :
               RemoveFirst(s, s[i])[j] = IF j < i THEN s[j] ELSE s[j + 1]
<1>. DEFINE e == s[i]
<1>2. \A j \in 1..Len(s) : s[j] = e => j = i
  BY DEF NoDup
<1>3. {j \in 1..Len(s) : s[j] = e} = {i}
  BY <1>2
<1>4. SelectInSeq(s, LAMBDA v : v = e) = i
  <2>1. Min({i}) = i
    BY DEF Min
  <2> QED BY <2>1, <1>3 DEF SelectInSeq
<1>5. RemoveFirst(s, e) = RemoveAt(s, i)
  BY <1>4 DEF RemoveFirst
<1>. DEFINE t == RemoveAt(s, i)
<1>6. /\ t \in Seq(S)
      /\ Len(t) = Len(s) - 1
      /\ \A j \in 1..Len(t) : t[j] = IF j < i THEN s[j] ELSE s[j + 1]
  <2>. DEFINE a == SubSeq(s, 1, i - 1)
              b == SubSeq(s, i + 1, Len(s))
  <2>1. /\ a \in Seq(S) /\ Len(a) = i - 1
        /\ \A j \in 1..(i - 1) : a[j] = s[j]
    OBVIOUS
  <2>2. /\ b \in Seq(S) /\ Len(b) = Len(s) - i
        /\ \A j \in 1..(Len(s) - i) : b[j] = s[j + i]
    OBVIOUS
  <2>3. t = a \o b
    BY DEF RemoveAt
  <2>. HIDE DEF a, b, t
  <2>4. t \in Seq(S) /\ Len(t) = Len(s) - 1
    BY <2>1, <2>2, <2>3
  <2>5. \A j \in 1..Len(t) : t[j] = IF j < i THEN a[j] ELSE b[j - (i - 1)]
    BY <2>1, <2>2, <2>3
  <2> QED BY <2>1, <2>2, <2>4, <2>5
<1> QED BY <1>5, <1>6

\* Removing an element that is not there changes nothing.
LEMMA RemoveFirstAbsent ==
  ASSUME NEW S, NEW s \in Seq(S), NEW e, e \notin ToSet(s)
  PROVE  RemoveFirst(s, e) = s
BY InToSet DEF RemoveFirst

\* As sets: the rest of the list, still without duplicates.
LEMMA RemoveFirstUnique ==
  ASSUME NEW S, NEW s \in Seq(S), NoDup(s), NEW e \in ToSet(s)
  PROVE  /\ RemoveFirst(s, e) \in Seq(S)
         /\ NoDup(RemoveFirst(s, e))
         /\ ToSet(RemoveFirst(s, e)) = ToSet(s) \ {e}
         /\ Len(RemoveFirst(s, e)) = Len(s) - 1
<1>1. PICK i \in 1..Len(s) : s[i] = e
  BY DEF ToSet
<1>2. \A j \in 1..Len(s) : s[j] = e => j = i
  BY <1>1 DEF NoDup
<1>. DEFINE t == RemoveFirst(s, e)
<1>6. /\ t \in Seq(S)
      /\ Len(t) = Len(s) - 1
      /\ \A j \in 1..Len(t) : t[j] = IF j < i THEN s[j] ELSE s[j + 1]
  BY <1>1, RemoveFirstAt
<1>. HIDE DEF t
<1>7. NoDup(t)
  <2>. SUFFICES ASSUME NEW j \in 1..Len(t), NEW k \in 1..Len(t), t[j] = t[k]
                PROVE  j = k
    BY <1>6, NoDupIndex
  <2>. DEFINE Src(x) == IF x < i THEN x ELSE x + 1
  <2>1. /\ Src(j) \in 1..Len(s) /\ Src(k) \in 1..Len(s)
        /\ t[j] = s[Src(j)] /\ t[k] = s[Src(k)]
    BY <1>6
  <2>2. Src(j) = Src(k)
    <3>. HIDE DEF Src
    <3> QED BY <2>1, NoDupIndex
  <2> QED BY <2>2
<1>8. ToSet(t) = ToSet(s) \ {e}
  <2>1. ToSet(t) \subseteq ToSet(s) \ {e}
    BY <1>1, <1>2, <1>6 DEF ToSet
  <2>2. ASSUME NEW x \in ToSet(s) \ {e} PROVE x \in ToSet(t)
    <3>1. PICK j \in 1..Len(s) : s[j] = x
      BY <2>2 DEF ToSet
    <3>2. CASE j < i
      BY <3>1, <3>2, <1>1, <1>6 DEF ToSet
    <3>3. CASE j > i
      <4>1. j - 1 \in 1..Len(t) /\ t[j - 1] = x
        BY <3>1, <3>3, <1>1, <1>6
      <4> QED BY <4>1, <1>6 DEF ToSet
    <3> QED BY <3>1, <3>2, <3>3, <1>1, <2>2
  <2> QED BY <2>1, <2>2
<1> QED BY <1>6, <1>7, <1>8 DEF t

\* MoveToFront permutes the list.
LEMMA MoveToFrontPermutes ==
  ASSUME NEW S, ll \in Seq(S), NoDup(ll), NEW e \in ToSet(ll)
  PROVE  /\ MoveToFront(e) \in Seq(S)
         /\ NoDup(MoveToFront(e))
         /\ ToSet(MoveToFront(e)) = ToSet(ll)
         /\ Len(MoveToFront(e)) = Len(ll)
<1>. DEFINE r == RemoveFirst(ll, e)
<1>1. /\ r \in Seq(S) /\ NoDup(r)
      /\ ToSet(r) = ToSet(ll) \ {e} /\ Len(r) = Len(ll) - 1
  BY RemoveFirstUnique
<1>2. e \in S
  BY InToSet
<1>3. MoveToFront(e) = Cons(e, r)
  BY DEF MoveToFront
<1>. HIDE DEF r
<1>4. /\ Cons(e, r) \in Seq(S) /\ Len(Cons(e, r)) = Len(r) + 1
      /\ ToSet(Cons(e, r)) = ToSet(r) \cup {e} /\ NoDup(Cons(e, r))
  <2>1. e \notin ToSet(r)
    BY <1>1
  <2>2. r \in Seq(S) /\ NoDup(r)
    BY <1>1
  <2>3. NoDup(r) /\ e \notin ToSet(r) => NoDup(Cons(e, r))
    BY <2>2, <1>2, ConsFacts, Zenon
  <2>4. /\ Cons(e, r) \in Seq(S) /\ Len(Cons(e, r)) = Len(r) + 1
        /\ ToSet(Cons(e, r)) = ToSet(r) \cup {e}
    BY <2>2, <1>2, ConsFacts
  <2> QED BY <2>1, <2>2, <2>3, <2>4
<1>5. Len(ll) \in Nat
  OBVIOUS
<1> QED BY <1>1, <1>3, <1>4, <1>5

\* Pushing a new element and running the eviction loop.
LEMMA PushEvicts ==
  ASSUME NEW S, ll \in Seq(S), NoDup(ll), NEW v \in S, v \notin ToSet(ll)
  PROVE  LET t == Kept(Cons(v, ll)) IN
         /\ t \in Seq(S)
         /\ NoDup(t)
         /\ Len(t) <= capacity
         /\ v \in ToSet(t)
         /\ ToSet(t) = (ToSet(ll) \cup {v}) \ Victims(v)
         /\ Victims(v) \subseteq ToSet(ll)
<1>. DEFINE c == Cons(v, ll)
            n == IF Len(c) <= capacity THEN Len(c) ELSE capacity
            t == SubSeq(c, 1, n)
<1>1. /\ c \in Seq(S) /\ Len(c) = Len(ll) + 1 /\ c[1] = v
      /\ ToSet(c) = ToSet(ll) \cup {v} /\ NoDup(c)
  BY ConsFacts
<1>. HIDE DEF c
<1>4. n \in 1..Len(c) /\ n <= capacity
  BY <1>1, CapacityPositive
<1>. HIDE DEF n
<1>5. /\ t \in Seq(S) /\ Len(t) = n
      /\ \A j \in 1..n : t[j] = c[j]
  BY <1>1, <1>4
<1>6. Kept(c) = t
  BY DEF Kept, n
<1>. HIDE DEF t
<1>7. NoDup(t)
  BY <1>4, <1>5, <1>1 DEF NoDup
<1>8. v \in ToSet(t)
  <2>1. 1 \in 1..Len(t) /\ t[1] = v
    BY <1>1, <1>4, <1>5
  <2> QED BY <2>1, <1>5, InToSet
<1>9. ASSUME NEW x \in ToSet(t) PROVE x \in ToSet(c)
  <2>1. PICK j \in 1..Len(t) : t[j] = x
    BY <1>5, InToSet
  <2>2. j \in 1..Len(c) /\ c[j] = x
    BY <2>1, <1>4, <1>5, <1>1
  <2> QED BY <2>2, <1>1, InToSet
<1>10. Victims(v) = (ToSet(c) \ ToSet(t)) \ {v}
  BY <1>6 DEF Victims, Overflow, c
<1> QED BY <1>1, <1>4, <1>5, <1>6, <1>7, <1>8, <1>9, <1>10 DEF c
-----------------------------------------------------------------------------
(* The inductive invariant.  CacheInv speaks of the locked data only, the  *)
(* other parts tie it to what the goroutines hold between their critical   *)
(* sections.                                                               *)

CacheTypes ==
    /\ items \in [Key -> Val \cup {None}]
    /\ ll \in Seq(Val)
    /\ ent \in [Val -> [key : Key \cup {None}, val : Val \cup {None}]]

ListedEntries == \A e \in ToSet(ll) : ent[e].key \in Key /\ ent[e].val \in Val

CacheInv == CacheTypes /\ NoDup(ll) /\ MapMatchesList /\ Bounded /\ ListedEntries

CallTypes ==
    /\ inflight \in [Key -> Proc \cup {None}]
    /\ pc \in [Proc -> Status]
    /\ key \in [Proc -> Key \cup {None}]
    /\ elem \in [Proc -> Val \cup {None}]
    /\ res \in [Proc -> Result]
    /\ todo \in [Proc -> SUBSET Val]
    /\ born \in [Val -> Key \cup {None}]
    /\ released \subseteq Val
    /\ dropped \subseteq Val

\* A goroutine inside a call knows its key; one about to read, its element.
CallArgs ==
    \A p \in Proc :
        /\ pc[p] \in {"slow", "computing", "computed", "waiting"} => key[p] \in Key
        /\ pc[p] = "read" => elem[p] \in Val /\ ent[elem[p]].val \in Val
        /\ res[p].st = "ok" /\ pc[p] = "computed" => res[p].val \in Val
        /\ pc[p] = "computed" => res[p].st \in {"ok", "err", "panic"}

\* A computed value that is not installed yet is no element of the list, and is
\* in one goroutine's hands only.
Holds(p, v) == pc[p] = "computed" /\ res[p].st = "ok" /\ res[p].val = v
HeldApart ==
    /\ \A e \in ToSet(ll) : born[e] # None
    /\ \A p \in Proc, v \in Val : Holds(p, v) => born[v] # None /\ v \notin ToSet(ll)
    /\ \A p, q \in Proc, v \in Val : Holds(p, v) /\ Holds(q, v) => p = q

IInv == CacheInv /\ CallTypes /\ CallArgs /\ HeldApart /\ SingleFlight /\ WaiterHasLeader

\* What a hit finds: an element that is listed, under its key, with a value.
LEMMA CacheFacts ==
  ASSUME CacheInv, NEW k \in Key, items[k] # None
  PROVE  items[k] \in Val /\ items[k] \in ToSet(ll) /\ ent[items[k]].key = k
         /\ ent[items[k]].val \in Val
BY DEF CacheInv, CacheTypes, MapMatchesList, ListedEntries

\* The cache invariant survives any step that leaves the cache alone.
LEMMA CacheUnchanged ==
  ASSUME CacheInv, UNCHANGED <<items, ll, ent>>
  PROVE  CacheInv' /\ ToSet(ll)' = ToSet(ll)
BY DEF CacheInv, CacheTypes, MapMatchesList, Bounded, ListedEntries, NoDup, ToSet, capacity

\* A promotion reorders the list and may change a value, but no key.
LEMMA PromoteKeeps ==
  ASSUME CacheInv, NEW k \in Key, items[k] # None,
         ll' = MoveToFront(items[k]), UNCHANGED items,
         CacheTypes', \A e \in Val : ent'[e].key = ent[e].key,
         \A e \in ToSet(ll) : ent'[e].val \in Val
  PROVE  CacheInv' /\ ToSet(ll)' = ToSet(ll)
<1>1. /\ ll' \in Seq(Val) /\ NoDup(MoveToFront(items[k])) /\ ToSet(ll') = ToSet(ll)
      /\ Len(ll') = Len(ll)
  BY CacheFacts, MoveToFrontPermutes DEF CacheInv, CacheTypes
<1>2. NoDup(ll)'
  BY <1>1 DEF NoDup
<1>3. MapMatchesList'
  BY <1>1, <1>2 DEF MapMatchesList, CacheInv, NoDup, CacheTypes
<1>4. Bounded'
  BY <1>1 DEF Bounded, CacheInv, capacity
<1>5. ListedEntries'
  <2>1. ToSet(ll)' = ToSet(ll)
    BY <1>1 DEF ToSet
  <2>2. \A e \in ToSet(ll) : e \in Val
    BY DEF ToSet, CacheInv, CacheTypes
  <2> QED BY <2>1, <2>2 DEF ListedEntries, CacheInv
<1>6. ToSet(ll)' = ToSet(ll')
  BY DEF ToSet
<1> QED BY <1>1, <1>2, <1>3, <1>4, <1>5, <1>6 DEF CacheInv

\* Whatever is listed holds a value.
LEMMA ListedIsVal == ASSUME CacheInv, NEW e \in ToSet(ll) PROVE e \in Val
BY DEF CacheInv, CacheTypes, ToSet

\* setLocked keeps the map, the list and the bound in step.
LEMMA SetLockedKeeps ==
  ASSUME CacheInv, NEW k \in Key, NEW v \in Val, v \notin ToSet(ll), SetLocked(k, v)
  PROVE  CacheInv' /\ ToSet(ll)' \subseteq ToSet(ll) \cup {v}
<1>1. CASE items[k] # None
  <2>1. Overwrite(k, v)
    BY <1>1 DEF SetLocked
  <2>. DEFINE e0 == items[k]
  <2>2. /\ e0 \in Val /\ e0 \in ToSet(ll)
        /\ ll' = MoveToFront(e0) /\ UNCHANGED items
        /\ ent' = [ent EXCEPT ![e0].val = v]
    BY <1>1, <2>1, CacheFacts DEF Overwrite
  <2>3. ll' \in Seq(Val)
    BY <2>2, MoveToFrontPermutes DEF CacheInv, CacheTypes
  <2>4. CacheTypes'
    BY <2>2, <2>3 DEF CacheInv, CacheTypes
  <2>5. \A e \in Val : /\ ent'[e].key = ent[e].key
                       /\ ent'[e].val = IF e = e0 THEN v ELSE ent[e].val
    BY <2>2 DEF CacheInv, CacheTypes
  <2>6. \A e \in ToSet(ll) : ent'[e].val \in Val
    BY <2>5, ListedIsVal DEF CacheInv, ListedEntries
  <2> QED BY <1>1, <2>2, <2>4, <2>5, <2>6, PromoteKeeps
<1>2. CASE items[k] = None
  <2>. DEFINE t == Kept(Cons(v, ll))
  <2>1. Insert(k, v)
    BY <1>2 DEF SetLocked
  <2>2. /\ t \in Seq(Val) /\ NoDup(t) /\ Len(t) <= capacity /\ v \in ToSet(t)
        /\ ToSet(t) = (ToSet(ll) \cup {v}) \ Victims(v)
        /\ Victims(v) \subseteq ToSet(ll)
    BY PushEvicts DEF CacheInv, CacheTypes
  <2>3. ll' = t /\ items' = Mapped(k, v) /\ ent' = [ent EXCEPT ![v] = [key |-> k, val |-> v]]
    BY <2>1 DEF Insert
  <2>4. ToSet(ll)' = (ToSet(ll) \cup {v}) \ Victims(v)
    BY <2>2, <2>3 DEF ToSet
  <2>5. NoDup(ll)' /\ Bounded'
    BY <2>2, <2>3 DEF NoDup, Bounded, capacity
  <2>. HIDE DEF t
  <2>6. CacheTypes'
    <3>1. items' \in [Key -> Val \cup {None}]
      BY <2>3 DEF Mapped, CacheInv, CacheTypes
    <3> QED BY <2>2, <2>3, <3>1 DEF CacheInv, CacheTypes
  <2>7. \A e \in Val : ent'[e] = IF e = v THEN [key |-> k, val |-> v] ELSE ent[e]
    BY <2>3 DEF CacheInv, CacheTypes
  <2>8. ListedEntries'
    BY <2>4, <2>7, ListedIsVal DEF ListedEntries, CacheInv
  <2>9. \A j \in Key, e \in Val : items'[j] = e <=> e \in ToSet(ll)' /\ ent'[e].key = j
    <3>. SUFFICES ASSUME NEW j \in Key, NEW e \in Val
                  PROVE  items'[j] = e <=> e \in ToSet(ll)' /\ ent'[e].key = j
      OBVIOUS
    <3>0. items'[j] = IF j = k THEN v
                      ELSE IF \E x \in Victims(v) : ent[x].key = j THEN None ELSE items[j]
      BY <2>3 DEF Mapped
    <3>1. items[j] = e <=> e \in ToSet(ll) /\ ent[e].key = j
      BY DEF CacheInv, MapMatchesList
    <3>2. items[k] # e
      BY <1>2, LRUAssumption
    <3>3. CASE j = k
      BY <3>0, <3>2, <3>3, <2>4, <2>7, <2>2 DEF CacheInv, MapMatchesList
    <3>4. CASE j # k /\ \E x \in Victims(v) : ent[x].key = j
      <4>1. PICK x \in Victims(v) : ent[x].key = j
        BY <3>4
      <4>2. x \in ToSet(ll) /\ x \in Val
        BY <2>2, ListedIsVal
      <4>3. items[j] = x
        BY <4>1, <4>2 DEF CacheInv, MapMatchesList
      <4>4. items'[j] = None /\ e # None
        BY <3>0, <3>4, LRUAssumption
      <4>5. ASSUME e \in ToSet(ll)', ent'[e].key = j PROVE FALSE
        <5>1. e # v
          BY <4>5, <2>7, <3>4
        <5>2. e \in ToSet(ll) /\ e \notin Victims(v) /\ ent[e].key = j
          BY <4>5, <5>1, <2>4, <2>7
        <5> QED BY <5>2, <3>1, <4>3, <4>1
      <4> QED BY <4>4, <4>5
    <3>5. CASE j # k /\ ~\E x \in Victims(v) : ent[x].key = j
      <4>1. items'[j] = items[j]
        BY <3>0, <3>5
      <4>2. e = v => ~(ent'[e].key = j)
        BY <2>7, <3>5
      <4>3. e # v => (e \in ToSet(ll)' <=> e \in ToSet(ll) /\ e \notin Victims(v)) /\ ent'[e] = ent[e]
        BY <2>4, <2>7
      <4>4. ent[e].key = j => e \notin Victims(v)
        BY <3>5
      <4>5. e = v => items[j] # e
        BY <3>1
      <4> QED BY <4>1, <4>2, <4>3, <4>4, <4>5, <3>1
    <3> QED BY <3>3, <3>4, <3>5
  <2>10. MapMatchesList'
    BY <2>5, <2>9 DEF MapMatchesList, NoDup
  <2> QED BY <2>4, <2>5, <2>6, <2>8, <2>10 DEF CacheInv
<1> QED BY <1>1, <1>2

\* Unlinking an element keeps map and list in agreement (Delete).
LEMMA DeleteKeeps ==
  ASSUME CacheInv, NEW k \in Key, items[k] # None,
         ll' = RemoveFirst(ll, items[k]),
         items' = [items EXCEPT ![k] = None], UNCHANGED ent
  PROVE  CacheInv' /\ ToSet(ll)' \subseteq ToSet(ll)
<1>. DEFINE e0 == items[k]
<1>1. e0 \in Val /\ e0 \in ToSet(ll) /\ ent[e0].key = k
  BY CacheFacts
<1>2. /\ ll' \in Seq(Val) /\ NoDup(RemoveFirst(ll, e0)) /\ ToSet(ll') = ToSet(ll) \ {e0}
      /\ Len(ll') = Len(ll) - 1
  BY <1>1, RemoveFirstUnique DEF CacheInv, CacheTypes
<1>3. ToSet(ll)' = ToSet(ll) \ {e0}
  BY <1>2 DEF ToSet
<1>4. NoDup(ll)'
  BY <1>2 DEF NoDup
<1>5. Len(ll)' <= capacity
  BY <1>2, CapacityPositive DEF CacheInv, Bounded, CacheTypes
<1>6. Bounded'
  BY <1>5 DEF Bounded, capacity
<1>7. CacheTypes' /\ ListedEntries'
  BY <1>2, <1>3 DEF CacheInv, CacheTypes, ListedEntries
<1>8. \A j \in Key, e \in Val : items'[j] = e <=> e \in ToSet(ll)' /\ ent'[e].key = j
  BY <1>1, <1>3, LRUAssumption DEF CacheInv, CacheTypes, MapMatchesList
<1>9. MapMatchesList'
  BY <1>4, <1>8 DEF MapMatchesList, NoDup
<1> QED BY <1>3, <1>4, <1>6, <1>7, <1>9 DEF CacheInv

\* Starting new tables keeps map and list in agreement (Purge).
LEMMA PurgeKeeps ==
  ASSUME CacheInv, ll' = <<>>, items' = [k \in Key |-> None], UNCHANGED ent
  PROVE  CacheInv' /\ ToSet(ll)' = {}
<1>1. ToSet(ll)' = {} /\ NoDup(ll)' /\ CacheTypes'
  BY DEF ToSet, NoDup, CacheInv, CacheTypes
<1>2. Bounded'
  <2>1. Len(ll)' = 0
    OBVIOUS
  <2> QED BY <2>1, CapacityPositive DEF Bounded, capacity
<1>3. \A j \in Key, e \in Val : items'[j] # e
  BY LRUAssumption
<1>4. MapMatchesList'
  BY <1>1, <1>3 DEF MapMatchesList, NoDup
<1>5. ListedEntries'
  BY <1>1 DEF ListedEntries
<1> QED BY <1>1, <1>2, <1>4, <1>5 DEF CacheInv
-----------------------------------------------------------------------------
(* Each step keeps the invariant.                                          *)

\* The invariant holds initially.
LEMMA InitInv == Init => IInv
<1>. SUFFICES ASSUME Init PROVE IInv
  OBVIOUS
<1>1. ToSet(ll) = {} /\ Len(ll) = 0 /\ ll \in Seq(Val) /\ NoDup(ll)
  BY DEF Init, ToSet, NoDup
<1>2. CacheInv
  <2>1. CacheTypes
    BY <1>1 DEF Init, CacheTypes
  <2>2. MapMatchesList
    BY <1>1, LRUAssumption DEF Init, MapMatchesList
  <2>3. Bounded
    BY <1>1, CapacityPositive DEF Bounded
  <2> QED BY <1>1, <2>1, <2>2, <2>3 DEF CacheInv, ListedEntries
<1>3. CallTypes
  BY DEF Init, CallTypes, Status, Result, NoResult
<1>4. CallArgs /\ HeldApart
  BY <1>1 DEF Init, CallArgs, HeldApart, Holds, NoResult
<1>5. SingleFlight /\ WaiterHasLeader
  BY LRUAssumption DEF Init, SingleFlight, WaiterHasLeader, Leading
<1> QED BY <1>2, <1>3, <1>4, <1>5 DEF IInv

\* A step of p that leaves the cache, the inflight table and the other goroutines
\* alone, and does not take p into or out of the critical statuses.
LEMMA QuietStep ==
  ASSUME IInv, NEW p \in Proc,
         CacheInv', CallTypes', UNCHANGED <<inflight, born>>,
         ToSet(ll)' \subseteq ToSet(ll),
         \A e \in Val : ent[e].val \in Val => ent'[e].val \in Val,
         \A q \in Proc \ {p} : /\ pc'[q] = pc[q] /\ key'[q] = key[q]
                               /\ elem'[q] = elem[q] /\ res'[q] = res[q],
         pc[p] \in {"idle", "read", "slow", "evicting", "returned"},
         \/ pc'[p] \in {"idle", "evicting", "returned"}
         \/ pc'[p] = "slow" /\ key'[p] \in Key
         \/ pc'[p] = "read" /\ elem'[p] \in Val /\ ent'[elem'[p]].val \in Val
  PROVE  IInv'
<1>1. CallArgs'
  BY DEF CallArgs, IInv, CallTypes
<1>2. HeldApart'
  BY DEF HeldApart, Holds, IInv
<1>3. SingleFlight'
  BY DEF SingleFlight, Leading, IInv
<1>4. WaiterHasLeader'
  BY DEF WaiterHasLeader, IInv
<1> QED BY <1>1, <1>2, <1>3, <1>4 DEF IInv

\* What a lookup does to the goroutine that makes it.
LEMMA LookFacts ==
  ASSUME IInv, NEW p \in Proc, NEW k \in Key, Begin(p, k), Look(p, k)
  PROVE  /\ pc[p] = "idle"
         /\ pc' \in [Proc -> Status] /\ key' \in [Proc -> Key \cup {None}]
         /\ elem' \in [Proc -> Val \cup {None}] /\ res' \in [Proc -> Result]
         /\ \A q \in Proc \ {p} : /\ pc'[q] = pc[q] /\ key'[q] = key[q]
                                  /\ elem'[q] = elem[q] /\ res'[q] = res[q]
         /\ \/ pc'[p] = "returned"
            \/ pc'[p] = "read" /\ elem'[p] \in Val /\ ent[elem'[p]].val \in Val
<1>. USE DEF IInv, CallTypes
<1>1. pc[p] = "idle" /\ key' = [key EXCEPT ![p] = k]
  BY DEF Begin
<1>2. CASE items[k] = None
  <2>1. Miss \in Result /\ "returned" \in Status
    BY DEF Miss, Result, Status
  <2>2. pc' = [pc EXCEPT ![p] = "returned"] /\ res' = [res EXCEPT ![p] = Miss] /\ elem' = elem
    BY <1>2 DEF Look, Finish
  <2> QED BY <1>1, <2>1, <2>2
<1>3. CASE items[k] # None
  <2>1. items[k] \in Val /\ ent[items[k]].val \in Val /\ "read" \in Status
    BY <1>3, CacheFacts DEF Status
  <2>2. pc' = [pc EXCEPT ![p] = "read"] /\ elem' = [elem EXCEPT ![p] = items[k]] /\ res' = res
    BY <1>3 DEF Look
  <2> QED BY <1>1, <2>1, <2>2
<1> QED BY <1>2, <1>3

\* Get and GetNoTouch, up to the unlock, keep the invariant.
LEMMA ReadsKeep ==
  ASSUME IInv, NEW p \in Proc, NEW k \in Key, Get(p, k) \/ GetNoTouch(p, k)
  PROVE  IInv'
<1>. USE DEF IInv
<1>1. Begin(p, k) /\ Look(p, k) /\ UNCHANGED <<items, ent, inflight, todo, history>>
  BY DEF Get, GetNoTouch
<1>2. CacheInv' /\ ToSet(ll)' = ToSet(ll)
  <2>1. CASE Get(p, k) /\ items[k] # None
    <3>1. ll' = MoveToFront(items[k])
      BY <2>1 DEF Get
    <3>2. ll' \in Seq(Val)
      BY <3>1, <2>1, CacheFacts, MoveToFrontPermutes DEF CacheInv, CacheTypes
    <3>3. CacheTypes'
      BY <1>1, <3>2 DEF CacheInv, CacheTypes
    <3> QED BY <1>1, <2>1, <3>1, <3>3, PromoteKeeps DEF CacheInv, ListedEntries
  <2>2. CASE UNCHANGED ll
    BY <1>1, <2>2, CacheUnchanged
  <2> QED BY <2>1, <2>2 DEF Get, GetNoTouch
<1>3. CallTypes'
  BY <1>1, LookFacts DEF CallTypes, history
<1> QED BY <1>1, <1>2, <1>3, LookFacts, QuietStep DEF history

\* ReadValue, Evict, Return and Purge keep the invariant.
LEMMA CallStepsKeep ==
  ASSUME IInv, NEW p \in Proc, ReadValue(p) \/ Evict(p) \/ Return(p) \/ Purge(p)
  PROVE  IInv'
<1>. USE DEF IInv
<1>1. CASE ReadValue(p)
  <2>1. CacheInv' /\ ToSet(ll)' = ToSet(ll)
    BY <1>1, CacheUnchanged DEF ReadValue
  <2>2. CallTypes'
    BY <1>1 DEF ReadValue, Finish, CallTypes, CallArgs, Status, Result, Ok, history
  <2> QED BY <1>1, <2>1, <2>2, QuietStep DEF ReadValue, Finish, CallTypes, history
<1>2. CASE Evict(p)
  <2>1. CacheInv' /\ ToSet(ll)' = ToSet(ll)
    BY <1>2, CacheUnchanged DEF Evict
  <2>2. CallTypes'
    BY <1>2 DEF Evict, CallTypes, Status
  <2> QED BY <1>2, <2>1, <2>2, QuietStep DEF Evict, CallTypes
<1>3. CASE Return(p)
  <2>1. CacheInv' /\ ToSet(ll)' = ToSet(ll)
    BY <1>3, CacheUnchanged DEF Return
  <2>2. CallTypes'
    BY <1>3 DEF Return, CallTypes, Status, Result, NoResult
  <2> QED BY <1>3, <2>1, <2>2, QuietStep DEF Return, CallTypes
<1>4. CASE Purge(p)
  <2>1. CacheInv' /\ ToSet(ll)' = {}
    BY <1>4, PurgeKeeps DEF Purge
  <2>2. {ent[items[j]].val : j \in {i \in Key : items[i] # None}} \subseteq Val
    BY CacheFacts
  <2>3. CallTypes'
    BY <1>4, <2>2 DEF Purge, FinishEvicting, CallTypes, Status, Result, NoResult, history
  <2> QED BY <1>4, <2>1, <2>3, QuietStep DEF Purge, FinishEvicting, CallTypes, history
<1> QED BY <1>1, <1>2, <1>3, <1>4

\* Delete keeps the invariant.
LEMMA DeleteStepKeeps ==
  ASSUME IInv, NEW p \in Proc, NEW k \in Key, Delete(p, k)
  PROVE  IInv'
<1>. USE DEF IInv
<1>1. CacheInv' /\ ToSet(ll)' \subseteq ToSet(ll)
  <2>1. CASE items[k] = None
    BY <2>1, CacheUnchanged DEF Delete
  <2>2. CASE items[k] # None
    BY <2>2, DeleteKeeps DEF Delete
  <2> QED BY <2>1, <2>2
<1>2. CallTypes'
  <2>1. \E gone \in SUBSET Val : FinishEvicting(p, gone, NoResult)
    BY CacheFacts DEF Delete
  <2> QED BY <2>1 DEF Delete, Begin, FinishEvicting, CallTypes, Status, Result, NoResult, history
<1>3. /\ pc[p] = "idle" /\ UNCHANGED <<ent, inflight, born>>
      /\ pc' = [pc EXCEPT ![p] = pc'[p]] /\ key' = [key EXCEPT ![p] = key'[p]]
      /\ UNCHANGED elem /\ res' = [res EXCEPT ![p] = res'[p]]
      /\ pc'[p] \in {"evicting", "returned"}
  BY DEF Delete, Begin, FinishEvicting, CallTypes, history
<1> QED BY <1>1, <1>2, <1>3, QuietStep DEF CallTypes

\* The three ways a lookup that may compute goes on.
LEMMA LookupKeeps ==
  ASSUME IInv, NEW p \in Proc, NEW k \in Key, pc[p] \in {"idle", "slow"},
         key' = [key EXCEPT ![p] = k],
         HitTouch(p, k) \/ HitNoTouch(p, k) \/ Join(p, k) \/ Lead(p, k)
  PROVE  IInv'
<1>. USE DEF IInv
<1>1. CASE HitTouch(p, k) \/ HitNoTouch(p, k)
  <2>1. CacheInv' /\ ToSet(ll)' = ToSet(ll)
    <3>1. CASE HitTouch(p, k)
      <4>1. ll' \in Seq(Val)
        BY <3>1, CacheFacts, MoveToFrontPermutes DEF HitTouch, CacheInv, CacheTypes
      <4>2. CacheTypes'
        BY <3>1, <4>1 DEF HitTouch, CacheInv, CacheTypes
      <4> QED BY <3>1, <4>2, PromoteKeeps DEF HitTouch, CacheInv, ListedEntries
    <3>2. CASE HitNoTouch(p, k)
      BY <3>2, CacheUnchanged DEF HitNoTouch
    <3> QED BY <1>1, <3>1, <3>2
  <2>2. CallTypes'
    BY <1>1, CacheFacts
       DEF HitTouch, HitNoTouch, Finish, CallTypes, Status, Result, Ok, history
  <2> QED BY <1>1, <2>1, <2>2, QuietStep DEF HitTouch, HitNoTouch, Finish, CallTypes, history
<1>2. CASE Join(p, k)
  <2>1. CacheInv' /\ ToSet(ll)' = ToSet(ll)
    BY <1>2, CacheUnchanged DEF Join
  <2>2. CallTypes'
    BY <1>2 DEF Join, CallTypes, Status, history
  <2>3. CallArgs'
    BY <1>2 DEF Join, CallArgs, CallTypes
  <2>4. HeldApart'
    BY <1>2, <2>1 DEF Join, HeldApart, Holds, CallTypes, history
  <2>5. SingleFlight'
    BY <1>2 DEF Join, SingleFlight, Leading, CallTypes
  <2>6. WaiterHasLeader'
    BY <1>2 DEF Join, WaiterHasLeader, CallTypes
  <2> QED BY <2>1, <2>2, <2>3, <2>4, <2>5, <2>6
<1>3. CASE Lead(p, k)
  <2>1. CacheInv' /\ ToSet(ll)' = ToSet(ll)
    BY <1>3, CacheUnchanged DEF Lead
  <2>2. CallTypes'
    BY <1>3 DEF Lead, CallTypes, Status, history
  <2>3. CallArgs'
    BY <1>3 DEF Lead, CallArgs, CallTypes
  <2>4. HeldApart'
    BY <1>3, <2>1 DEF Lead, HeldApart, Holds, CallTypes, history
  <2>5. SingleFlight'
    BY <1>3, LRUAssumption DEF Lead, SingleFlight, Leading, CallTypes
  <2>6. WaiterHasLeader'
    BY <1>3, LRUAssumption DEF Lead, WaiterHasLeader, CallArgs, CallTypes
  <2> QED BY <2>1, <2>2, <2>3, <2>4, <2>5, <2>6
<1> QED BY <1>1, <1>2, <1>3

\* compute, however it ends, keeps the invariant.
LEMMA ComputeKeeps ==
  ASSUME IInv, NEW p \in Proc,
         \/ \E v \in Val : ComputeOk(p, v)
         \/ (\E e \in Err : ComputeFails(p, Failed(e))) \/ ComputeFails(p, Panicked)
  PROVE  IInv'
<1>. USE DEF IInv
<1>1. CASE \E v \in Val : ComputeOk(p, v)
  <2>1. PICK v \in Val : ComputeOk(p, v)
    BY <1>1
  <2>2. CacheInv' /\ ToSet(ll)' = ToSet(ll)
    BY <2>1, CacheUnchanged DEF ComputeOk
  <2>3. key[p] \in Key
    BY <2>1 DEF ComputeOk, CallArgs
  <2>4. CallTypes'
    BY <2>1, <2>3 DEF ComputeOk, CallTypes, Status, Result, Ok
  <2>5. CallArgs'
    BY <2>1, <2>3 DEF ComputeOk, CallArgs, CallTypes, Ok
  <2>6. born[v] = None /\ v \notin ToSet(ll) /\ \A q \in Proc : ~Holds(q, v)
    BY <2>1 DEF ComputeOk, Fresh, HeldApart
  <2>7. \A q \in Proc, w \in Val : Holds(q, w)' <=> (IF q = p THEN w = v ELSE Holds(q, w))
    BY <2>1 DEF ComputeOk, Holds, Ok, CallTypes
  <2>8. HeldApart'
    <3>1. \A w \in Val : born'[w] = IF w = v THEN key[p] ELSE born[w]
      BY <2>1 DEF ComputeOk, CallTypes
    <3>2. \A e \in ToSet(ll)' : born'[e] # None
      BY <2>2, <2>6, <3>1, ListedIsVal DEF HeldApart
    <3>3. \A q \in Proc, w \in Val : Holds(q, w)' => born'[w] # None /\ w \notin ToSet(ll)'
      BY <2>2, <2>3, <2>6, <2>7, <3>1, LRUAssumption DEF HeldApart
    <3>4. \A q, r \in Proc, w \in Val : Holds(q, w)' /\ Holds(r, w)' => q = r
      BY <2>6, <2>7 DEF HeldApart
    <3> QED BY <3>2, <3>3, <3>4 DEF HeldApart
  <2>9. SingleFlight' /\ WaiterHasLeader'
    BY <2>1 DEF ComputeOk, SingleFlight, WaiterHasLeader, Leading, CallTypes
  <2> QED BY <2>2, <2>4, <2>5, <2>8, <2>9
<1>2. CASE (\E e \in Err : ComputeFails(p, Failed(e))) \/ ComputeFails(p, Panicked)
  <2>1. PICK r \in {Failed(e) : e \in Err} \cup {Panicked} : ComputeFails(p, r)
    BY <1>2
  <2>2. CacheInv' /\ ToSet(ll)' = ToSet(ll)
    BY <2>1, CacheUnchanged DEF ComputeFails
  <2>3. CallTypes'
    BY <2>1 DEF ComputeFails, CallTypes, Status, Result, Failed, Panicked, history
  <2>4. CallArgs'
    BY <2>1 DEF ComputeFails, CallArgs, CallTypes, Failed, Panicked
  <2>5. HeldApart'
    BY <2>1, <2>2 DEF ComputeFails, HeldApart, Holds, CallTypes, Failed, Panicked, history
  <2>6. SingleFlight' /\ WaiterHasLeader'
    BY <2>1 DEF ComputeFails, SingleFlight, WaiterHasLeader, Leading, CallTypes
  <2> QED BY <2>2, <2>3, <2>4, <2>5, <2>6
<1> QED BY <1>1, <1>2

\* What setLocked hands to onEvict are values.
LEMMA EvictedAreVals ==
  ASSUME CacheInv, NEW k \in Key, NEW v \in Val, v \notin ToSet(ll)
  PROVE  Evicted(k, v) \subseteq Val
<1>1. Victims(v) \subseteq ToSet(ll)
  BY PushEvicts DEF CacheInv, CacheTypes
<1> QED BY <1>1 DEF Evicted, CacheInv, ListedEntries

\* Set keeps the invariant.
LEMMA SetKeeps ==
  ASSUME IInv, NEW p \in Proc, NEW k \in Key, NEW v \in Val, Set(p, k, v)
  PROVE  IInv'
<1>. USE DEF IInv
<1>1. v \notin ToSet(ll) /\ \A q \in Proc : ~Holds(q, v)
  BY DEF Set, Fresh, HeldApart
<1>2. CacheInv' /\ ToSet(ll)' \subseteq ToSet(ll) \cup {v}
  BY <1>1, SetLockedKeeps DEF Set
<1>3. /\ pc[p] = "idle" /\ UNCHANGED <<inflight, elem>>
      /\ pc' = [pc EXCEPT ![p] = pc'[p]] /\ key' = [key EXCEPT ![p] = k]
      /\ pc'[p] \in {"evicting", "returned"}
      /\ res' = [res EXCEPT ![p] = NoResult]
      /\ born' = [born EXCEPT ![v] = k]
  BY DEF Set, Begin, FinishEvicting, CallTypes
<1>4. \A e \in Val : ent[e].val \in Val => ent'[e].val \in Val
  BY DEF Set, SetLocked, Overwrite, Insert, CacheInv, CacheTypes
<1>5. CallTypes'
  <2>1. Evicted(k, v) \subseteq Val
    BY <1>1, EvictedAreVals
  <2>2. todo' \in [Proc -> SUBSET Val]
    BY <2>1 DEF Set, FinishEvicting, CallTypes
  <2>3. dropped' \subseteq Val
    BY CacheFacts DEF Set, SetLocked, Overwrite, Insert, CallTypes
  <2>4. released' = released
    BY DEF Set
  <2> QED BY <1>3, <2>2, <2>3, <2>4 DEF CallTypes, Status, Result, NoResult
<1>6. CallArgs'
  BY <1>3, <1>4 DEF CallArgs, CallTypes
<1>7. HeldApart'
  <2>1. \A q \in Proc, w \in Val : Holds(q, w)' <=> Holds(q, w)
    BY <1>3 DEF Holds, CallTypes
  <2>2. \A w \in Val : born'[w] = IF w = v THEN k ELSE born[w]
    BY <1>3 DEF CallTypes
  <2>3. \A e \in ToSet(ll)' : born'[e] # None
    BY <1>2, <2>2, ListedIsVal, LRUAssumption DEF HeldApart
  <2> QED BY <1>1, <1>2, <2>1, <2>2, <2>3, LRUAssumption DEF HeldApart
<1>8. SingleFlight' /\ WaiterHasLeader'
  BY <1>3 DEF SingleFlight, WaiterHasLeader, Leading, CallTypes
<1> QED BY <1>2, <1>5, <1>6, <1>7, <1>8

\* The second critical section of a leader keeps the invariant: its inflight entry
\* goes and everybody who waits for its key is woken.
LEMMA InstallKeeps ==
  ASSUME IInv, NEW p \in Proc, Install(p)
  PROVE  IInv'
<1>. USE DEF IInv
<1>. DEFINE k == key[p]
            r == res[p]
            W == Waiters(p)
<1>1. /\ pc[p] = "computed" /\ k \in Key /\ r \in Result
      /\ r.st = "ok" => /\ r.val \in Val /\ r.val \notin ToSet(ll)
                        /\ Holds(p, r.val) /\ born[r.val] # None
  BY DEF Install, CallArgs, CallTypes, HeldApart, Holds
<1>2. CacheInv' /\ ToSet(ll)' \subseteq ToSet(ll) \cup {r.val}
      /\ (r.st # "ok" => ToSet(ll)' = ToSet(ll))
  <2>1. CASE r.st = "ok"
    <3>1. SetLocked(k, r.val)
      BY <2>1 DEF Install, Installs
    <3> QED BY <1>1, <2>1, <3>1, SetLockedKeeps
  <2>2. CASE r.st # "ok"
    BY <2>2, CacheUnchanged DEF Install, Installs
  <2> QED BY <2>1, <2>2
<1>3. /\ inflight' = [inflight EXCEPT ![k] = None]
      /\ UNCHANGED <<key, elem, born, released>>
      /\ \A q \in Proc : /\ q = p => pc'[q] \in {"evicting", "returned"}
                         /\ q # p /\ q \in W => pc'[q] = "returned"
                         /\ q # p /\ q \notin W => pc'[q] = pc[q]
      /\ \A q \in Proc : res'[q] = IF q \in W THEN Shared(r) ELSE res[q]
  BY DEF Install, Uninflight
<1>4. p \notin W /\ \A q \in Proc : q \in W <=> pc[q] = "waiting" /\ key[q] = k
  BY <1>1 DEF Waiters
<1>5. Shared(r) \in Result
  BY <1>1 DEF Shared, Ok, Result
<1>6. CallTypes'
  <2>1. todo' \in [Proc -> SUBSET Val]
    BY <1>1, EvictedAreVals DEF Install, Installs, CallTypes
  <2>2. pc' \in [Proc -> Status] /\ res' \in [Proc -> Result]
    <3>1. pc' = [q \in Proc |-> pc'[q]] /\ res' = [q \in Proc |-> res'[q]]
      BY DEF Install
    <3> QED BY <3>1, <1>3, <1>5 DEF CallTypes, Status
  <2>3. dropped' \subseteq Val
    BY <1>1, CacheFacts DEF Install, SetLocked, Overwrite, Insert, CallTypes
  <2> QED BY <1>1, <1>3, <2>1, <2>2, <2>3 DEF CallTypes
<1>7. \A e \in Val : ent[e].val \in Val => ent'[e].val \in Val
  BY <1>1 DEF Install, Installs, SetLocked, Overwrite, Insert, CacheInv, CacheTypes
<1>. HIDE DEF k, r, W
<1>8. CallArgs'
  BY <1>3, <1>4, <1>7 DEF CallArgs
<1>9. HeldApart'
  <2>1. \A q \in Proc, w \in Val : Holds(q, w)' <=> q # p /\ Holds(q, w)
    BY <1>1, <1>3, <1>4 DEF Holds
  <2>2. \A q \in Proc, w \in Val : q # p /\ Holds(q, w) => ~(r.st = "ok" /\ w = r.val)
    BY <1>1 DEF HeldApart
  <2>3. \A e \in ToSet(ll)' : born'[e] # None
    BY <1>1, <1>2, <1>3 DEF HeldApart
  <2> QED BY <1>2, <1>3, <2>1, <2>2, <2>3 DEF HeldApart
<1>10. SingleFlight'
  <2>. SUFFICES ASSUME NEW j \in Key, NEW q \in Proc
                PROVE  (inflight'[j] = q) <=> (Leading(q)' /\ key'[q] = j)
    BY DEF SingleFlight
  <2>1. inflight[j] = q <=> Leading(q) /\ key[q] = j
    BY DEF SingleFlight
  <2>2. inflight[k] = p
    BY <1>1 DEF SingleFlight, Leading, k
  <2>3. inflight'[j] = IF j = k THEN None ELSE inflight[j]
    BY <1>3 DEF CallTypes
  <2>4. Leading(q)' <=> q # p /\ Leading(q)
    BY <1>1, <1>3, <1>4 DEF Leading
  <2>5. inflight[k] = q => q = p
    BY <2>2
  <2>6. q # None
    BY LRUAssumption
  <2>7. key'[q] = key[q] /\ key[p] = k
    BY <1>3 DEF k
  <2>8. CASE j = k
    <3>1. q # p => ~(Leading(q) /\ key[q] = j)
      BY <2>1, <2>5, <2>8
    <3> QED BY <3>1, <2>3, <2>4, <2>6, <2>7, <2>8
  <2>9. CASE j # k
    BY <2>1, <2>3, <2>4, <2>7, <2>9
  <2> QED BY <2>8, <2>9
<1>11. WaiterHasLeader'
  BY <1>1, <1>3, <1>4, <1>8 DEF WaiterHasLeader, CallArgs, CallTypes
<1> QED BY <1>2, <1>6, <1>8, <1>9, <1>10, <1>11
-----------------------------------------------------------------------------
\* Every step keeps the invariant.
LEMMA NextInv == IInv /\ [Next]_vars => IInv'
<1>. SUFFICES ASSUME IInv, [Next]_vars PROVE IInv'
  OBVIOUS
<1>1. CASE UNCHANGED vars
  BY <1>1, CacheUnchanged DEF vars, IInv, CallTypes, CallArgs, HeldApart, Holds,
     SingleFlight, Leading, WaiterHasLeader
<1>2. ASSUME NEW p \in Proc, Call(p) PROVE IInv'
  <2>1. ASSUME NEW k \in Key, Get(p, k) \/ GetNoTouch(p, k) PROVE IInv'
    BY <2>1, ReadsKeep
  <2>2. ASSUME NEW k \in Key, GetOrCompute(p, k) PROVE IInv'
    BY <2>2, LookupKeeps DEF GetOrCompute, Begin
  <2>3. ASSUME NEW k \in Key, GetOrComputeNoTouch(p, k) PROVE IInv'
    <3>1. CASE HitNoTouch(p, k)
      BY <2>3, <3>1, LookupKeeps DEF GetOrComputeNoTouch, Begin
    <3>2. CASE ~HitNoTouch(p, k)
      <4>1. /\ pc[p] = "idle" /\ UNCHANGED <<items, ll, ent, inflight, elem, res, todo, history>>
            /\ pc' = [pc EXCEPT ![p] = "slow"] /\ key' = [key EXCEPT ![p] = k]
        BY <2>3, <3>2 DEF GetOrComputeNoTouch, Begin
      <4>2. CacheInv' /\ ToSet(ll)' = ToSet(ll)
        BY <4>1, CacheUnchanged DEF IInv
      <4>3. CallTypes'
        BY <4>1 DEF IInv, CallTypes, Status, history
      <4> QED BY <4>1, <4>2, <4>3, QuietStep DEF IInv, CallTypes, history
    <3> QED BY <3>1, <3>2
  <2>4. ASSUME NEW k \in Key, Delete(p, k) PROVE IInv'
    BY <2>4, DeleteStepKeeps
  <2>5. ASSUME NEW k \in Key, NEW v \in Val, Set(p, k, v) PROVE IInv'
    BY <2>5, SetKeeps
  <2>6. CASE Purge(p)
    BY <2>6, CallStepsKeep
  <2> QED BY <1>2, <2>1, <2>2, <2>3, <2>4, <2>5, <2>6 DEF Call
<1>3. ASSUME NEW p \in Proc, Work(p) PROVE IInv'
  <2>1. CASE ReadValue(p) \/ Evict(p)
    BY <2>1, CallStepsKeep
  <2>2. CASE SlowPath(p)
    <3>1. pc[p] = "slow" /\ key[p] \in Key /\ key' = [key EXCEPT ![p] = key[p]]
      BY <2>2 DEF SlowPath, IInv, CallArgs, CallTypes
    <3> QED BY <2>2, <3>1, LookupKeeps DEF SlowPath
  <2>3. CASE \/ \E v \in Val : ComputeOk(p, v)
             \/ (\E e \in Err : ComputeFails(p, Failed(e))) \/ ComputeFails(p, Panicked)
    BY <2>3, ComputeKeeps
  <2>4. CASE Install(p)
    BY <2>4, InstallKeeps
  <2> QED BY <1>3, <2>1, <2>2, <2>3, <2>4 DEF Work
<1>4. ASSUME NEW p \in Proc, Return(p) PROVE IInv'
  BY <1>4, CallStepsKeep
<1> QED BY <1>1, <1>2, <1>3, <1>4 DEF Next

\* The invariant is inductive: it holds in every reachable state.
THEOREM Invariance == Spec => []IInv
BY InitInv, NextInv, PTL DEF Spec

\* Type correctness.
THEOREM TypeCorrect == Spec => []TypeOK
<1>1. IInv => TypeOK
  BY DEF IInv, CacheInv, CacheTypes, CallTypes, TypeOK
<1> QED BY <1>1, Invariance, PTL

\* The map and the list always describe the same cache.
THEOREM MapListAgreement == Spec => []MapMatchesList
<1>1. IInv => MapMatchesList
  BY DEF IInv, CacheInv
<1> QED BY <1>1, Invariance, PTL

\* The cache never holds more than its capacity, whatever was requested.
THEOREM Boundedness == Spec => []Bounded
<1>1. IInv => Bounded
  BY DEF IInv, CacheInv
<1> QED BY <1>1, Invariance, PTL

\* At most one goroutine computes a key, and inflight names it.
THEOREM SingleFlightCorrect == Spec => []SingleFlight
<1>1. IInv => SingleFlight
  BY DEF IInv
<1> QED BY <1>1, Invariance, PTL

\* Every waiter has a leader that will wake it.
THEOREM NoLostWaiter == Spec => []WaiterHasLeader
<1>1. IInv => WaiterHasLeader
  BY DEF IInv
<1> QED BY <1>1, Invariance, PTL
-----------------------------------------------------------------------------
(***************************************************************************)
(* The resources: every value a compute or a Set brings is accounted for   *)
(* from its birth to its release, and LRU implements ResourceCache.        *)
(***************************************************************************)

\* Counting the values of a duplicate-free list of elements that differ in value.
LEMMA CountValues ==
  ASSUME NEW S, NEW s \in Seq(S), NoDup(s), NEW f,
         \A x, y \in ToSet(s) : f[x] = f[y] => x = y
  PROVE  /\ IsFiniteSet({f[x] : x \in ToSet(s)})
         /\ Cardinality({f[x] : x \in ToSet(s)}) = Len(s)
<1>. DEFINE T == {f[x] : x \in ToSet(s)}
            b == [i \in 1..Len(s) |-> f[s[i]]]
<1>1. b \in Injection(1..Len(s), T)
  <2>1. b \in [1..Len(s) -> T]
    BY InToSet
  <2>2. ASSUME NEW i \in 1..Len(s), NEW j \in 1..Len(s), b[i] = b[j] PROVE i = j
    <3>1. s[i] \in ToSet(s) /\ s[j] \in ToSet(s) /\ f[s[i]] = f[s[j]]
      BY <2>2, InToSet
    <3>2. s[i] = s[j]
      BY <3>1
    <3> QED BY <3>2, NoDupIndex
  <2> QED BY <2>1, <2>2 DEF Injection, IsInjective
<1>2. b \in Surjection(1..Len(s), T)
  <2>1. b \in [1..Len(s) -> T]
    BY InToSet
  <2>2. ASSUME NEW t \in T PROVE \E i \in 1..Len(s) : b[i] = t
    <3>1. PICK x \in ToSet(s) : t = f[x]
      OBVIOUS
    <3>2. PICK i \in 1..Len(s) : s[i] = x
      BY InToSet
    <3> QED BY <3>1, <3>2
  <2> QED BY <2>1, <2>2 DEF Surjection
<1>3. ExistsBijection(1..Len(s), T)
  BY <1>1, <1>2 DEF ExistsBijection, Bijection
<1>. HIDE DEF T
<1>4. IsFiniteSet(T) /\ Cardinality(T) = Len(s)
  BY <1>3, FS_NatBijection, FS_CountingElements
<1> QED BY <1>4 DEF T
-----------------------------------------------------------------------------
\* The values computed and not installed yet, and those that left the cache.
HeldVals == {v \in Val : \E p \in Proc : Holds(p, v)}
Gone     == released \cup dropped \cup PendingVals

\* Every value that was ever produced is in exactly one place.
Accounted ==
    /\ \A p, q \in Proc : p # q => todo[p] \cap todo[q] = {}
    /\ released \cap dropped = {} /\ PendingVals \cap (released \cup dropped) = {}
    /\ CachedVals \cap Gone = {} /\ HeldVals \cap Gone = {} /\ CachedVals \cap HeldVals = {}
    /\ \A v \in Val : born[v] # None <=> v \in Gone \cup CachedVals \cup HeldVals

\* The stage ResourceCache sees, read off the places.
StagesAgree ==
    \A v \in Val :
        /\ StageOf(v) \in {"new", "held", "cached", "retired", "released", "dropped"}
        /\ StageOf(v) = "new"      <=> born[v] = None
        /\ StageOf(v) = "released" <=> v \in released
        /\ StageOf(v) = "dropped"  <=> v \in dropped
        /\ StageOf(v) = "retired"  <=> v \in PendingVals
        /\ StageOf(v) = "cached"   <=> v \in CachedVals
        /\ StageOf(v) = "held"     <=> v \in HeldVals

LEMMA Stages == Accounted => StagesAgree
<1>. SUFFICES ASSUME Accounted, NEW v \in Val
              PROVE  /\ StageOf(v) \in {"new", "held", "cached", "retired", "released", "dropped"}
                     /\ StageOf(v) = "new"      <=> born[v] = None
                     /\ StageOf(v) = "released" <=> v \in released
                     /\ StageOf(v) = "dropped"  <=> v \in dropped
                     /\ StageOf(v) = "retired"  <=> v \in PendingVals
                     /\ StageOf(v) = "cached"   <=> v \in CachedVals
                     /\ StageOf(v) = "held"     <=> v \in HeldVals
  BY DEF StagesAgree
<1>1. /\ born[v] # None <=> \/ v \in released \/ v \in dropped \/ v \in PendingVals
                            \/ v \in CachedVals \/ v \in HeldVals
      /\ ~(v \in released /\ v \in dropped)
      /\ ~(v \in PendingVals /\ (v \in released \/ v \in dropped))
      /\ ~(v \in CachedVals /\ (v \in PendingVals \/ v \in released \/ v \in dropped))
      /\ ~(v \in HeldVals /\ (v \in PendingVals \/ v \in released \/ v \in dropped))
      /\ ~(v \in HeldVals /\ v \in CachedVals)
  BY Zenon DEF Accounted, Gone
<1> QED BY <1>1 DEF StageOf

\* The same of the state after a step.
LEMMA StagesNext == Accounted' => StagesAgree'
BY Stages, PTL
-----------------------------------------------------------------------------
(* Every step of the cache moves values in one of five ways.               *)

Stays ==
    /\ CachedVals' = CachedVals /\ HeldVals' = HeldVals
    /\ UNCHANGED <<born, todo, released, dropped>>

Makes(v, k) ==
    /\ born[v] = None
    /\ \A w \in HeldVals : born[w] # k
    /\ born' = [born EXCEPT ![v] = k]
    /\ HeldVals' = HeldVals \cup {v} /\ CachedVals' = CachedVals
    /\ UNCHANGED <<todo, released, dropped>>

Stores(p, k, v, over, gone) ==
    /\ born[v] = None \/ (v \in HeldVals /\ born[v] = k)
    /\ born' = [born EXCEPT ![v] = k]
    /\ over = {w \in CachedVals : born[w] = k}
    /\ gone \subseteq CachedVals \ over
    /\ CachedVals' = (CachedVals \ (over \cup gone)) \cup {v}
    /\ HeldVals' = HeldVals \ {v}
    /\ todo[p] = {} /\ todo' = [todo EXCEPT ![p] = gone]
    /\ dropped' = dropped \cup over
    /\ released' = released
    /\ Cardinality(CachedVals') <= capacity
    /\ gone # {} => Cardinality(CachedVals') = capacity

Takes(p, gone) ==
    /\ gone \subseteq CachedVals
    /\ CachedVals' = CachedVals \ gone /\ HeldVals' = HeldVals
    /\ todo[p] = {} /\ todo' = [todo EXCEPT ![p] = gone]
    /\ UNCHANGED <<born, released, dropped>>

Releases(p, v) ==
    /\ v \in todo[p]
    /\ todo' = [todo EXCEPT ![p] = @ \ {v}]
    /\ released' = released \cup {v}
    /\ CachedVals' = CachedVals /\ HeldVals' = HeldVals
    /\ UNCHANGED <<born, dropped>>

\* The types the five moves rely on.
PlaceTypes ==
    /\ todo \in [Proc -> SUBSET Val]
    /\ born \in [Val -> Key \cup {None}]
    /\ released \subseteq Val /\ dropped \subseteq Val /\ CachedVals \subseteq Val

\* A value is pending when some goroutine has yet to release it.
LEMMA InPending == \A v : v \in PendingVals <=> \E p \in Proc : v \in todo[p]
BY DEF PendingVals

LEMMA StaysKeeps ==
  ASSUME Accounted, Stays
  PROVE  Accounted' /\ UNCHANGED RC!rcVars
<1>1. PendingVals' = PendingVals
  BY DEF Stays, PendingVals
<1>2. Accounted'
  BY <1>1 DEF Stays, Accounted, Gone
<1>3. \A v \in Val : StageOf(v)' = StageOf(v)
  BY <1>1 DEF Stays, StageOf
<1> QED BY <1>2, <1>3 DEF RC!rcVars, Stays

LEMMA MakesKeeps ==
  ASSUME Accounted, PlaceTypes, NEW v \in Val, NEW k \in Key, Makes(v, k)
  PROVE  Accounted' /\ RC!Produce(k, v)
<1>1. PendingVals' = PendingVals
  BY DEF Makes, PendingVals
<1>2. \A w \in Val : born'[w] = IF w = v THEN k ELSE born[w]
  BY DEF Makes, PlaceTypes
<1>3. v \notin Gone /\ v \notin CachedVals /\ v \notin HeldVals
  BY DEF Makes, Accounted
<1>4. Accounted'
  <2>1. Gone' = Gone
    BY <1>1 DEF Gone, Makes
  <2>2. \A w \in Val : born'[w] # None <=> w \in (Gone \cup CachedVals \cup HeldVals)'
    BY <1>2, <2>1, LRUAssumption DEF Makes, Accounted
  <2> QED BY <1>1, <1>3, <2>1, <2>2 DEF Accounted, Makes
<1>5. StagesAgree /\ StagesAgree'
  BY <1>4, Stages, StagesNext
<1>6. \A w \in Val : StageOf(w)' = IF w = v THEN "held" ELSE StageOf(w)
  BY <1>1, <1>2, <1>5 DEF StagesAgree, Makes
<1>7. StageOf(v) = "new"
  BY <1>5 DEF StagesAgree, Makes
<1>8. \A w \in Val : StageOf(w) = "held" => born[w] # k
  BY <1>5 DEF StagesAgree, Makes
<1> QED BY <1>4, <1>6, <1>7, <1>8 DEF RC!Produce, RC!In, Makes
\* Values that leave the cache are pending with the goroutine that took them out.
LEMMA SetAside ==
  ASSUME PlaceTypes, NEW p \in Proc, todo[p] = {},
         NEW gone, todo' = [todo EXCEPT ![p] = gone]
  PROVE  /\ \A q \in Proc : todo'[q] = IF q = p THEN gone ELSE todo[q]
         /\ PendingVals' = PendingVals \cup gone
<1>1. \A q \in Proc : todo'[q] = IF q = p THEN gone ELSE todo[q]
  BY DEF PlaceTypes
<1>2. \A v : v \in PendingVals' <=> \E q \in Proc : v \in todo'[q]
  BY DEF PendingVals
<1>3. \A v : v \in PendingVals' <=> v \in PendingVals \/ v \in gone
  BY <1>1, <1>2, InPending
<1> QED BY <1>1, <1>3

\* ResourceCache counts as FiniteSets does.
LEMMA SameCardinality == \A S : RC!Cardinality(S) = Cardinality(S)
BY DEF RC!Cardinality, Cardinality

LEMMA StoresKeeps ==
  ASSUME Accounted, PlaceTypes, NEW p \in Proc, NEW k \in Key, NEW v \in Val,
         NEW over, NEW gone, Stores(p, k, v, over, gone)
  PROVE  Accounted' /\ gone \in SUBSET RC!In("cached") /\ RC!Put(k, v, gone)
<1>1. /\ \A q \in Proc : todo'[q] = IF q = p THEN gone ELSE todo[q]
      /\ PendingVals' = PendingVals \cup gone
  BY SetAside DEF Stores
<1>2. \A w \in Val : born'[w] = IF w = v THEN k ELSE born[w]
  BY DEF Stores, PlaceTypes
<1>3. v \notin Gone /\ v \notin CachedVals
  BY DEF Stores, Accounted
<1>4. /\ over \subseteq CachedVals /\ gone \subseteq CachedVals /\ over \cap gone = {}
      /\ Gone' = Gone \cup over \cup gone
  BY <1>1 DEF Stores, Gone
<1>5. Accounted'
  <2>1. \A q, r \in Proc : q # r => todo'[q] \cap todo'[r] = {}
    <3>1. \A q \in Proc : gone \cap todo[q] = {}
      BY <1>4, InPending DEF Accounted, Gone
    <3> QED BY <1>1, <3>1 DEF Accounted
  <2>2. /\ released' \cap dropped' = {} /\ PendingVals' \cap (released' \cup dropped') = {}
    BY <1>1, <1>4 DEF Accounted, Stores, Gone
  <2>3. /\ CachedVals' \cap Gone' = {} /\ HeldVals' \cap Gone' = {}
        /\ CachedVals' \cap HeldVals' = {}
    BY <1>3, <1>4 DEF Accounted, Stores
  <2>4. \A w \in Val : born'[w] # None <=> w \in (Gone \cup CachedVals \cup HeldVals)'
    BY <1>2, <1>3, <1>4, LRUAssumption DEF Accounted, Stores
  <2> QED BY <2>1, <2>2, <2>3, <2>4 DEF Accounted
<1>6. StagesAgree /\ StagesAgree'
  BY <1>5, Stages, StagesNext
<1>7. \A w \in Val : StageOf(w)' = IF w = v THEN "cached"
                                   ELSE IF w \in over THEN "dropped"
                                   ELSE IF w \in gone THEN "retired" ELSE StageOf(w)
  <2>. SUFFICES ASSUME NEW w \in Val
                PROVE  StageOf(w)' = IF w = v THEN "cached"
                                     ELSE IF w \in over THEN "dropped"
                                     ELSE IF w \in gone THEN "retired" ELSE StageOf(w)
    OBVIOUS
  <2>1. CASE w = v \/ w \in over \/ w \in gone
    BY <1>1, <1>4, <1>6, <2>1 DEF StagesAgree, Stores
  <2>2. CASE ~(w = v \/ w \in over \/ w \in gone)
    BY <1>1, <1>2, <1>4, <1>6, <2>2 DEF StagesAgree, Stores
  <2> QED BY <2>1, <2>2
<1>8. {w \in Val : StageOf(w) = "cached"} = CachedVals
  BY <1>6 DEF StagesAgree, PlaceTypes
<1>9. \/ StageOf(v) = "held" /\ born[v] = k
      \/ StageOf(v) = "new"
  BY <1>6 DEF StagesAgree, Stores
<1>10. RC!In("cached") = CachedVals
  BY <1>8 DEF RC!In
<1>11. RC!Put(k, v, gone)
  <2>1. {w \in RC!In("cached") : born[w] = k} = over
    BY <1>10 DEF Stores
  <2>2. [w \in Val |-> StageOf(w)'] =
           [w \in Val |-> IF w = v THEN "cached"
                          ELSE IF w \in over THEN "dropped"
                          ELSE IF w \in gone THEN "retired"
                          ELSE [u \in Val |-> StageOf(u)][w]]
    BY <1>7
  <2>3. CachedVals' = (CachedVals \ (over \cup gone)) \cup {v}
    BY DEF Stores
  <2>4. gone \subseteq CachedVals \ over
    BY DEF Stores
  <2>5. \/ [u \in Val |-> StageOf(u)][v] = "held" /\ born[v] = k
        \/ [u \in Val |-> StageOf(u)][v] = "new"
    BY <1>9
  <2>6. /\ Cardinality(CachedVals') <= capacity
        /\ gone # {} => Cardinality(CachedVals') = capacity
        /\ born' = [born EXCEPT ![v] = k]
    BY DEF Stores
  <2> QED BY <1>10, <2>1, <2>2, <2>3, <2>4, <2>5, <2>6, SameCardinality DEF RC!Put
<1> QED BY <1>4, <1>5, <1>10, <1>11

LEMMA TakesKeeps ==
  ASSUME Accounted, PlaceTypes, NEW p \in Proc, NEW gone, Takes(p, gone)
  PROVE  Accounted' /\ gone \in SUBSET RC!In("cached") /\ RC!Retire(gone)
<1>1. /\ \A q \in Proc : todo'[q] = IF q = p THEN gone ELSE todo[q]
      /\ PendingVals' = PendingVals \cup gone
  BY SetAside DEF Takes
<1>2. gone \subseteq CachedVals /\ Gone' = Gone \cup gone
  BY <1>1 DEF Takes, Gone
<1>3. Accounted'
  <2>1. \A q, r \in Proc : q # r => todo'[q] \cap todo'[r] = {}
    <3>1. \A q \in Proc : gone \cap todo[q] = {}
      BY <1>2, InPending DEF Accounted, Gone
    <3> QED BY <1>1, <3>1 DEF Accounted
  <2>2. released' \cap dropped' = {} /\ PendingVals' \cap (released' \cup dropped') = {}
    BY <1>1, <1>2 DEF Accounted, Takes, Gone
  <2>3. /\ CachedVals' \cap Gone' = {} /\ HeldVals' \cap Gone' = {}
        /\ CachedVals' \cap HeldVals' = {}
    BY <1>2 DEF Accounted, Takes
  <2>4. \A w \in Val : born'[w] # None <=> w \in (Gone \cup CachedVals \cup HeldVals)'
    BY <1>2 DEF Accounted, Takes
  <2> QED BY <2>1, <2>2, <2>3, <2>4 DEF Accounted
<1>4. StagesAgree /\ StagesAgree'
  BY <1>3, Stages, StagesNext
<1>5. \A w \in Val : StageOf(w)' = IF w \in gone THEN "retired" ELSE StageOf(w)
  <2>. SUFFICES ASSUME NEW w \in Val
                PROVE  StageOf(w)' = IF w \in gone THEN "retired" ELSE StageOf(w)
    OBVIOUS
  <2>1. CASE w \in gone
    BY <1>1, <1>4, <2>1 DEF StagesAgree
  <2>2. CASE w \notin gone
    BY <1>1, <1>4, <2>2 DEF StagesAgree, Takes
  <2> QED BY <2>1, <2>2
<1>6. {w \in Val : StageOf(w) = "cached"} = CachedVals
  BY <1>4 DEF StagesAgree, PlaceTypes
<1>7. RC!In("cached") = CachedVals
  BY <1>6 DEF RC!In
<1> QED BY <1>2, <1>3, <1>5, <1>7 DEF RC!Retire, Takes

LEMMA ReleasesKeeps ==
  ASSUME Accounted, PlaceTypes, NEW p \in Proc, NEW v \in Val, Releases(p, v)
  PROVE  Accounted' /\ RC!Release(v)
<1>1. \A q \in Proc : todo'[q] = IF q = p THEN todo[p] \ {v} ELSE todo[q]
  BY DEF Releases, PlaceTypes
<1>2. PendingVals' = PendingVals \ {v}
  <2>1. \A w : w \in PendingVals' <=> \E q \in Proc : w \in todo'[q]
    BY DEF PendingVals
  <2>2. \A q \in Proc : q # p => v \notin todo[q]
    BY DEF Accounted, Releases
  <2>3. \A w : w \in PendingVals' <=> w \in PendingVals /\ w # v
    BY <1>1, <2>1, <2>2, InPending
  <2> QED BY <2>3
<1>3. v \in PendingVals
  BY InPending DEF Releases
<1>4. Gone' = Gone
  BY <1>2, <1>3 DEF Releases, Gone
<1>5. Accounted'
  <2>1. \A q, r \in Proc : q # r => todo'[q] \cap todo'[r] = {}
    BY <1>1 DEF Accounted
  <2>2. released' \cap dropped' = {} /\ PendingVals' \cap (released' \cup dropped') = {}
    BY <1>2, <1>3 DEF Accounted, Releases
  <2> QED BY <1>4, <2>1, <2>2 DEF Accounted, Releases
<1>6. StagesAgree /\ StagesAgree'
  BY <1>5, Stages, StagesNext
<1>7. \A w \in Val : StageOf(w)' = IF w = v THEN "released" ELSE StageOf(w)
  <2>. SUFFICES ASSUME NEW w \in Val
                PROVE  StageOf(w)' = IF w = v THEN "released" ELSE StageOf(w)
    OBVIOUS
  <2>1. CASE w = v
    BY <1>6, <2>1 DEF StagesAgree, Releases
  <2>2. CASE w # v
    BY <1>2, <1>6, <2>2 DEF StagesAgree, Releases
  <2> QED BY <2>1, <2>2
<1>8. StageOf(v) = "retired"
  BY <1>3, <1>6 DEF StagesAgree
<1> QED BY <1>5, <1>7, <1>8 DEF RC!Release, Releases
-----------------------------------------------------------------------------
(* What ties the places to the list, the entries and the calls.            *)

\* An entry's value was produced for its key, and a value that never was in the
\* cache has not given its name to an element.
EntriesTrue ==
    /\ \A e \in Val : ent[e].val \in Val =>
          ent[e].key \in Key /\ born[ent[e].val] = ent[e].key
    /\ \A v \in Val : born[v] = None \/ v \in HeldVals => ent[v].key = None

\* What a call holds is of its own key, and it has values to release exactly while
\* it is at that.
CallTrue(p) ==
    /\ pc[p] = "read" => key[p] \in Key /\ ent[elem[p]].key = key[p]
    /\ pc[p] \in {"computed", "evicting", "returned"} /\ res[p].st = "ok" /\ res[p].val # None =>
          key[p] \in Key /\ res[p].val \in Val /\ born[res[p].val] = key[p]
    /\ todo[p] # {} <=> pc[p] = "evicting"
CallsTrue == \A p \in Proc : CallTrue(p)

RInv == IInv /\ Accounted /\ EntriesTrue /\ CallsTrue

LEMMA HavePlaceTypes == IInv => PlaceTypes
BY DEF IInv, CacheInv, ListedEntries, CallTypes, PlaceTypes, CachedVals

\* No two listed elements hold the same value.
LEMMA DistinctVals ==
  ASSUME CacheInv, EntriesTrue, NEW e \in ToSet(ll), NEW f \in ToSet(ll),
         ent[e].val = ent[f].val
  PROVE  e = f
<1>1. e \in Val /\ f \in Val /\ ent[e].val \in Val
  BY ListedIsVal DEF CacheInv, ListedEntries
<1>2. ent[e].key \in Key /\ ent[f].key = ent[e].key
  BY <1>1 DEF EntriesTrue
<1>3. items[ent[e].key] = e /\ items[ent[e].key] = f
  BY <1>1, <1>2 DEF CacheInv, MapMatchesList
<1> QED BY <1>3

\* The cache holds as many values as its list has elements.
LEMMA CachedCount ==
  CacheInv /\ EntriesTrue => IsFiniteSet(CachedVals) /\ Cardinality(CachedVals) = Len(ll)
<1>. SUFFICES ASSUME CacheInv, EntriesTrue
              PROVE  IsFiniteSet(CachedVals) /\ Cardinality(CachedVals) = Len(ll)
  OBVIOUS
<1>. DEFINE f == [e \in Val |-> ent[e].val]
<1>1. \A e \in ToSet(ll) : f[e] = ent[e].val
  BY ListedIsVal
<1>2. CachedVals = {f[e] : e \in ToSet(ll)}
  BY <1>1 DEF CachedVals
<1>3. \A x, y \in ToSet(ll) : f[x] = f[y] => x = y
  BY <1>1, DistinctVals
<1>4. ll \in Seq(Val) /\ NoDup(ll)
  BY DEF CacheInv, CacheTypes
<1>. HIDE DEF f
<1> QED BY <1>2, <1>3, <1>4, CountValues

\* The same of the state after a step.
LEMMA CachedCountNext == (CacheInv /\ EntriesTrue)' => (Cardinality(CachedVals) = Len(ll))'
BY CachedCount, PTL

\* The cached values of a key: the one its element holds.
OfKey(k) == {w \in CachedVals : born[w] = k}

LEMMA CachedOfKey ==
  ASSUME CacheInv, EntriesTrue, NEW k \in Key
  PROVE  OfKey(k) = IF items[k] = None THEN {} ELSE {ent[items[k]].val}
<1>1. ASSUME NEW w \in CachedVals, born[w] = k
      PROVE  items[k] # None /\ w = ent[items[k]].val
  <2>1. PICK e \in ToSet(ll) : w = ent[e].val
    BY DEF CachedVals
  <2>2. e \in Val /\ ent[e].key = k
    BY <1>1, <2>1, ListedIsVal DEF EntriesTrue, CacheInv, ListedEntries
  <2>3. items[k] = e
    BY <2>2 DEF CacheInv, MapMatchesList
  <2> QED BY <2>1, <2>2, <2>3, LRUAssumption
<1>2. ASSUME items[k] # None
      PROVE  ent[items[k]].val \in CachedVals /\ born[ent[items[k]].val] = k
  <2>1. items[k] \in Val /\ items[k] \in ToSet(ll) /\ ent[items[k]].key = k
        /\ ent[items[k]].val \in Val
    BY <1>2, CacheFacts
  <2> QED BY <2>1 DEF CachedVals, EntriesTrue
<1> QED BY <1>1, <1>2 DEF OfKey

\* How long the list gets when an element is pushed, and what stands where.
LEMMA PushLength ==
  ASSUME NEW S, ll \in Seq(S), NEW v \in S
  PROVE  LET t == Kept(Cons(v, ll)) IN
         /\ Len(t) = IF Len(ll) < capacity THEN Len(ll) + 1 ELSE capacity
         /\ \A j \in 1..Len(t) : t[j] = IF j = 1 THEN v ELSE ll[j - 1]
         /\ Len(ll) < capacity => Victims(v) = {}
<1>. DEFINE c == Cons(v, ll)
            n == IF Len(c) <= capacity THEN Len(c) ELSE capacity
            t == SubSeq(c, 1, n)
<1>1. /\ c \in Seq(S) /\ Len(c) = Len(ll) + 1
      /\ \A j \in 1..Len(c) : c[j] = IF j = 1 THEN v ELSE ll[j - 1]
  BY DEF Cons
<1>2. Kept(c) = t
  BY DEF Kept
<1>. HIDE DEF c
<1>3. n \in 1..Len(c) /\ n = IF Len(ll) < capacity THEN Len(ll) + 1 ELSE capacity
  BY <1>1, CapacityPositive
<1>4. Len(ll) < capacity => n = Len(c)
  BY <1>1, <1>3
<1>. HIDE DEF n
<1>5. t \in Seq(S) /\ Len(t) = n /\ \A j \in 1..n : t[j] = c[j]
  BY <1>1, <1>3
<1>6. ASSUME Len(ll) < capacity PROVE Victims(v) = {}
  <2>1. n = Len(c)
    BY <1>4, <1>6
  <2>2. \A j \in 1..Len(c) : t[j] = c[j]
    BY <2>1, <1>5
  <2>. HIDE DEF t
  <2>3. ASSUME NEW x \in ToSet(c) PROVE x \in ToSet(t)
    <3>1. PICK j \in 1..Len(c) : c[j] = x
      BY <1>1, InToSet
    <3>2. j \in 1..Len(t) /\ t[j] = x
      BY <3>1, <2>1, <2>2, <1>5
    <3> QED BY <3>2, <1>5, InToSet
  <2> QED BY <2>3, <1>2 DEF Victims, Overflow, c
<1> QED BY <1>1, <1>2, <1>3, <1>5, <1>6 DEF c
\* setLocked puts v in, and takes out the value it overwrites or the ones it evicts.
LEMMA SetLockedMoves ==
  ASSUME CacheInv, EntriesTrue, NEW k \in Key, NEW v \in Val,
         v \notin ToSet(ll), v \notin CachedVals, SetLocked(k, v)
  PROVE  /\ Evicted(k, v) \subseteq CachedVals \ OfKey(k)
         /\ CachedVals' = (CachedVals \ (OfKey(k) \cup Evicted(k, v))) \cup {v}
         /\ dropped' = dropped \cup OfKey(k)
         /\ Evicted(k, v) # {} => Len(ll') = capacity
         /\ \A e \in Val : \/ ent'[e].val = ent[e].val /\ ent'[e].key = ent[e].key
                           \/ ent'[e].val = v /\ ent'[e].key = k /\ (ent[e].key = k \/ e = v)
<1>1. OfKey(k) = IF items[k] = None THEN {} ELSE {ent[items[k]].val}
  BY CachedOfKey
<1>2. CASE items[k] # None
  <2>. DEFINE e0 == items[k]
  <2>1. /\ e0 \in Val /\ e0 \in ToSet(ll) /\ ent[e0].key = k
        /\ ll' = MoveToFront(e0) /\ ent' = [ent EXCEPT ![e0].val = v]
        /\ dropped' = dropped \cup {ent[e0].val}
    BY <1>2, CacheFacts DEF SetLocked, Overwrite
  <2>2. ToSet(ll)' = ToSet(ll)
    <3>1. ToSet(ll') = ToSet(ll)
      BY <2>1, MoveToFrontPermutes DEF CacheInv, CacheTypes
    <3> QED BY <3>1 DEF ToSet
  <2>3. \A e \in Val : /\ ent'[e].key = ent[e].key
                       /\ ent'[e].val = IF e = e0 THEN v ELSE ent[e].val
    BY <2>1 DEF CacheInv, CacheTypes
  <2>4. CachedVals' = {ent'[e].val : e \in ToSet(ll)}
    BY <2>2 DEF CachedVals
  <2>5. CachedVals' = (CachedVals \ {ent[e0].val}) \cup {v}
    <3>1. ASSUME NEW e \in ToSet(ll), e # e0
          PROVE  ent'[e].val \in CachedVals \ {ent[e0].val}
      BY <3>1, <2>1, <2>3, ListedIsVal, DistinctVals DEF CachedVals
    <3>2. ASSUME NEW w \in CachedVals \ {ent[e0].val} PROVE w \in CachedVals'
      <4>1. PICK e \in ToSet(ll) : w = ent[e].val
        BY DEF CachedVals
      <4>2. e # e0 /\ ent'[e].val = w
        BY <4>1, <2>3, ListedIsVal
      <4> QED BY <4>2, <2>4
    <3>3. ent'[e0].val = v
      BY <2>1, <2>3
    <3> QED BY <3>1, <3>2, <3>3, <2>1, <2>4
  <2>6. Evicted(k, v) = {}
    BY <1>2 DEF Evicted
  <2> QED BY <1>1, <1>2, <2>1, <2>3, <2>5, <2>6
<1>3. CASE items[k] = None
  <2>1. /\ ll' = Kept(Cons(v, ll)) /\ dropped' = dropped
        /\ ent' = [ent EXCEPT ![v] = [key |-> k, val |-> v]]
    BY <1>3 DEF SetLocked, Insert
  <2>2. /\ ToSet(ll') = (ToSet(ll) \cup {v}) \ Victims(v)
        /\ Victims(v) \subseteq ToSet(ll)
    BY <2>1, PushEvicts DEF CacheInv, CacheTypes
  <2>3. ToSet(ll)' = (ToSet(ll) \cup {v}) \ Victims(v)
    BY <2>2 DEF ToSet
  <2>4. \A e \in Val : ent'[e] = IF e = v THEN [key |-> k, val |-> v] ELSE ent[e]
    BY <2>1 DEF CacheInv, CacheTypes
  <2>5. Evicted(k, v) = {ent[e].val : e \in Victims(v)}
    BY <1>3 DEF Evicted
  <2>6. Evicted(k, v) \subseteq CachedVals
    BY <2>2, <2>5 DEF CachedVals
  <2>7. CachedVals' = (CachedVals \ Evicted(k, v)) \cup {v}
    <3>1. ASSUME NEW w \in CachedVals', w # v PROVE w \in CachedVals \ Evicted(k, v)
      <4>1. PICK e \in ToSet(ll)' : w = ent'[e].val
        BY DEF CachedVals
      <4>2. e # v
        BY <4>1, <3>1, <2>4, <2>3, ListedIsVal
      <4>3. e \in ToSet(ll) /\ e \notin Victims(v) /\ w = ent[e].val
        BY <4>1, <4>2, <2>3, <2>4, ListedIsVal
      <4>4. w \notin Evicted(k, v)
        BY <4>3, <2>2, <2>5, DistinctVals
      <4> QED BY <4>3, <4>4 DEF CachedVals
    <3>2. ASSUME NEW w \in CachedVals \ Evicted(k, v) PROVE w \in CachedVals'
      <4>1. PICK e \in ToSet(ll) : w = ent[e].val
        BY DEF CachedVals
      <4>2. e \notin Victims(v)
        BY <4>1, <2>5
      <4>3. e \in ToSet(ll)' /\ ent'[e].val = w
        BY <4>1, <4>2, <2>3, <2>4, ListedIsVal
      <4> QED BY <4>3 DEF CachedVals
    <3>3. v \in CachedVals'
      <4>1. v \in ToSet(ll)' /\ ent'[v].val = v
        BY <2>2, <2>3, <2>4
      <4> QED BY <4>1 DEF CachedVals
    <3> QED BY <3>1, <3>2, <3>3
  <2>8. Evicted(k, v) # {} => Len(ll') = capacity
    BY <2>1, <2>5, PushLength DEF CacheInv, CacheTypes
  <2> QED BY <1>1, <1>3, <2>1, <2>4, <2>6, <2>7, <2>8
<1> QED BY <1>2, <1>3
\* The entries after a store: keys are never taken back.
LEMMA EntriesStored ==
  ASSUME EntriesTrue, PlaceTypes, NEW k \in Key, NEW v \in Val,
         born[v] = None \/ (v \in HeldVals /\ born[v] = k),
         born' = [born EXCEPT ![v] = k],
         HeldVals' \subseteq HeldVals \ {v},
         \A e \in Val : \/ ent'[e].val = ent[e].val /\ ent'[e].key = ent[e].key
                        \/ ent'[e].val = v /\ ent'[e].key = k /\ (ent[e].key = k \/ e = v)
  PROVE  /\ EntriesTrue'
         /\ \A e \in Val : ent[e].key # None => ent'[e].key = ent[e].key
<1>1. \A w \in Val : born'[w] = IF w = v THEN k ELSE born[w]
  BY DEF PlaceTypes
<1>2. \A e \in Val : ent'[e].val \in Val =>
          ent'[e].key \in Key /\ born'[ent'[e].val] = ent'[e].key
  BY <1>1, LRUAssumption DEF EntriesTrue
<1>3. \A w \in Val : born'[w] = None \/ w \in HeldVals' => ent'[w].key = None
  BY <1>1, LRUAssumption DEF EntriesTrue
<1>4. \A e \in Val : ent[e].key # None => ent'[e].key = ent[e].key
  BY DEF EntriesTrue
<1> QED BY <1>2, <1>3, <1>4 DEF EntriesTrue

\* A step that concerns p alone.
OwnStep(p) ==
    \A q \in Proc \ {p} : /\ pc'[q] = pc[q] /\ key'[q] = key[q] /\ elem'[q] = elem[q]
                          /\ res'[q] = res[q] /\ todo'[q] = todo[q]

\* Nobody loses what it knows of an entry's key or of a value's origin.
Stable ==
    /\ \A e \in Val : ent[e].key # None => ent'[e].key = ent[e].key
    /\ \A v \in Val : born[v] # None => born'[v] = born[v]

LEMMA OthersTrue ==
  ASSUME IInv, CallsTrue, NEW p \in Proc, OwnStep(p), Stable
  PROVE  \A q \in Proc \ {p} : CallTrue(q)'
<1>. SUFFICES ASSUME NEW q \in Proc \ {p} PROVE CallTrue(q)'
  OBVIOUS
<1>1. CallTrue(q) /\ (pc[q] = "read" => elem[q] \in Val)
  BY DEF CallsTrue, IInv, CallArgs
<1> QED BY <1>1, LRUAssumption DEF CallTrue, OwnStep, Stable

\* What the values' places have to do with a step of p that leaves entries, origins
\* and computed values alone.
LEMMA QuietPlaces ==
  ASSUME RInv, NEW p \in Proc, OwnStep(p), UNCHANGED <<ent, born>>,
         pc[p] # "computed", pc'[p] # "computed"
  PROVE  /\ HeldVals' = HeldVals /\ EntriesTrue'
         /\ \A q \in Proc \ {p} : CallTrue(q)'
         /\ ToSet(ll)' = ToSet(ll) => CachedVals' = CachedVals
<1>1. \A q \in Proc, v \in Val : Holds(q, v)' <=> Holds(q, v)
  BY DEF Holds, OwnStep
<1>2. HeldVals' = HeldVals
  BY <1>1 DEF HeldVals
<1>3. EntriesTrue'
  BY <1>2 DEF RInv, EntriesTrue
<1>4. Stable
  BY DEF Stable
<1>5. ToSet(ll)' = ToSet(ll) => CachedVals' = CachedVals
  BY DEF CachedVals
<1> QED BY <1>2, <1>3, <1>4, <1>5, OthersTrue DEF RInv

More == Accounted /\ EntriesTrue /\ CallsTrue

\* A lookup that reorders the list at most, or a read: nothing moves.
LEMMA QuietMore ==
  ASSUME RInv, NEW p \in Proc, OwnStep(p),
         UNCHANGED <<ent, born, released, dropped>>, todo' = todo,
         ToSet(ll)' = ToSet(ll),
         pc[p] # "computed", pc'[p] # "computed", CallTrue(p)'
  PROVE  More' /\ UNCHANGED RC!rcVars
<1>1. Stays
  BY QuietPlaces DEF Stays
<1> QED BY <1>1, QuietPlaces, StaysKeeps DEF More, RInv, CallsTrue
-----------------------------------------------------------------------------
(* Each step keeps the books and is a step of ResourceCache, or none.      *)

LEMMA PromoteSame ==
  ASSUME CacheInv, NEW k \in Key, items[k] # None, ll' = MoveToFront(items[k])
  PROVE  ToSet(ll)' = ToSet(ll)
<1>1. ToSet(ll') = ToSet(ll)
  BY CacheFacts, MoveToFrontPermutes DEF CacheInv, CacheTypes
<1> QED BY <1>1 DEF ToSet

\* Get and GetNoTouch.
LEMMA LookMore ==
  ASSUME RInv, NEW p \in Proc, NEW k \in Key, Get(p, k) \/ GetNoTouch(p, k)
  PROVE  More' /\ UNCHANGED RC!rcVars
<1>. USE DEF RInv, IInv
<1>1. /\ pc[p] = "idle" /\ key' = [key EXCEPT ![p] = k] /\ Look(p, k)
      /\ UNCHANGED <<items, ent, inflight, todo, born, released, dropped>>
  BY DEF Get, GetNoTouch, Begin, history
<1>2. ToSet(ll)' = ToSet(ll)
  <2>1. CASE items[k] # None /\ ll' = MoveToFront(items[k])
    BY <2>1, PromoteSame
  <2>2. CASE UNCHANGED ll
    BY <2>2 DEF ToSet
  <2> QED BY <2>1, <2>2 DEF Get, GetNoTouch
<1>3. todo[p] = {}
  BY <1>1 DEF CallsTrue, CallTrue
<1>4. OwnStep(p) /\ pc'[p] # "computed" /\ CallTrue(p)'
  <2>1. CASE items[k] = None
    <3>1. pc' = [pc EXCEPT ![p] = "returned"] /\ res' = [res EXCEPT ![p] = Miss] /\ elem' = elem
      BY <1>1, <2>1 DEF Look, Finish
    <3> QED BY <1>1, <1>3, <3>1 DEF OwnStep, CallTrue, CallTypes, Miss
  <2>2. CASE items[k] # None
    <3>1. pc' = [pc EXCEPT ![p] = "read"] /\ res' = res /\ elem' = [elem EXCEPT ![p] = items[k]]
      BY <1>1, <2>2 DEF Look
    <3>2. ent[items[k]].key = k
      BY <2>2, CacheFacts
    <3> QED BY <1>1, <1>3, <3>1, <3>2 DEF OwnStep, CallTrue, CallTypes
  <2> QED BY <2>1, <2>2
<1> QED BY <1>1, <1>2, <1>4, QuietMore

\* The value is read through the element: an element keeps its key for ever.
LEMMA ReadMore ==
  ASSUME RInv, NEW p \in Proc, ReadValue(p)
  PROVE  More' /\ UNCHANGED RC!rcVars
<1>. USE DEF RInv, IInv
<1>. DEFINE e == elem[p]
<1>1. /\ pc[p] = "read" /\ pc' = [pc EXCEPT ![p] = "returned"]
      /\ res' = [res EXCEPT ![p] = Ok(ent[e].val)]
      /\ UNCHANGED <<items, ll, ent, key, elem, todo, born, released, dropped>>
  BY DEF ReadValue, Finish, history
<1>2. /\ e \in Val /\ ent[e].val \in Val /\ key[p] \in Key /\ ent[e].key = key[p]
      /\ todo[p] = {}
  BY <1>1 DEF CallArgs, CallsTrue, CallTrue
<1>3. born[ent[e].val] = key[p]
  BY <1>2 DEF EntriesTrue
<1>4. OwnStep(p) /\ pc'[p] # "computed" /\ CallTrue(p)'
  BY <1>1, <1>2, <1>3 DEF OwnStep, CallTrue, CallTypes, Ok
<1>5. ToSet(ll)' = ToSet(ll)
  BY <1>1 DEF ToSet
<1> QED BY <1>1, <1>4, <1>5, QuietMore

\* A lookup that may compute: a hit, a wait, or the start of a flight.
LEMMA LookupMore ==
  ASSUME RInv, NEW p \in Proc, NEW k \in Key, pc[p] \in {"idle", "slow"},
         key' = [key EXCEPT ![p] = k],
         \/ HitTouch(p, k) \/ HitNoTouch(p, k) \/ Join(p, k) \/ Lead(p, k)
         \/ /\ pc' = [pc EXCEPT ![p] = "slow"]
            /\ UNCHANGED <<items, ll, ent, inflight, elem, res, todo, history>>
  PROVE  More' /\ UNCHANGED RC!rcVars
<1>. USE DEF RInv, IInv
<1>1. todo[p] = {}
  BY DEF CallsTrue, CallTrue
<1>2. UNCHANGED <<ent, elem, todo, born, released, dropped>>
  BY DEF HitTouch, HitNoTouch, Join, Lead, history
<1>3. CASE HitTouch(p, k) \/ HitNoTouch(p, k)
  <2>1. /\ items[k] # None /\ pc' = [pc EXCEPT ![p] = "returned"]
        /\ res' = [res EXCEPT ![p] = Ok(ent[items[k]].val)]
    BY <1>3 DEF HitTouch, HitNoTouch, Finish
  <2>2. ToSet(ll)' = ToSet(ll)
    <3>1. CASE HitTouch(p, k)
      BY <2>1, <3>1, PromoteSame DEF HitTouch
    <3>2. CASE HitNoTouch(p, k)
      BY <3>2 DEF HitNoTouch, ToSet
    <3> QED BY <1>3, <3>1, <3>2
  <2>3. ent[items[k]].val \in Val /\ born[ent[items[k]].val] = k
    <3>1. items[k] \in Val /\ ent[items[k]].key = k /\ ent[items[k]].val \in Val
      BY <2>1, CacheFacts
    <3> QED BY <3>1 DEF EntriesTrue
  <2>4. OwnStep(p) /\ pc'[p] # "computed" /\ CallTrue(p)'
    BY <1>1, <1>2, <2>1, <2>3 DEF OwnStep, CallTrue, CallTypes, Ok
  <2> QED BY <1>2, <2>2, <2>4, QuietMore
<1>4. CASE ~(HitTouch(p, k) \/ HitNoTouch(p, k))
  <2>1. /\ \E s \in {"waiting", "computing", "slow"} : pc' = [pc EXCEPT ![p] = s]
        /\ UNCHANGED <<ll, res>>
    BY <1>4 DEF Join, Lead
  <2>2. OwnStep(p) /\ pc'[p] # "computed" /\ CallTrue(p)'
    BY <1>1, <1>2, <2>1 DEF OwnStep, CallTrue, CallTypes
  <2>3. ToSet(ll)' = ToSet(ll)
    BY <2>1 DEF ToSet
  <2> QED BY <1>2, <2>2, <2>3, QuietMore
<1> QED BY <1>3, <1>4

\* The caller takes its result.
LEMMA ReturnMore ==
  ASSUME RInv, NEW p \in Proc, Return(p)
  PROVE  More' /\ UNCHANGED RC!rcVars
<1>. USE DEF RInv, IInv
<1>1. /\ pc[p] = "returned" /\ pc' = [pc EXCEPT ![p] = "idle"]
      /\ key' = [key EXCEPT ![p] = None] /\ elem' = [elem EXCEPT ![p] = None]
      /\ res' = [res EXCEPT ![p] = NoResult]
      /\ UNCHANGED <<items, ll, ent, todo, born, released, dropped>>
  BY DEF Return
<1>2. todo[p] = {}
  BY <1>1 DEF CallsTrue, CallTrue
<1>3. OwnStep(p) /\ pc'[p] # "computed" /\ CallTrue(p)'
  BY <1>1, <1>2 DEF OwnStep, CallTrue, CallTypes, NoResult
<1>4. ToSet(ll)' = ToSet(ll)
  BY <1>1 DEF ToSet
<1> QED BY <1>1, <1>3, <1>4, QuietMore
\* compute gives a value: no other one of its key is in anybody's hands.
LEMMA ComputeOkMore ==
  ASSUME RInv, NEW p \in Proc, NEW v \in Val, ComputeOk(p, v)
  PROVE  More' /\ RC!Produce(key[p], v) /\ key[p] \in Key
<1>. USE DEF RInv, IInv
<1>. DEFINE k == key[p]
<1>1. /\ pc[p] = "computing" /\ pc' = [pc EXCEPT ![p] = "computed"]
      /\ res' = [res EXCEPT ![p] = Ok(v)] /\ born' = [born EXCEPT ![v] = k]
      /\ UNCHANGED <<items, ll, ent, inflight, key, elem, todo, released, dropped>>
      /\ born[v] = None
  BY DEF ComputeOk, Fresh
<1>2. k \in Key /\ todo[p] = {}
  BY <1>1 DEF CallArgs, CallsTrue, CallTrue
<1>3. \A q \in Proc, w \in Val : Holds(q, w)' <=> Holds(q, w) \/ (q = p /\ w = v)
  BY <1>1 DEF Holds, CallTypes, Ok
<1>4. HeldVals' = HeldVals \cup {v}
  BY <1>3 DEF HeldVals
<1>5. \A w \in HeldVals : born[w] # k
  <2>. SUFFICES ASSUME NEW w \in HeldVals, born[w] = k PROVE FALSE
    OBVIOUS
  <2>1. PICK q \in Proc : Holds(q, w)
    BY DEF HeldVals
  <2>2. w \in Val /\ key[q] = k /\ pc[q] = "computed"
    <3>1. w \in Val
      BY DEF HeldVals
    <3>2. CallTrue(q) /\ w # None
      BY <3>1, LRUAssumption DEF CallsTrue
    <3> QED BY <2>1, <3>1, <3>2 DEF Holds, CallTrue
  <2>3. inflight[k] = q /\ inflight[k] = p
    BY <1>1, <1>2, <2>2 DEF SingleFlight, Leading
  <2> QED BY <1>1, <2>2, <2>3
<1>6. CachedVals' = CachedVals
  BY <1>1 DEF CachedVals, ToSet
<1>7. Makes(v, k)
  BY <1>1, <1>4, <1>5, <1>6 DEF Makes
<1>8. \A w \in Val : born'[w] = IF w = v THEN k ELSE born[w]
  BY <1>1 DEF CallTypes
<1>9. EntriesTrue'
  <2>1. \A e \in Val : ent[e].val \in Val => ent[e].val # v
    BY <1>1, LRUAssumption DEF EntriesTrue
  <2> QED BY <1>1, <1>4, <1>8, <2>1, LRUAssumption DEF EntriesTrue
<1>10. CallsTrue'
  <2>1. OwnStep(p) /\ Stable
    BY <1>1, <1>8 DEF OwnStep, Stable, CallTypes
  <2>2. CallTrue(p)'
    BY <1>1, <1>2, <1>8 DEF CallTrue, CallTypes, Ok
  <2> QED BY <2>1, <2>2, OthersTrue DEF CallsTrue
<1> QED BY <1>2, <1>7, <1>9, <1>10, HavePlaceTypes, MakesKeeps DEF More

\* compute fails or panics: it leaves nothing behind.
LEMMA ComputeFailsMore ==
  ASSUME RInv, NEW p \in Proc, NEW r, r.st # "ok", ComputeFails(p, r)
  PROVE  More' /\ UNCHANGED RC!rcVars
<1>. USE DEF RInv, IInv
<1>1. /\ pc[p] = "computing" /\ pc' = [pc EXCEPT ![p] = "computed"]
      /\ res' = [res EXCEPT ![p] = r]
      /\ UNCHANGED <<items, ll, ent, inflight, key, elem, todo, born, released, dropped>>
  BY DEF ComputeFails, history
<1>2. todo[p] = {}
  BY <1>1 DEF CallsTrue, CallTrue
<1>3. \A q \in Proc, w \in Val : Holds(q, w)' <=> Holds(q, w)
  BY <1>1 DEF Holds, CallTypes
<1>4. HeldVals' = HeldVals /\ CachedVals' = CachedVals
  BY <1>1, <1>3 DEF HeldVals, CachedVals, ToSet
<1>5. EntriesTrue'
  BY <1>1, <1>4 DEF EntriesTrue
<1>6. CallsTrue'
  <2>1. OwnStep(p) /\ Stable
    BY <1>1 DEF OwnStep, Stable, CallTypes
  <2>2. CallTrue(p)'
    BY <1>1, <1>2 DEF CallTrue, CallTypes
  <2> QED BY <2>1, <2>2, OthersTrue DEF CallsTrue
<1>7. Stays
  BY <1>1, <1>4 DEF Stays
<1> QED BY <1>5, <1>6, <1>7, StaysKeeps DEF More

\* One onEvict.
LEMMA EvictMore ==
  ASSUME RInv, NEW p \in Proc, Evict(p)
  PROVE  More' /\ \E v \in Val : RC!Release(v)
<1>. USE DEF RInv, IInv
<1>1. PICK v \in todo[p] :
          /\ released' = released \cup {v}
          /\ todo' = [todo EXCEPT ![p] = @ \ {v}]
          /\ pc' = [pc EXCEPT ![p] = IF todo[p] = {v} THEN "returned" ELSE "evicting"]
  BY DEF Evict
<1>2. /\ pc[p] = "evicting" /\ v \in Val
      /\ UNCHANGED <<items, ll, ent, inflight, key, elem, res, born, dropped>>
  BY DEF Evict, CallTypes
<1>3. OwnStep(p) /\ pc'[p] # "computed" /\ CallTrue(p)'
  <2>1. todo'[p] = todo[p] \ {v} /\ (todo'[p] # {} <=> todo[p] # {v})
    BY <1>1 DEF CallTypes
  <2>2. pc'[p] = IF todo[p] = {v} THEN "returned" ELSE "evicting"
    BY <1>1 DEF CallTypes
  <2>3. OwnStep(p)
    BY <1>1, <1>2 DEF OwnStep, CallTypes
  <2> QED BY <1>2, <2>1, <2>2, <2>3 DEF CallTrue, CallsTrue
<1>4. ToSet(ll)' = ToSet(ll)
  BY <1>2 DEF ToSet
<1>5. /\ HeldVals' = HeldVals /\ CachedVals' = CachedVals /\ EntriesTrue'
      /\ \A q \in Proc \ {p} : CallTrue(q)'
  BY <1>2, <1>3, <1>4, QuietPlaces
<1>6. Releases(p, v)
  BY <1>1, <1>2, <1>5 DEF Releases
<1> QED BY <1>2, <1>3, <1>5, <1>6, HavePlaceTypes, ReleasesKeeps DEF More, CallsTrue

\* Delete and Purge: what they unlink is theirs to release.
LEMMA TakeMore ==
  ASSUME RInv, NEW p \in Proc, NEW gone,
         pc[p] = "idle", FinishEvicting(p, gone, NoResult),
         \A q \in Proc \ {p} : key'[q] = key[q],
         UNCHANGED <<ent, elem, born, released, dropped>>,
         gone \subseteq CachedVals, CachedVals' = CachedVals \ gone
  PROVE  More' /\ \E g \in SUBSET RC!In("cached") : RC!Retire(g)
<1>. USE DEF RInv, IInv
<1>1. /\ todo' = [todo EXCEPT ![p] = gone]
      /\ pc' = [pc EXCEPT ![p] = IF gone = {} THEN "returned" ELSE "evicting"]
      /\ res' = [res EXCEPT ![p] = NoResult]
  BY DEF FinishEvicting
<1>2. todo[p] = {}
  BY DEF CallsTrue, CallTrue
<1>3. OwnStep(p) /\ pc'[p] # "computed" /\ CallTrue(p)'
  BY <1>1 DEF OwnStep, CallTrue, CallTypes, NoResult
<1>4. HeldVals' = HeldVals /\ EntriesTrue' /\ \A q \in Proc \ {p} : CallTrue(q)'
  BY <1>3, QuietPlaces
<1>5. Takes(p, gone)
  BY <1>1, <1>2, <1>4 DEF Takes
<1> QED BY <1>3, <1>4, <1>5, HavePlaceTypes, TakesKeeps DEF More, CallsTrue

LEMMA DeleteMore ==
  ASSUME RInv, NEW p \in Proc, NEW k \in Key, Delete(p, k)
  PROVE  More' /\ \E g \in SUBSET RC!In("cached") : RC!Retire(g)
<1>. USE DEF RInv, IInv
<1>1. /\ pc[p] = "idle" /\ key' = [key EXCEPT ![p] = k]
      /\ UNCHANGED <<ent, inflight, elem, born, released, dropped>>
  BY DEF Delete, Begin, history
<1>2. \A q \in Proc \ {p} : key'[q] = key[q]
  BY <1>1 DEF CallTypes
<1>3. CASE items[k] = None
  <2>1. FinishEvicting(p, {}, NoResult) /\ UNCHANGED ll
    BY <1>3 DEF Delete
  <2>2. CachedVals' = CachedVals
    BY <1>1, <2>1 DEF CachedVals, ToSet
  <2> QED BY <1>1, <1>2, <2>1, <2>2, TakeMore
<1>4. CASE items[k] # None
  <2>. DEFINE e0 == items[k]
              gone == {ent[e0].val}
  <2>1. FinishEvicting(p, gone, NoResult) /\ ll' = RemoveFirst(ll, e0)
    BY <1>4 DEF Delete
  <2>2. e0 \in ToSet(ll)
    BY <1>4, CacheFacts
  <2>3. ToSet(ll)' = ToSet(ll) \ {e0}
    <3>1. ToSet(ll') = ToSet(ll) \ {e0}
      BY <2>1, <2>2, RemoveFirstUnique DEF CacheInv, CacheTypes
    <3> QED BY <3>1 DEF ToSet
  <2>4. CachedVals' = {ent[e].val : e \in ToSet(ll) \ {e0}}
    BY <1>1, <2>3 DEF CachedVals
  <2>5. gone \subseteq CachedVals /\ CachedVals' = CachedVals \ gone
    BY <2>2, <2>4, DistinctVals DEF CachedVals
  <2> QED BY <1>1, <1>2, <2>1, <2>5, TakeMore
<1> QED BY <1>3, <1>4

LEMMA PurgeMore ==
  ASSUME RInv, NEW p \in Proc, Purge(p)
  PROVE  More' /\ \E g \in SUBSET RC!In("cached") : RC!Retire(g)
<1>. USE DEF RInv, IInv
<1>. DEFINE gone == {ent[items[k]].val : k \in {j \in Key : items[j] # None}}
<1>1. /\ pc[p] = "idle" /\ ll' = <<>> /\ FinishEvicting(p, gone, NoResult)
      /\ UNCHANGED <<ent, inflight, key, elem, born, released, dropped>>
  BY DEF Purge, history
<1>2. gone = CachedVals
  <2>1. ASSUME NEW k \in Key, items[k] # None PROVE ent[items[k]].val \in CachedVals
    BY <2>1, CacheFacts DEF CachedVals
  <2>2. ASSUME NEW e \in ToSet(ll) PROVE ent[e].val \in gone
    <3>1. e \in Val /\ ent[e].key \in Key
      BY ListedIsVal DEF CacheInv, ListedEntries
    <3>2. items[ent[e].key] = e /\ e # None
      BY <3>1, LRUAssumption DEF CacheInv, MapMatchesList
    <3> QED BY <3>1, <3>2
  <2> QED BY <2>1, <2>2 DEF CachedVals
<1>3. CachedVals' = {}
  BY <1>1 DEF CachedVals, ToSet
<1> QED BY <1>1, <1>2, <1>3, TakeMore
\* A value that is new or held becomes the value of k.
LEMMA StoreMore ==
  ASSUME RInv, NEW p \in Proc, NEW k \in Key, NEW v \in Val,
         born[v] = None \/ (v \in HeldVals /\ born[v] = k), v \notin ToSet(ll),
         SetLocked(k, v), born' = [born EXCEPT ![v] = k], UNCHANGED released,
         HeldVals' = HeldVals \ {v},
         todo[p] = {}, todo' = [todo EXCEPT ![p] = Evicted(k, v)]
  PROVE  /\ Accounted' /\ EntriesTrue' /\ Stable
         /\ \E gone \in SUBSET RC!In("cached") : RC!Put(k, v, gone)
<1>. USE DEF RInv, IInv
<1>. DEFINE over == OfKey(k)
            gone == Evicted(k, v)
<1>1. v \notin CachedVals
  BY DEF Accounted
<1>2. /\ gone \subseteq CachedVals \ over
      /\ CachedVals' = (CachedVals \ (over \cup gone)) \cup {v}
      /\ dropped' = dropped \cup over
      /\ gone # {} => Len(ll') = capacity
      /\ \A e \in Val : \/ ent'[e].val = ent[e].val /\ ent'[e].key = ent[e].key
                        \/ ent'[e].val = v /\ ent'[e].key = k /\ (ent[e].key = k \/ e = v)
  BY <1>1, SetLockedMoves
<1>. HIDE DEF over, gone
<1>3. EntriesTrue' /\ \A e \in Val : ent[e].key # None => ent'[e].key = ent[e].key
  BY <1>2, HavePlaceTypes, EntriesStored
<1>4. Stable
  BY <1>3 DEF Stable, CallTypes
<1>5. CacheInv'
  BY SetLockedKeeps
<1>6. Cardinality(CachedVals') <= capacity /\ (gone # {} => Cardinality(CachedVals') = capacity)
  <2>1. Cardinality(CachedVals)' = Len(ll)'
    BY <1>3, <1>5, CachedCountNext
  <2>2. Len(ll)' <= capacity
    BY <1>5 DEF CacheInv, Bounded, capacity
  <2> QED BY <1>2, <2>1, <2>2
<1>7. Stores(p, k, v, over, gone)
  <2>1. over = {w \in CachedVals : born[w] = k} /\ todo' = [todo EXCEPT ![p] = gone]
    BY DEF over, gone, OfKey
  <2> QED BY <1>2, <1>6, <2>1 DEF Stores
<1>8. Accounted' /\ gone \in SUBSET RC!In("cached") /\ RC!Put(k, v, gone)
  BY <1>7, HavePlaceTypes, StoresKeeps
<1> QED BY <1>3, <1>4, <1>8

LEMMA SetMore ==
  ASSUME RInv, NEW p \in Proc, NEW k \in Key, NEW v \in Val, Set(p, k, v)
  PROVE  More' /\ \E gone \in SUBSET RC!In("cached") : RC!Put(k, v, gone)
<1>. USE DEF RInv, IInv
<1>1. /\ pc[p] = "idle" /\ key' = [key EXCEPT ![p] = k]
      /\ born[v] = None /\ born' = [born EXCEPT ![v] = k]
      /\ SetLocked(k, v) /\ FinishEvicting(p, Evicted(k, v), NoResult)
      /\ UNCHANGED <<inflight, elem, released>>
  BY DEF Set, Begin, Fresh
<1>2. /\ todo' = [todo EXCEPT ![p] = Evicted(k, v)]
      /\ pc' = [pc EXCEPT ![p] = IF Evicted(k, v) = {} THEN "returned" ELSE "evicting"]
      /\ res' = [res EXCEPT ![p] = NoResult]
  BY <1>1 DEF FinishEvicting
<1>3. todo[p] = {}
  BY <1>1 DEF CallsTrue, CallTrue
<1>4. v \notin ToSet(ll) /\ v \notin HeldVals
  BY <1>1 DEF HeldApart, Accounted
<1>5. \A q \in Proc, w \in Val : Holds(q, w)' <=> Holds(q, w)
  BY <1>1, <1>2 DEF Holds, CallTypes
<1>6. HeldVals' = HeldVals \ {v}
  <2>1. HeldVals' = HeldVals
    BY <1>5 DEF HeldVals
  <2> QED BY <2>1, <1>4
<1>7. /\ Accounted' /\ EntriesTrue' /\ Stable
      /\ \E gone \in SUBSET RC!In("cached") : RC!Put(k, v, gone)
  BY <1>1, <1>2, <1>3, <1>4, <1>6, StoreMore
<1>8. OwnStep(p) /\ CallTrue(p)'
  BY <1>1, <1>2 DEF OwnStep, CallTrue, CallTypes, NoResult
<1> QED BY <1>7, <1>8, OthersTrue DEF More, CallsTrue

\* The leader's second critical section: its value moves from its hands into the
\* cache, and everybody who waits for its key gets the same one.
LEMMA InstallMore ==
  ASSUME RInv, NEW p \in Proc, Install(p)
  PROVE  /\ More'
         /\ \/ UNCHANGED RC!rcVars
            \/ \E k \in Key, v \in Val :
                  \E gone \in SUBSET RC!In("cached") : RC!Put(k, v, gone)
<1>. USE DEF RInv, IInv
<1>. DEFINE k == key[p]
            r == res[p]
            W == Waiters(p)
            evicted == IF r.st = "ok" THEN Evicted(k, r.val) ELSE {}
<1>1. /\ pc[p] = "computed" /\ k \in Key /\ r \in Result /\ todo[p] = {}
      /\ r.st \in {"ok", "err", "panic"}
  BY DEF Install, CallArgs, CallTypes, CallsTrue, CallTrue
<1>2. /\ UNCHANGED <<key, elem, born, released>>
      /\ todo' = [todo EXCEPT ![p] = evicted]
      /\ \A q \in Proc : pc'[q] = IF q = p THEN IF evicted = {} THEN "returned" ELSE "evicting"
                                  ELSE IF q \in W THEN "returned" ELSE pc[q]
      /\ \A q \in Proc : res'[q] = IF q \in W THEN Shared(r) ELSE res[q]
  BY DEF Install, Installs
<1>3. p \notin W /\ \A q \in Proc : q \in W <=> pc[q] = "waiting" /\ key[q] = k
  BY <1>1 DEF Waiters
<1>4. \A q \in Proc, w \in Val : Holds(q, w)' <=> Holds(q, w) /\ q # p
  BY <1>1, <1>2, <1>3 DEF Holds
<1>5. \A q \in Proc : todo'[q] = IF q = p THEN evicted ELSE todo[q]
  BY <1>2 DEF CallTypes
<1>6. ASSUME Stable PROVE CallsTrue'
  <2>. SUFFICES ASSUME NEW q \in Proc PROVE CallTrue(q)'
    BY DEF CallsTrue
  <2>0. CallTrue(q) /\ CallTrue(p) /\ (pc[q] = "read" => elem[q] \in Val)
    BY DEF CallsTrue, CallArgs
  <2>1. CASE q = p
    BY <2>0, <2>1, <1>1, <1>2, <1>3, <1>5 DEF CallTrue
  <2>2. CASE q # p /\ q \in W
    <3>1. todo[q] = {} /\ key[q] = k
      BY <2>0, <2>2, <1>3 DEF CallTrue
    <3>2. pc'[q] = "returned" /\ res'[q] = Shared(r) /\ todo'[q] = {} /\ key'[q] = k
      BY <2>2, <3>1, <1>2, <1>5
    <3>3. Shared(r).st = "ok" /\ Shared(r).val # None => r.st = "ok" /\ Shared(r) = r
      BY <1>1 DEF Shared, Ok
    <3>4. r.st = "ok" /\ r.val # None => r.val \in Val /\ born[r.val] = k
      BY <2>0, <1>1 DEF CallTrue
    <3> QED BY <3>2, <3>3, <3>4, <1>1, <1>2 DEF CallTrue
  <2>3. CASE q # p /\ q \notin W
    <3>1. /\ pc'[q] = pc[q] /\ key'[q] = key[q] /\ elem'[q] = elem[q]
          /\ res'[q] = res[q] /\ todo'[q] = todo[q] /\ born' = born
      BY <2>3, <1>2, <1>5
    <3>2. pc[q] = "read" => ent'[elem[q]].key = key[q]
      BY <2>0, <1>6, LRUAssumption DEF CallTrue, Stable
    <3> QED BY <2>0, <3>1, <3>2 DEF CallTrue
  <2> QED BY <2>1, <2>2, <2>3
<1>7. CASE r.st = "ok"
  <2>. DEFINE v == r.val
  <2>1. v \in Val /\ Holds(p, v) /\ v \notin ToSet(ll)
    BY <1>1, <1>7 DEF CallArgs, HeldApart, Holds
  <2>2. v \in HeldVals /\ born[v] = k
    <3>1. CallTrue(p) /\ v # None
      BY <2>1, LRUAssumption DEF CallsTrue
    <3> QED BY <2>1, <3>1, <1>1, <1>7 DEF HeldVals, CallTrue
  <2>3. HeldVals' = HeldVals \ {v}
    <3>1. \A q \in Proc, w \in Val : Holds(q, w)' <=> Holds(q, w) /\ w # v
      BY <2>1, <1>4 DEF HeldApart, Holds
    <3> QED BY <3>1 DEF HeldVals
  <2>4. SetLocked(k, v)
    BY <1>7 DEF Install, Installs
  <2>5. born' = [born EXCEPT ![v] = k]
    BY <1>2, <2>1, <2>2 DEF CallTypes
  <2>6. todo' = [todo EXCEPT ![p] = Evicted(k, v)]
    BY <1>2, <1>7
  <2>. HIDE DEF k, v
  <2>7. /\ Accounted' /\ EntriesTrue' /\ Stable
        /\ \E gone \in SUBSET RC!In("cached") : RC!Put(k, v, gone)
    BY <1>1, <1>2, <2>1, <2>2, <2>3, <2>4, <2>5, <2>6, StoreMore
  <2> QED BY <1>1, <1>6, <2>1, <2>7 DEF More
<1>8. CASE r.st # "ok"
  <2>1. UNCHANGED <<items, ll, ent, dropped>>
    BY <1>8 DEF Install, Installs
  <2>2. todo' = todo
    BY <1>1, <1>2, <1>8 DEF CallTypes
  <2>3. \A q \in Proc, w \in Val : Holds(q, w)' <=> Holds(q, w)
    BY <1>4, <1>8 DEF Holds
  <2>4. HeldVals' = HeldVals /\ CachedVals' = CachedVals
    BY <2>1, <2>3 DEF HeldVals, CachedVals, ToSet
  <2>5. Stays
    BY <1>2, <2>1, <2>2, <2>4 DEF Stays
  <2>6. EntriesTrue' /\ Stable
    BY <1>2, <2>1, <2>4 DEF EntriesTrue, Stable
  <2> QED BY <1>6, <2>5, <2>6, StaysKeeps DEF More
<1> QED BY <1>7, <1>8
-----------------------------------------------------------------------------
\* Nothing has been produced at first.
LEMMA InitR == Init => RInv /\ RC!RCInit
<1>. SUFFICES ASSUME Init PROVE RInv /\ RC!RCInit
  OBVIOUS
<1>1. IInv
  BY InitInv
<1>2. PendingVals = {} /\ CachedVals = {} /\ HeldVals = {} /\ released = {} /\ dropped = {}
  BY DEF Init, PendingVals, CachedVals, HeldVals, Holds, ToSet, NoResult
<1>3. Accounted
  BY <1>2 DEF Init, Accounted, Gone
<1>4. EntriesTrue
  BY LRUAssumption DEF Init, EntriesTrue
<1>5. CallsTrue
  BY DEF Init, CallsTrue, CallTrue, NoResult
<1>6. RC!RCInit
  BY DEF RC!RCInit, Init, StageOf
<1> QED BY <1>1, <1>3, <1>4, <1>5, <1>6 DEF RInv

\* Every step keeps the books and is a step of ResourceCache, or none.
LEMMA NextR == RInv /\ [Next]_vars => RInv' /\ [RC!RCNext]_(RC!rcVars)
<1>. SUFFICES ASSUME RInv, [Next]_vars PROVE RInv' /\ [RC!RCNext]_(RC!rcVars)
  OBVIOUS
<1>1. IInv'
  BY NextInv DEF RInv
<1>2. More' /\ [RC!RCNext]_(RC!rcVars)
  <2>1. CASE UNCHANGED vars
    <3>1. HeldVals' = HeldVals /\ CachedVals' = CachedVals /\ PendingVals' = PendingVals
      BY <2>1 DEF vars, HeldVals, Holds, CachedVals, ToSet, PendingVals
    <3>2. Stays
      BY <2>1, <3>1 DEF vars, Stays
    <3>3. EntriesTrue' /\ CallsTrue'
      BY <2>1, <3>1 DEF vars, RInv, EntriesTrue, CallsTrue, CallTrue
    <3> QED BY <3>2, <3>3, StaysKeeps DEF RInv, More
  <2>2. ASSUME NEW p \in Proc, NEW k \in Key, Get(p, k) \/ GetNoTouch(p, k)
        PROVE  More' /\ [RC!RCNext]_(RC!rcVars)
    BY <2>2, LookMore
  <2>3. ASSUME NEW p \in Proc, NEW k \in Key, GetOrCompute(p, k) \/ GetOrComputeNoTouch(p, k)
        PROVE  More' /\ [RC!RCNext]_(RC!rcVars)
    BY <2>3, LookupMore DEF GetOrCompute, GetOrComputeNoTouch, Begin
  <2>4. ASSUME NEW p \in Proc, NEW k \in Key, Delete(p, k)
        PROVE  More' /\ [RC!RCNext]_(RC!rcVars)
    BY <2>4, DeleteMore DEF RC!RCNext
  <2>5. ASSUME NEW p \in Proc, NEW k \in Key, NEW v \in Val, Set(p, k, v)
        PROVE  More' /\ [RC!RCNext]_(RC!rcVars)
    BY <2>5, SetMore DEF RC!RCNext
  <2>6. ASSUME NEW p \in Proc, Purge(p) PROVE More' /\ [RC!RCNext]_(RC!rcVars)
    BY <2>6, PurgeMore DEF RC!RCNext
  <2>7. ASSUME NEW p \in Proc, ReadValue(p) PROVE More' /\ [RC!RCNext]_(RC!rcVars)
    BY <2>7, ReadMore
  <2>8. ASSUME NEW p \in Proc, SlowPath(p) PROVE More' /\ [RC!RCNext]_(RC!rcVars)
    <3>1. pc[p] = "slow" /\ key[p] \in Key /\ key' = [key EXCEPT ![p] = key[p]]
      BY <2>8 DEF SlowPath, RInv, IInv, CallArgs, CallTypes
    <3> QED BY <2>8, <3>1, LookupMore DEF SlowPath
  <2>9. ASSUME NEW p \in Proc, NEW v \in Val, ComputeOk(p, v)
        PROVE  More' /\ [RC!RCNext]_(RC!rcVars)
    BY <2>9, ComputeOkMore DEF RC!RCNext
  <2>10. ASSUME NEW p \in Proc,
                (\E e \in Err : ComputeFails(p, Failed(e))) \/ ComputeFails(p, Panicked)
         PROVE  More' /\ [RC!RCNext]_(RC!rcVars)
    <3>1. PICK r : r.st # "ok" /\ ComputeFails(p, r)
      BY <2>10 DEF Failed, Panicked
    <3> QED BY <3>1, ComputeFailsMore
  <2>11. ASSUME NEW p \in Proc, Install(p) PROVE More' /\ [RC!RCNext]_(RC!rcVars)
    BY <2>11, InstallMore DEF RC!RCNext
  <2>12. ASSUME NEW p \in Proc, Evict(p) PROVE More' /\ [RC!RCNext]_(RC!rcVars)
    BY <2>12, EvictMore DEF RC!RCNext
  <2>13. ASSUME NEW p \in Proc, Return(p) PROVE More' /\ [RC!RCNext]_(RC!rcVars)
    BY <2>13, ReturnMore
  <2>14. ASSUME NEW p \in Proc, Call(p) PROVE More' /\ [RC!RCNext]_(RC!rcVars)
    BY <2>14, <2>2, <2>3, <2>4, <2>5, <2>6 DEF Call
  <2>15. ASSUME NEW p \in Proc, Work(p) PROVE More' /\ [RC!RCNext]_(RC!rcVars)
    BY <2>15, <2>7, <2>8, <2>9, <2>10, <2>11, <2>12 DEF Work
  <2> QED BY <2>1, <2>13, <2>14, <2>15 DEF Next
<1> QED BY <1>1, <1>2 DEF RInv, More

\* The places, the entries and the calls agree in every reachable state.
THEOREM BooksBalance == Spec => []RInv
BY InitR, NextR, PTL DEF Spec

\* A value is handed to onEvict at most once, and never while it can still be found:
\* no prepared statement is closed twice, nor while the cache can hand it out.
THEOREM ReleasedOnceCorrect == Spec => []ReleasedOnce
<1>1. RInv => ReleasedOnce
  BY DEF RInv, Accounted, Gone, ReleasedOnce
<1> QED BY <1>1, BooksBalance, PTL

\* No call returns another key's value, although hits read it outside the lock.
THEOREM RightKeyCorrect == Spec => []RightKey
<1>1. RInv => RightKey
  BY LRUAssumption DEF RInv, CallsTrue, CallTrue, RightKey
<1> QED BY <1>1, BooksBalance, PTL

\* The concurrent cache implements the abstract life of a resource: what the
\* goroutines do in two critical sections and outside the lock looks like single
\* steps of ResourceCache.
THEOREM Refinement == Spec => ImplementsResourceCache
BY InitR, NextR, BooksBalance, PTL DEF Spec, ImplementsResourceCache, RC!RCSpec
=============================================================================
