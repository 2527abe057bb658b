---------------------------- MODULE MCLRUProofs ----------------------------
(***************************************************************************)
(* Theorems about the histories of MCLRU: which values a call may return,  *)
(* and which entries an eviction takes; and about the sharded caches made  *)
(* of such a cache: that the shards share the capacity asked for.          *)
(***************************************************************************)
EXTENDS MCLRU, LRUProofs, WellFoundedInduction

\* A step with histories is a step of the cache.
LEMMA MCStepIsStep == [MCNext]_mcVars => [Next]_vars
<1>. SUFFICES ASSUME [MCNext]_mcVars PROVE [Next]_vars
  OBVIOUS
<1>1. CASE UNCHANGED mcVars
  BY <1>1 DEF mcVars
<1>2. CASE MCNext
  <2>1. PICK p \in Proc :
            \/ \E k \in Key : \/ MCGet(p, k) \/ MCGetOrCompute(p, k) \/ MCDelete(p, k)
                              \/ \E v \in Val : MCSet(p, k, v)
            \/ MCInstall(p) \/ MCPurge(p) \/ MCOther(p)
    BY <1>2 DEF MCNext
  <2>2. Call(p) \/ Work(p) \/ Return(p)
    BY <2>1 DEF MCGet, MCGetOrCompute, MCDelete, MCSet, MCInstall, MCPurge, MCOther, Call, Work
  <2> QED BY <2>2 DEF Next
<1> QED BY <1>1, <1>2

\* The books of LRU balance under the histories too.
LEMMA MCBooks == MCSpec => []RInv
<1>1. MCInit => RInv
  BY InitR DEF MCInit
<1>2. RInv /\ [MCNext]_mcVars => RInv'
  BY MCStepIsStep, NextR
<1> QED BY <1>1, <1>2, PTL DEF MCSpec
-----------------------------------------------------------------------------
(* What a step does to the entries and to what a call is about to return.  *)

\* v goes into the entry of k: only that entry changes, and v had not left the
\* cache before.
Stored(k, v) ==
    /\ v \notin Gone /\ ent[v].key = None
    /\ \A e \in Val : \/ ent'[e].val = ent[e].val /\ ent'[e].key = ent[e].key
                      \/ ent'[e].val = v /\ ent'[e].key = k /\ (ent[e].key = k \/ e = v)

LEMMA SetLockedStores ==
  ASSUME RInv, NEW k \in Key, NEW v \in Val, SetLocked(k, v),
         born[v] = None \/ (v \in HeldVals /\ born[v] = k), v \notin ToSet(ll)
  PROVE  Stored(k, v)
<1>1. v \notin Gone /\ v \notin CachedVals /\ ent[v].key = None
  BY DEF RInv, Accounted, EntriesTrue
<1>2. \A e \in Val : \/ ent'[e].val = ent[e].val /\ ent'[e].key = ent[e].key
                     \/ ent'[e].val = v /\ ent'[e].key = k /\ (ent[e].key = k \/ e = v)
  BY <1>1, SetLockedMoves DEF RInv, IInv
<1> QED BY <1>1, <1>2 DEF Stored

\* What a leader installs.
LEMMA InstallFacts ==
  ASSUME RInv, NEW p \in Proc, Install(p)
  PROVE  /\ pc[p] = "computed" /\ key[p] \in Key
         /\ res[p].st = "ok" => /\ res[p].val \in Val /\ res[p].val \notin ToSet(ll)
                                /\ res[p].val \notin Gone
                                /\ SetLocked(key[p], res[p].val)
                                /\ Stored(key[p], res[p].val)
         /\ res[p].st # "ok" => UNCHANGED <<items, ll, ent>>
<1>. USE DEF RInv, IInv
<1>1. pc[p] = "computed" /\ key[p] \in Key
  BY DEF Install, CallArgs
<1>2. ASSUME res[p].st = "ok"
      PROVE  /\ res[p].val \in HeldVals /\ born[res[p].val] = key[p]
             /\ res[p].val \in Val /\ res[p].val \notin ToSet(ll)
             /\ SetLocked(key[p], res[p].val)
  <2>1. res[p].val \in Val /\ Holds(p, res[p].val) /\ res[p].val \notin ToSet(ll)
    BY <1>1, <1>2 DEF CallArgs, HeldApart, Holds
  <2>2. CallTrue(p) /\ res[p].val # None
    BY <2>1, LRUAssumption DEF CallsTrue
  <2> QED BY <1>1, <1>2, <2>1, <2>2 DEF Install, Installs, HeldVals, CallTrue
<1>3. res[p].st # "ok" => UNCHANGED <<items, ll, ent>>
  BY DEF Install, Installs
<1>4. res[p].st = "ok" => res[p].val \notin Gone /\ Stored(key[p], res[p].val)
  BY <1>1, <1>2, SetLockedStores DEF Accounted
<1> QED BY <1>1, <1>2, <1>3, <1>4

\* Every step leaves the entries alone or stores one value.
LEMMA EntryStep ==
  ASSUME RInv, Next
  PROVE  UNCHANGED ent \/ \E k \in Key, v \in Val : Stored(k, v)
<1>1. PICK p \in Proc : Call(p) \/ Work(p) \/ Return(p)
  BY DEF Next
<1>2. ASSUME NEW k \in Key, NEW v \in Val, Set(p, k, v) PROVE Stored(k, v)
  <2>1. SetLocked(k, v) /\ born[v] = None
    BY <1>2 DEF Set, Fresh
  <2>2. v \notin ToSet(ll)
    BY <2>1 DEF RInv, IInv, HeldApart
  <2> QED BY <2>1, <2>2, SetLockedStores
<1>3. CASE Install(p)
  BY <1>3, InstallFacts
<1>4. CASE Call(p)
  BY <1>2, <1>4 DEF Call, Get, GetNoTouch, GetOrCompute, GetOrComputeNoTouch, HitTouch,
     HitNoTouch, Join, Lead, Delete, Purge
<1>5. CASE Work(p) /\ ~Install(p)
  BY <1>5 DEF Work, ReadValue, SlowPath, HitNoTouch, Join, Lead, ComputeOk, ComputeFails, Evict
<1>6. CASE Return(p)
  BY <1>6 DEF Return
<1> QED BY <1>1, <1>3, <1>4, <1>5, <1>6

\* A value that has left the cache never comes back.
LEMMA GoneGrows ==
  ASSUME RInv, [Next]_vars
  PROVE  Gone \subseteq Gone'
<1>1. Accounted /\ Accounted' /\ [RC!RCNext]_(RC!rcVars)
  BY NextR DEF RInv
<1>2. StagesAgree /\ StagesAgree'
  BY <1>1, Stages, StagesNext
<1>3. Gone \subseteq Val
  BY HavePlaceTypes DEF RInv, Gone, PlaceTypes, PendingVals
<1>4. ASSUME NEW v \in Val, StageOf(v) \in {"retired", "released", "dropped"}
      PROVE  StageOf(v)' \in {"retired", "released", "dropped"}
  <2>. DEFINE s == [w \in Val |-> StageOf(w)]
              t == [w \in Val |-> StageOf(w)']
  <2>1. s[v] = StageOf(v) /\ t[v] = StageOf(v)'
    OBVIOUS
  <2>2. CASE UNCHANGED RC!rcVars
    <3>1. t = s
      BY <2>2 DEF RC!rcVars
    <3> QED BY <3>1, <2>1, <1>4
  <2>3. CASE RC!RCNext
    <3>1. ASSUME NEW k \in Key, NEW w \in Val, RC!Produce(k, w)
          PROVE  t[v] \in {"retired", "released", "dropped"}
      BY <3>1, <1>4 DEF RC!Produce
    <3>2. ASSUME NEW k \in Key, NEW w \in Val, NEW g \in SUBSET RC!In("cached"), RC!Put(k, w, g)
          PROVE  t[v] \in {"retired", "released", "dropped"}
      BY <3>2, <1>4 DEF RC!Put
    <3>3. ASSUME NEW g \in SUBSET RC!In("cached"), RC!Retire(g)
          PROVE  t[v] \in {"retired", "released", "dropped"}
      BY <3>3, <1>4 DEF RC!Retire
    <3>4. ASSUME NEW w \in Val, RC!Release(w)
          PROVE  t[v] \in {"retired", "released", "dropped"}
      BY <3>4, <1>4 DEF RC!Release
    <3> QED BY <2>1, <2>3, <3>1, <3>2, <3>3, <3>4 DEF RC!RCNext
  <2> QED BY <1>1, <2>2, <2>3
<1>5. \A v \in Val : v \in Gone <=> StageOf(v) \in {"retired", "released", "dropped"}
  BY <1>2 DEF StagesAgree, Gone
<1>6. \A v \in Val : v \in Gone' <=> StageOf(v)' \in {"retired", "released", "dropped"}
  BY <1>2 DEF StagesAgree, Gone
<1> QED BY <1>3, <1>4, <1>5, <1>6
-----------------------------------------------------------------------------
(* No stale results.                                                       *)

\* Where the element of a reader and the result of a call come from, in one step.
ReadFrom(q) ==
    pc'[q] = "read" =>
        \/ pc[q] = "read" /\ elem'[q] = elem[q]
        \/ pc[q] = "idle" /\ elem'[q] \in Val /\ ent'[elem'[q]].val \notin Gone
ResultFrom(q) ==
    pc'[q] = "returned" /\ res'[q].st = "ok" =>
        \/ pc[q] = "returned" /\ res'[q] = res[q]
        \/ pc[q] \in {"computed", "evicting"}
        \/ pc[q] = "read" /\ res'[q].val = ent[elem[q]].val
        \/ /\ pc[q] \in {"idle", "slow", "waiting"}
           /\ res'[q].val \notin Gone /\ res'[q].val # None
        \/ pc[q] = "waiting" /\ res'[q].val = None

\* A hit finds a value that has not left the cache.
LEMMA HitFresh ==
  ASSUME RInv, NEW k \in Key, items[k] # None
  PROVE  /\ items[k] \in Val /\ ent[items[k]].val \in Val
         /\ ent[items[k]].val \notin Gone /\ ent[items[k]].val # None
<1>1. items[k] \in Val /\ items[k] \in ToSet(ll) /\ ent[items[k]].val \in Val
  BY CacheFacts DEF RInv, IInv
<1>2. ent[items[k]].val \in CachedVals
  BY <1>1 DEF CachedVals
<1> QED BY <1>1, <1>2, LRUAssumption DEF RInv, Accounted

\* The steps of p that change nobody else's call.
LEMMA OwnCalls ==
  ASSUME RInv, NEW p \in Proc, NEW q \in Proc, q # p, Call(p) \/ Work(p) \/ Return(p), ~Install(p)
  PROVE  pc'[q] = pc[q] /\ elem'[q] = elem[q] /\ res'[q] = res[q]
<1>. USE DEF RInv, IInv, CallTypes, Begin, Finish, FinishEvicting
<1>1. CASE Call(p)
  <2>1. ASSUME NEW k \in Key, Get(p, k) \/ GetNoTouch(p, k)
        PROVE  pc'[q] = pc[q] /\ elem'[q] = elem[q] /\ res'[q] = res[q]
    BY <2>1 DEF Get, GetNoTouch, Look
  <2>2. ASSUME NEW k \in Key, GetOrCompute(p, k) \/ GetOrComputeNoTouch(p, k)
        PROVE  pc'[q] = pc[q] /\ elem'[q] = elem[q] /\ res'[q] = res[q]
    BY <2>2 DEF GetOrCompute, GetOrComputeNoTouch, HitTouch, HitNoTouch, Join, Lead
  <2>3. ASSUME NEW k \in Key, Delete(p, k) \/ Purge(p) \/ \E v \in Val : Set(p, k, v)
        PROVE  pc'[q] = pc[q] /\ elem'[q] = elem[q] /\ res'[q] = res[q]
    BY <2>3 DEF Delete, Purge, Set
  <2>4. CASE Purge(p)
    BY <2>4 DEF Purge
  <2> QED BY <1>1, <2>1, <2>2, <2>3, <2>4 DEF Call
<1>2. CASE Work(p)
  BY <1>2 DEF Work, ReadValue, SlowPath, HitNoTouch, Join, Lead, ComputeOk, ComputeFails, Evict
<1>3. CASE Return(p)
  BY <1>3 DEF Return
<1> QED BY <1>1, <1>2, <1>3

LEMMA CallSources ==
  ASSUME RInv, Next, NEW q \in Proc
  PROVE  ReadFrom(q) /\ ResultFrom(q)
<1>. USE DEF RInv, IInv
<1>1. PICK p \in Proc : Call(p) \/ Work(p) \/ Return(p)
  BY DEF Next
<1>2. CASE Install(p)
  <2>1. /\ pc[p] = "computed"
        /\ \A r \in Proc : pc'[r] \in {"returned", "evicting"} \/ pc'[r] = pc[r]
        /\ pc'[q] = IF q = p THEN pc'[p] ELSE IF q \in Waiters(p) THEN "returned" ELSE pc[q]
        /\ pc'[p] \in {"returned", "evicting"}
        /\ res'[q] = IF q \in Waiters(p) THEN Shared(res[p]) ELSE res[q]
        /\ UNCHANGED elem
    BY <1>2 DEF Install
  <2>2. ReadFrom(q)
    BY <2>1 DEF ReadFrom
  <2>3. CASE q \in Waiters(p)
    <3>1. pc[q] = "waiting" /\ res'[q] = Shared(res[p])
      BY <2>1, <2>3 DEF Waiters
    <3>2. res[p].st = "ok" => res[p].val \in Val /\ res[p].val \notin Gone
      BY <1>2, InstallFacts
    <3>3. \/ Shared(res[p]).val = None
          \/ Shared(res[p]).st = "ok" => res[p].st = "ok" /\ Shared(res[p]) = res[p]
      BY DEF Shared, Ok
    <3> QED BY <2>2, <3>1, <3>2, <3>3, LRUAssumption DEF ResultFrom
  <2>4. CASE q \notin Waiters(p)
    BY <2>1, <2>2, <2>4 DEF ResultFrom
  <2> QED BY <2>3, <2>4
<1>3. CASE q # p /\ ~Install(p)
  <2>1. pc'[q] = pc[q] /\ elem'[q] = elem[q] /\ res'[q] = res[q]
    BY <1>1, <1>3, OwnCalls
  <2> QED BY <2>1 DEF ReadFrom, ResultFrom
<1>4. CASE q = p /\ ~Install(p)
  <2>. SUFFICES ReadFrom(p) /\ ResultFrom(p)
    BY <1>4
  <2>1. ASSUME NEW k \in Key, Get(p, k) \/ GetNoTouch(p, k) PROVE ReadFrom(p) /\ ResultFrom(p)
    <3>1. pc[p] = "idle" /\ Look(p, k) /\ UNCHANGED ent
      BY <2>1 DEF Get, GetNoTouch, Begin
    <3>2. CASE items[k] = None
      BY <3>1, <3>2 DEF Look, Finish, Miss, ReadFrom, ResultFrom, CallTypes
    <3>3. CASE items[k] # None
      BY <3>1, <3>3, HitFresh DEF Look, ReadFrom, ResultFrom, CallTypes
    <3> QED BY <3>2, <3>3
  <2>2. ASSUME NEW k \in Key, pc[p] \in {"idle", "slow"}, HitTouch(p, k) \/ HitNoTouch(p, k)
        PROVE  ReadFrom(p) /\ ResultFrom(p)
    BY <2>2, HitFresh DEF HitTouch, HitNoTouch, Finish, Ok, ReadFrom, ResultFrom, CallTypes
  <2>3. ASSUME pc'[p] # "returned" \/ res'[p] = NoResult PROVE ResultFrom(p)
    BY <2>3 DEF ResultFrom, NoResult
  <2>4. ASSUME pc'[p] # "read" PROVE ReadFrom(p)
    BY <2>4 DEF ReadFrom
  <2>5. ASSUME NEW k \in Key, GetOrCompute(p, k) \/ GetOrComputeNoTouch(p, k)
        PROVE  ReadFrom(p) /\ ResultFrom(p)
    <3>1. CASE HitTouch(p, k) \/ HitNoTouch(p, k)
      BY <2>2, <2>5, <3>1 DEF GetOrCompute, GetOrComputeNoTouch, Begin
    <3>2. CASE ~(HitTouch(p, k) \/ HitNoTouch(p, k))
      BY <2>3, <2>4, <2>5, <3>2 DEF GetOrCompute, GetOrComputeNoTouch, Join, Lead, CallTypes
    <3> QED BY <3>1, <3>2
  <2>6. ASSUME \/ Purge(p) \/ \E k \in Key : Delete(p, k) \/ \E v \in Val : Set(p, k, v)
        PROVE  ReadFrom(p) /\ ResultFrom(p)
    <3>1. \E gone : FinishEvicting(p, gone, NoResult)
      BY <2>6 DEF Purge, Delete, Set
    <3> QED BY <2>3, <2>4, <3>1 DEF FinishEvicting, CallTypes
  <2>7. CASE ReadValue(p)
    BY <2>7 DEF ReadValue, Finish, Ok, ReadFrom, ResultFrom, CallTypes
  <2>8. CASE SlowPath(p)
    <3>1. pc[p] = "slow" /\ key[p] \in Key
      BY <2>8 DEF SlowPath, CallArgs
    <3>2. CASE HitNoTouch(p, key[p])
      BY <2>2, <3>1, <3>2
    <3>3. CASE ~HitNoTouch(p, key[p])
      BY <2>3, <2>4, <2>8, <3>3 DEF SlowPath, Join, Lead, CallTypes
    <3> QED BY <3>2, <3>3
  <2>9. ASSUME \/ \E v \in Val : ComputeOk(p, v)
               \/ (\E e \in Err : ComputeFails(p, Failed(e))) \/ ComputeFails(p, Panicked)
        PROVE  ReadFrom(p) /\ ResultFrom(p)
    <3>1. pc' = [pc EXCEPT ![p] = "computed"]
      BY <2>9 DEF ComputeOk, ComputeFails
    <3> QED BY <2>3, <2>4, <3>1 DEF CallTypes
  <2>10. CASE Evict(p)
    <3>1. pc[p] = "evicting" /\ pc'[p] \in {"returned", "evicting"}
      BY <2>10 DEF Evict, CallTypes
    <3> QED BY <3>1 DEF ReadFrom, ResultFrom
  <2>11. CASE Return(p)
    BY <2>3, <2>4, <2>11 DEF Return, CallTypes
  <2> QED BY <1>1, <1>4, <2>1, <2>5, <2>6, <2>7, <2>8, <2>9, <2>10, <2>11 DEF Call, Work
<1> QED BY <1>2, <1>3, <1>4
\* What a call must not return left the cache before it began; what it is about to
\* return did not.
StartTrue(p) ==
    /\ goneAtStart[p] \subseteq Gone
    /\ pc[p] \in {"idle", "computing", "computed", "evicting"} => goneAtStart[p] = {}
    /\ pc[p] = "read" => elem[p] \in Val /\ ent[elem[p]].val \notin goneAtStart[p]
    /\ pc[p] = "returned" /\ res[p].st = "ok" => res[p].val \notin goneAtStart[p]
StartsTrue == \A p \in Proc : StartTrue(p)

LEMMA StartsStep ==
  ASSUME RInv, StartsTrue, MCNext
  PROVE  StartsTrue'
<1>. SUFFICES ASSUME NEW q \in Proc PROVE StartTrue(q)'
  BY DEF StartsTrue
<1>1. Next \/ UNCHANGED vars
  BY MCStepIsStep
<1>2. Gone \subseteq Gone'
  BY <1>1, GoneGrows
<1>3. StartTrue(q) /\ (pc[q] = "read" => elem[q] \in Val)
  BY DEF StartsTrue, RInv, IInv, CallArgs
<1>4. ReadFrom(q) /\ ResultFrom(q)
  <2>1. CASE Next
    BY <2>1, CallSources
  <2>2. CASE UNCHANGED vars
    BY <2>2, <1>3, LRUAssumption DEF vars, ReadFrom, ResultFrom
  <2> QED BY <1>1, <2>1, <2>2
<1>5. \A e \in Val : ent'[e].val = ent[e].val \/ ent'[e].val \notin Gone
  <2>1. CASE Next
    BY <2>1, EntryStep DEF Stored
  <2>2. CASE UNCHANGED vars
    BY <2>2 DEF vars
  <2> QED BY <1>1, <2>1, <2>2
<1>6. goneAtStart'[q] =
         IF pc'[q] \in {"idle", "computing", "computed", "evicting"} THEN {}
         ELSE IF pc[q] = "idle" /\ Borrows(q) THEN Gone ELSE goneAtStart[q]
  BY DEF MCNext, NoteStart, Gone
<1>7. goneAtStart'[q] \subseteq Gone /\ None \notin Gone
  <2>1. Gone \subseteq Val
    BY HavePlaceTypes DEF RInv, Gone, PlaceTypes, PendingVals
  <2> QED BY <1>3, <1>6, <2>1, LRUAssumption DEF StartTrue
<1>8. ASSUME pc'[q] = "read"
      PROVE  elem'[q] \in Val /\ ent'[elem'[q]].val \notin goneAtStart'[q]
  <2>1. CASE pc[q] = "read" /\ elem'[q] = elem[q]
    <3>1. goneAtStart'[q] = goneAtStart[q]
      BY <1>6, <1>8, <2>1
    <3> QED BY <1>3, <1>5, <1>7, <2>1, <3>1 DEF StartTrue
  <2>2. CASE pc[q] = "idle" /\ elem'[q] \in Val /\ ent'[elem'[q]].val \notin Gone
    BY <1>7, <2>2
  <2> QED BY <1>4, <1>8, <2>1, <2>2 DEF ReadFrom
<1>9. ASSUME pc'[q] = "returned", res'[q].st = "ok"
      PROVE  res'[q].val \notin goneAtStart'[q]
  <2>1. CASE pc[q] = "idle" \/ res'[q].val \notin Gone \/ res'[q].val = None
    BY <1>4, <1>7, <1>9, <2>1 DEF ResultFrom
  <2>2. CASE pc[q] # "idle" /\ res'[q].val \in Gone /\ res'[q].val # None
    <3>1. goneAtStart'[q] = goneAtStart[q]
      BY <1>6, <1>9, <2>2
    <3> QED BY <1>3, <1>4, <1>9, <2>2, <3>1 DEF ResultFrom, StartTrue
  <2> QED BY <2>1, <2>2
<1> QED BY <1>2, <1>6, <1>7, <1>8, <1>9 DEF StartTrue

\* A call never returns a value that was evicted, overwritten or released before the
\* call began.
THEOREM NoStaleResultCorrect == MCSpec => []NoStaleResult
<1>1. MCInit => StartsTrue
  BY DEF MCInit, Init, StartsTrue, StartTrue
<1>2. RInv /\ StartsTrue /\ [MCNext]_mcVars => StartsTrue'
  <2>1. StartsTrue /\ UNCHANGED mcVars => StartsTrue'
    BY DEF StartsTrue, StartTrue, mcVars, vars, Gone, PendingVals
  <2> QED BY <2>1, StartsStep
<1>3. StartsTrue => NoStaleResult
  BY DEF StartsTrue, StartTrue, NoStaleResult
<1> QED BY <1>1, <1>2, <1>3, MCBooks, PTL DEF MCSpec
-----------------------------------------------------------------------------
(* Least recently used.  s and r stand for the list and for the history; a *)
(* lemma per operation says that both change alike, position by position.  *)

\* What moving the i-th element of s to the front leaves where.
LEMMA FrontAt ==
  ASSUME NEW S, NEW s \in Seq(S), NoDup(s), NEW i \in 1..Len(s)
  PROVE  LET t == Cons(s[i], RemoveFirst(s, s[i])) IN
         /\ t \in Seq(S) /\ Len(t) = Len(s) /\ NoDup(t)
         /\ \A j \in 1..Len(s) : t[j] = IF j = 1 THEN s[i] ELSE IF j <= i THEN s[j - 1] ELSE s[j]
<1>. DEFINE r == RemoveFirst(s, s[i])
            t == Cons(s[i], r)
<1>1. s[i] \in S /\ s[i] \in ToSet(s)
  BY InToSet
<1>2. /\ r \in Seq(S) /\ Len(r) = Len(s) - 1 /\ NoDup(r) /\ s[i] \notin ToSet(r)
      /\ \A j \in 1..(Len(s) - 1) : r[j] = IF j < i THEN s[j] ELSE s[j + 1]
  BY <1>1, RemoveFirstAt, RemoveFirstUnique
<1>. HIDE DEF r
<1>3. /\ Len(t) = Len(r) + 1
      /\ \A j \in 1..(Len(r) + 1) : t[j] = IF j = 1 THEN s[i] ELSE r[j - 1]
  BY <1>1, <1>2 DEF Cons
<1>4. t \in Seq(S)
  BY <1>1, <1>2, ConsFacts
<1>5. NoDup(t)
  <2>1. NoDup(r) /\ s[i] \notin ToSet(r) => NoDup(Cons(s[i], r))
    BY <1>1, <1>2, ConsFacts, Zenon
  <2> QED BY <1>2, <2>1
<1>. HIDE DEF t
<1>6. \A j \in 1..Len(s) : t[j] = IF j = 1 THEN s[i] ELSE IF j <= i THEN s[j - 1] ELSE s[j]
  BY <1>2, <1>3
<1> QED BY <1>2, <1>3, <1>4, <1>5, <1>6 DEF t, r

\* Position by position, the keys of the elements of s are the first ones of r.
Follows(s, r, k) ==
    /\ Len(s) <= Len(r)
    /\ \A i \in 1..Len(s) : k[s[i]] = r[i]

EntryKeys == [e \in Val |-> ent[e].key]

\* Touching a key that is in the list.
LEMMA TouchPresent ==
  ASSUME NEW S, NEW s \in Seq(S), NoDup(s), NEW R, NEW r \in Seq(R), NoDup(r),
         NEW k, Follows(s, r, k), NEW e \in ToSet(s)
  PROVE  /\ Follows(Cons(e, RemoveFirst(s, e)), Cons(k[e], RemoveFirst(r, k[e])), k)
         /\ Cons(k[e], RemoveFirst(r, k[e])) \in Seq(R)
         /\ NoDup(Cons(k[e], RemoveFirst(r, k[e])))
<1>1. PICK i \in 1..Len(s) : s[i] = e
  BY InToSet
<1>2. i \in 1..Len(r) /\ r[i] = k[e] /\ Len(s) <= Len(r)
  BY <1>1 DEF Follows
<1>. DEFINE t == Cons(e, RemoveFirst(s, e))
            u == Cons(k[e], RemoveFirst(r, k[e]))
<1>3. /\ t \in Seq(S) /\ Len(t) = Len(s)
      /\ \A j \in 1..Len(s) : t[j] = IF j = 1 THEN s[i] ELSE IF j <= i THEN s[j - 1] ELSE s[j]
  BY <1>1, FrontAt
<1>. HIDE DEF t
<1>4. /\ u \in Seq(R) /\ Len(u) = Len(r) /\ NoDup(u)
      /\ \A j \in 1..Len(r) : u[j] = IF j = 1 THEN r[i] ELSE IF j <= i THEN r[j - 1] ELSE r[j]
  <2>. DEFINE w == Cons(r[i], RemoveFirst(r, r[i]))
  <2>1. u = w
    BY <1>2
  <2>2. /\ w \in Seq(R) /\ Len(w) = Len(r) /\ NoDup(w)
        /\ \A j \in 1..Len(r) : w[j] = IF j = 1 THEN r[i] ELSE IF j <= i THEN r[j - 1] ELSE r[j]
    BY <1>2, FrontAt
  <2>. HIDE DEF u, w
  <2> QED BY <2>1, <2>2
<1>. HIDE DEF u
<1>5. ASSUME NEW j \in 1..Len(s) PROVE k[t[j]] = u[j]
  <2>1. j \in 1..Len(r) /\ (j # 1 => j - 1 \in 1..Len(s))
    BY <1>2
  <2> QED BY <1>1, <1>2, <1>3, <1>4, <2>1 DEF Follows
<1> QED BY <1>2, <1>3, <1>4, <1>5 DEF Follows, t, u

\* Touching a key that is not among the first ones of r.
LEMMA TouchAbsent ==
  ASSUME NEW R, NEW r \in Seq(R), NoDup(r), NEW x \in R, NEW n \in Nat, n <= Len(r),
         \A i \in 1..n : r[i] # x
  PROVE  LET u == Cons(x, RemoveFirst(r, x)) IN
         /\ u \in Seq(R) /\ NoDup(u) /\ n + 1 <= Len(u)
         /\ \A j \in 1..(n + 1) : u[j] = IF j = 1 THEN x ELSE r[j - 1]
<1>. DEFINE u == Cons(x, RemoveFirst(r, x))
<1>1. CASE x \in ToSet(r)
  <2>1. PICK i \in 1..Len(r) : r[i] = x
    BY <1>1, InToSet
  <2>2. n < i
    BY <2>1
  <2>5. u = Cons(r[i], RemoveFirst(r, r[i]))
    BY <2>1
  <2>. HIDE DEF u
  <2>3. /\ u \in Seq(R) /\ Len(u) = Len(r) /\ NoDup(u)
        /\ \A j \in 1..Len(r) : u[j] = IF j = 1 THEN r[i] ELSE IF j <= i THEN r[j - 1] ELSE r[j]
    BY <2>1, <2>5, FrontAt
  <2>4. \A j \in 1..(n + 1) : u[j] = IF j = 1 THEN x ELSE r[j - 1]
    BY <2>1, <2>2, <2>3
  <2> QED BY <2>1, <2>2, <2>3, <2>4 DEF u
<1>2. CASE x \notin ToSet(r)
  <2>1. u = Cons(x, r)
    BY <1>2, RemoveFirstAbsent
  <2>2. u \in Seq(R) /\ Len(u) = Len(r) + 1
    BY <2>1, ConsFacts
  <2>3. NoDup(u)
    <3>1. NoDup(r) /\ x \notin ToSet(r) => NoDup(Cons(x, r))
      BY ConsFacts, Zenon
    <3> QED BY <1>2, <2>1, <3>1
  <2>4. \A j \in 1..(n + 1) : u[j] = IF j = 1 THEN x ELSE r[j - 1]
    BY <2>1 DEF Cons
  <2> QED BY <2>2, <2>3, <2>4
<1> QED BY <1>1, <1>2
\* Deleting a key that is in the list, or one that is not among the first of r.
LEMMA ForgetPresent ==
  ASSUME NEW S, NEW s \in Seq(S), NoDup(s), NEW R, NEW r \in Seq(R), NoDup(r),
         NEW k, Follows(s, r, k), NEW e \in ToSet(s)
  PROVE  /\ Follows(RemoveFirst(s, e), RemoveFirst(r, k[e]), k)
         /\ RemoveFirst(r, k[e]) \in Seq(R) /\ NoDup(RemoveFirst(r, k[e]))
<1>1. PICK i \in 1..Len(s) : s[i] = e
  BY InToSet
<1>2. i \in 1..Len(r) /\ r[i] = k[e] /\ Len(s) <= Len(r)
  BY <1>1 DEF Follows
<1>. DEFINE t == RemoveFirst(s, e)
            u == RemoveFirst(r, k[e])
<1>3. /\ t \in Seq(S) /\ Len(t) = Len(s) - 1
      /\ \A j \in 1..(Len(s) - 1) : t[j] = IF j < i THEN s[j] ELSE s[j + 1]
  BY <1>1, RemoveFirstAt
<1>4. /\ u \in Seq(R) /\ Len(u) = Len(r) - 1
      /\ \A j \in 1..(Len(r) - 1) : u[j] = IF j < i THEN r[j] ELSE r[j + 1]
  BY <1>2, RemoveFirstAt
<1>5. k[e] \in ToSet(r)
  BY <1>2, InToSet
<1>6. NoDup(u)
  BY <1>5, RemoveFirstUnique
<1>. HIDE DEF t, u
<1>7. ASSUME NEW j \in 1..Len(t) PROVE k[t[j]] = u[j]
  <2>1. /\ j \in 1..(Len(s) - 1) /\ j \in 1..(Len(r) - 1)
        /\ j \in 1..Len(s) /\ j + 1 \in 1..Len(s)
    BY <1>2, <1>3
  <2> QED BY <1>3, <1>4, <2>1 DEF Follows
<1> QED BY <1>2, <1>3, <1>4, <1>6, <1>7 DEF Follows, t, u

LEMMA ForgetAbsent ==
  ASSUME NEW R, NEW r \in Seq(R), NoDup(r), NEW x, NEW n \in Nat, n <= Len(r),
         \A i \in 1..n : r[i] # x
  PROVE  LET u == RemoveFirst(r, x) IN
         /\ u \in Seq(R) /\ NoDup(u) /\ n <= Len(u)
         /\ \A j \in 1..n : u[j] = r[j]
<1>. DEFINE u == RemoveFirst(r, x)
<1>1. CASE x \in ToSet(r)
  <2>1. PICK i \in 1..Len(r) : r[i] = x
    BY <1>1, InToSet
  <2>2. n < i
    BY <2>1
  <2>3. /\ u \in Seq(R) /\ Len(u) = Len(r) - 1 /\ NoDup(u)
        /\ \A j \in 1..(Len(r) - 1) : u[j] = IF j < i THEN r[j] ELSE r[j + 1]
    BY <1>1, <2>1, RemoveFirstAt, RemoveFirstUnique
  <2>. HIDE DEF u
  <2>4. \A j \in 1..n : u[j] = r[j]
    BY <2>1, <2>2, <2>3
  <2> QED BY <2>1, <2>2, <2>3, <2>4 DEF u
<1>2. CASE x \notin ToSet(r)
  <2>1. u = r
    BY <1>2, RemoveFirstAbsent
  <2> QED BY <2>1
<1> QED BY <1>1, <1>2

\* The history has no key twice, and the entries follow it.
RecentInv ==
    /\ recent \in Seq(Key) /\ NoDup(recent)
    /\ Follows(ll, recent, EntryKeys)

LEMMA FollowsMeans ==
  ASSUME CacheInv
  PROVE  /\ \A e \in Val : EntryKeys[e] = ent[e].key
         /\ Follows(ll, recent, EntryKeys) <=> EvictsLeastRecent
<1>1. \A e \in Val : EntryKeys[e] = ent[e].key
  BY DEF EntryKeys
<1>2. DOMAIN ll = 1..Len(ll) /\ \A i \in 1..Len(ll) : ll[i] \in Val
  BY DEF CacheInv, CacheTypes
<1> QED BY <1>1, <1>2 DEF Follows, EvictsLeastRecent

\* The keys at the front of the history are those in the cache.
LEMMA PrefixKeys ==
  ASSUME CacheInv, RecentInv, NEW k \in Key, items[k] = None
  PROVE  \A i \in 1..Len(ll) : recent[i] # k
<1>. SUFFICES ASSUME NEW i \in 1..Len(ll), recent[i] = k PROVE FALSE
  OBVIOUS
<1>1. ll[i] \in Val /\ ll[i] \in ToSet(ll)
  BY InToSet DEF CacheInv, CacheTypes
<1>2. ent[ll[i]].key = k
  BY <1>1 DEF RecentInv, Follows, EntryKeys
<1>3. items[k] = ll[i]
  BY <1>1, <1>2 DEF CacheInv, MapMatchesList
<1> QED BY <1>1, <1>3, LRUAssumption
\* Listed elements keep their keys, whatever happens.
LEMMA KeysKept ==
  ASSUME RInv, Next
  PROVE  \A e \in ToSet(ll) : EntryKeys[e] = ent[e].key /\ EntryKeys'[e] = EntryKeys[e]
<1>. SUFFICES ASSUME NEW e \in ToSet(ll)
              PROVE  EntryKeys[e] = ent[e].key /\ EntryKeys'[e] = EntryKeys[e]
  OBVIOUS
<1>1. e \in Val /\ ent[e].key # None
  BY ListedIsVal, LRUAssumption DEF RInv, IInv, CacheInv, ListedEntries
<1>2. ent'[e].key = ent[e].key
  BY <1>1, EntryStep DEF Stored
<1> QED BY <1>1, <1>2 DEF EntryKeys

\* A promotion of key k, in the list and in the history.
LEMMA PromoteFollows ==
  ASSUME RInv, Next, RecentInv, NEW k \in Key, items[k] # None,
         ll' = MoveToFront(items[k]), Touch(k)
  PROVE  RecentInv'
<1>. DEFINE e == items[k]
<1>1. e \in ToSet(ll) /\ ent[e].key = k /\ ll \in Seq(Val) /\ NoDup(ll)
  BY CacheFacts DEF RInv, IInv, CacheInv, CacheTypes
<1>2. EntryKeys[e] = k
  BY <1>1, KeysKept
<1>. DEFINE t == Cons(e, RemoveFirst(ll, e))
            u == Cons(EntryKeys[e], RemoveFirst(recent, EntryKeys[e]))
<1>3. Follows(t, u, EntryKeys) /\ u \in Seq(Key) /\ NoDup(u)
  BY <1>1, TouchPresent DEF RecentInv
<1>4. ll' = t /\ recent' = u
  BY <1>2 DEF MoveToFront, Touch
<1>5. t \in Seq(Val) /\ ToSet(t) = ToSet(ll)
  BY <1>1, MoveToFrontPermutes DEF MoveToFront
<1>. HIDE DEF t, u
<1>6. \A i \in 1..Len(t) : EntryKeys'[t[i]] = EntryKeys[t[i]]
  BY <1>5, KeysKept, InToSet
<1>7. Follows(t, u, EntryKeys')
  BY <1>3, <1>6 DEF Follows
<1> QED BY <1>3, <1>4, <1>7 DEF RecentInv, NoDup, Follows

\* An insertion of key k with the evictions it causes.
LEMMA InsertFollows ==
  ASSUME RInv, Next, RecentInv, NEW k \in Key, NEW v \in Val, v \notin ToSet(ll),
         items[k] = None, Insert(k, v), Touch(k)
  PROVE  RecentInv'
<1>1. ll \in Seq(Val) /\ CacheInv
  BY DEF RInv, IInv, CacheInv, CacheTypes
<1>. DEFINE n == Len(ll)
            t == Kept(Cons(v, ll))
            u == Cons(k, RemoveFirst(recent, k))
<1>2. ll' = t /\ recent' = u
  BY DEF Insert, Touch
<1>3. n \in Nat /\ n <= Len(recent) /\ \A i \in 1..n : recent[i] # k
  BY <1>1, PrefixKeys DEF RecentInv, Follows
<1>4. /\ u \in Seq(Key) /\ NoDup(u) /\ n + 1 <= Len(u)
      /\ \A j \in 1..(n + 1) : u[j] = IF j = 1 THEN k ELSE recent[j - 1]
  BY <1>3, TouchAbsent DEF RecentInv
<1>5. /\ t \in Seq(Val)
      /\ Len(t) = IF n < capacity THEN n + 1 ELSE capacity
      /\ \A j \in 1..Len(t) : t[j] = IF j = 1 THEN v ELSE ll[j - 1]
  <2>1. t \in Seq(Val)
    BY <1>1, PushEvicts DEF CacheInv
  <2> QED BY <1>1, <2>1, PushLength
<1>6. EntryKeys'[v] = k
  BY <1>1 DEF EntryKeys, Insert, CacheInv, CacheTypes
<1>. HIDE DEF t, u
<1>7. Len(t) <= n + 1
  BY <1>1, <1>3, <1>5, CapacityPositive
<1>8. ASSUME NEW j \in 1..Len(t) PROVE EntryKeys'[t[j]] = u[j]
  <2>1. j \in 1..(n + 1)
    BY <1>3, <1>5, <1>7
  <2>2. CASE j = 1
    BY <1>4, <1>5, <1>6, <2>1, <2>2
  <2>3. CASE j # 1
    <3>1. j - 1 \in 1..n /\ t[j] = ll[j - 1] /\ u[j] = recent[j - 1]
      BY <1>3, <1>4, <1>5, <2>1, <2>3
    <3>2. ll[j - 1] \in ToSet(ll)
      BY <1>1, <3>1, InToSet
    <3> QED BY <3>1, <3>2, KeysKept DEF RecentInv, Follows
  <2> QED BY <2>2, <2>3
<1>9. Follows(t, u, EntryKeys')
  BY <1>3, <1>4, <1>5, <1>7, <1>8 DEF Follows
<1> QED BY <1>2, <1>4, <1>9 DEF RecentInv, NoDup, Follows

\* The list and the history stay as they are.
LEMMA RestFollows ==
  ASSUME RInv, Next, RecentInv, UNCHANGED <<ll, recent>>
  PROVE  RecentInv'
<1>1. \A i \in 1..Len(ll) : EntryKeys'[ll[i]] = EntryKeys[ll[i]]
  BY KeysKept, InToSet DEF RInv, IInv, CacheInv, CacheTypes
<1>2. Follows(ll, recent, EntryKeys')
  BY <1>1 DEF RecentInv, Follows
<1> QED BY <1>2 DEF RecentInv, NoDup, Follows

\* setLocked touches its key.
LEMMA SetLockedFollows ==
  ASSUME RInv, Next, RecentInv, NEW k \in Key, NEW v \in Val, v \notin ToSet(ll),
         SetLocked(k, v), Touch(k)
  PROVE  RecentInv'
BY PromoteFollows, InsertFollows DEF SetLocked, Overwrite

LEMMA DeleteFollows ==
  ASSUME RInv, Next, RecentInv, NEW p \in Proc, NEW k \in Key, Delete(p, k), Forget(k)
  PROVE  RecentInv'
<1>1. ll \in Seq(Val) /\ NoDup(ll) /\ CacheInv
  BY DEF RInv, IInv, CacheInv, CacheTypes
<1>2. CASE items[k] = None
  <2>. DEFINE n == Len(ll)
              u == RemoveFirst(recent, k)
  <2>1. ll' = ll /\ recent' = u
    BY <1>2 DEF Delete, Forget
  <2>2. n \in Nat /\ n <= Len(recent) /\ \A i \in 1..n : recent[i] # k
    BY <1>1, <1>2, PrefixKeys DEF RecentInv, Follows
  <2>3. u \in Seq(Key) /\ NoDup(u) /\ n <= Len(u) /\ \A j \in 1..n : u[j] = recent[j]
    BY <2>2, ForgetAbsent DEF RecentInv
  <2>. HIDE DEF u
  <2>4. \A i \in 1..n : EntryKeys'[ll[i]] = EntryKeys[ll[i]]
    BY <1>1, KeysKept, InToSet
  <2>5. Follows(ll, u, EntryKeys')
    BY <2>3, <2>4 DEF RecentInv, Follows
  <2> QED BY <2>1, <2>3, <2>5 DEF RecentInv, NoDup, Follows
<1>3. CASE items[k] # None
  <2>. DEFINE e == items[k]
              t == RemoveFirst(ll, e)
              u == RemoveFirst(recent, EntryKeys[e])
  <2>1. e \in ToSet(ll) /\ ent[e].key = k
    BY <1>1, <1>3, CacheFacts
  <2>2. EntryKeys[e] = k
    BY <2>1, KeysKept
  <2>3. ll' = t /\ recent' = u
    BY <1>3, <2>2 DEF Delete, Forget
  <2>4. Follows(t, u, EntryKeys) /\ u \in Seq(Key) /\ NoDup(u)
    BY <1>1, <2>1, ForgetPresent DEF RecentInv
  <2>5. t \in Seq(Val) /\ ToSet(t) \subseteq ToSet(ll)
    BY <1>1, <2>1, RemoveFirstUnique
  <2>. HIDE DEF t, u
  <2>6. \A i \in 1..Len(t) : EntryKeys'[t[i]] = EntryKeys[t[i]]
    BY <2>5, KeysKept, InToSet
  <2>7. Follows(t, u, EntryKeys')
    BY <2>4, <2>6 DEF Follows
  <2> QED BY <2>3, <2>4, <2>7 DEF RecentInv, NoDup, Follows
<1> QED BY <1>2, <1>3

LEMMA RecentStep ==
  ASSUME RInv, RecentInv, MCNext
  PROVE  RecentInv'
<1>1. PICK p \in Proc :
          \/ \E k \in Key : \/ MCGet(p, k) \/ MCGetOrCompute(p, k) \/ MCDelete(p, k)
                            \/ \E v \in Val : MCSet(p, k, v)
          \/ MCInstall(p) \/ MCPurge(p) \/ MCOther(p)
  BY DEF MCNext
<1>2. Next
  BY <1>1 DEF Next, Call, Work, MCGet, MCGetOrCompute, MCDelete, MCSet, MCInstall, MCPurge, MCOther
<1>3. ASSUME NEW k \in Key, MCGet(p, k) PROVE RecentInv'
  BY <1>2, <1>3, PromoteFollows, RestFollows DEF MCGet, Get, TouchIf
<1>4. ASSUME NEW k \in Key, MCGetOrCompute(p, k) PROVE RecentInv'
  <2>1. CASE items[k] # None
    BY <1>2, <1>4, <2>1, PromoteFollows DEF MCGetOrCompute, GetOrCompute, HitTouch, Join, Lead, TouchIf
  <2>2. CASE items[k] = None
    BY <1>2, <1>4, <2>2, RestFollows DEF MCGetOrCompute, GetOrCompute, HitTouch, Join, Lead, TouchIf
  <2> QED BY <2>1, <2>2
<1>5. ASSUME NEW k \in Key, MCDelete(p, k) PROVE RecentInv'
  BY <1>2, <1>5, DeleteFollows DEF MCDelete
<1>6. ASSUME NEW k \in Key, NEW v \in Val, MCSet(p, k, v) PROVE RecentInv'
  <2>1. SetLocked(k, v) /\ born[v] = None /\ Touch(k)
    BY <1>6 DEF MCSet, Set, Fresh
  <2>2. v \notin ToSet(ll)
    BY <2>1 DEF RInv, IInv, HeldApart
  <2> QED BY <1>2, <2>1, <2>2, SetLockedFollows
<1>7. CASE MCInstall(p)
  <2>1. CASE res[p].st = "ok"
    BY <1>2, <1>7, <2>1, InstallFacts, SetLockedFollows DEF MCInstall, TouchIf
  <2>2. CASE res[p].st # "ok"
    BY <1>2, <1>7, <2>2, InstallFacts, RestFollows DEF MCInstall, TouchIf
  <2> QED BY <2>1, <2>2
<1>8. CASE MCPurge(p)
  <2>1. ll' = <<>> /\ recent' = <<>>
    BY <1>8 DEF MCPurge, Purge
  <2> QED BY <2>1 DEF RecentInv, NoDup, Follows
<1>9. CASE MCOther(p)
  BY <1>2, <1>9, RestFollows DEF MCOther, GetNoTouch, GetOrComputeNoTouch, HitNoTouch,
     Join, Lead, ReadValue, SlowPath, ComputeOk, ComputeFails, Evict, Return
<1> QED BY <1>1, <1>3, <1>4, <1>5, <1>6, <1>7, <1>8, <1>9

\* The list is the history of touches, cut off: every eviction takes the least
\* recently touched entries, for every capacity.
THEOREM EvictsLeastRecentCorrect == MCSpec => []EvictsLeastRecent
<1>1. MCInit => RecentInv
  BY DEF MCInit, Init, RecentInv, NoDup, Follows
<1>2. RInv /\ RecentInv /\ [MCNext]_mcVars => RecentInv'
  <2>1. RecentInv /\ UNCHANGED mcVars => RecentInv'
    BY DEF RecentInv, Follows, NoDup, EntryKeys, mcVars, vars
  <2> QED BY <2>1, RecentStep
<1>3. RInv /\ RecentInv => EvictsLeastRecent
  BY FollowsMeans DEF RInv, IInv, RecentInv
<1> QED BY <1>1, <1>2, <1>3, MCBooks, PTL DEF MCSpec
-----------------------------------------------------------------------------
(* The sizes of sharded caches.  The loops of nextPow2 and prevPow2 double *)
(* p while it is in a bounded set of numbers, Short.  Induction is by the  *)
(* least or greatest number of a set.                                      *)

\* A set of natural numbers has a least one.
LEMMA LeastNumber ==
  ASSUME NEW S \in SUBSET Nat, S # {}
  PROVE  \E x \in S : \A y \in S : x <= y
<1>. DEFINE Less == {r \in Nat \X Nat : r[1] < r[2]}
<1>1. IsWellFoundedOn(Less, Nat)
  BY NatLessThanWellFounded DEF OpToRel
<1>2. PICK x \in S : \A y \in S : ~(<<y, x>> \in Less)
  <2>. HIDE DEF Less
  <2> QED BY <1>1, WFMin
<1>3. ASSUME NEW y \in S PROVE x <= y
  <2>1. x \in Nat /\ y \in Nat /\ <<y, x>> \notin Less
    BY <1>2
  <2> QED BY <2>1
<1> QED BY <1>3

\* A bounded set of natural numbers has a greatest one.
LEMMA GreatestNumber ==
  ASSUME NEW b \in Nat, NEW S \in SUBSET (0..b), S # {}
  PROVE  \E x \in S : \A y \in S : y <= x
<1>. DEFINE Below == {k \in 0..b : b - k \in S}
<1>1. Below # {} /\ Below \in SUBSET Nat
  <2>1. PICK x \in S : TRUE
    OBVIOUS
  <2>2. b - x \in 0..b /\ b - (b - x) = x
    OBVIOUS
  <2> QED BY <2>1, <2>2
<1>2. PICK k \in Below : \A j \in Below : k <= j
  <2>. HIDE DEF Below
  <2> QED BY <1>1, LeastNumber
<1>3. ASSUME NEW y \in S PROVE y <= b - k
  <2>1. b - y \in 0..b /\ b - (b - y) = y
    OBVIOUS
  <2>2. b - y \in Below
    BY <2>1
  <2>3. k <= b - y
    BY <1>2, <2>2
  <2> QED BY <2>3
<1> QED BY <1>2, <1>3

\* f returns what the loop has in p at its end when it begins with p, for p >= m.
Doubles(f, Short, m) ==
    \A p \in Nat : p >= m => f[p] = IF p \in Short THEN f[2 * p] ELSE p

\* The loop ends, so the recursive function is defined.
LEMMA LoopDefined ==
  ASSUME NEW b \in Nat, NEW Short \in SUBSET (0..b)
  PROVE  \E f : f = [p \in Nat |-> IF p \in Short THEN f[2 * p] ELSE p]
<1>. DEFINE From == {m \in Nat : \E f \in [Nat -> Nat] : Doubles(f, Short, m)}
<1>1. b + 1 \in From
  <2>1. [p \in Nat |-> p] \in [Nat -> Nat] /\ Doubles([p \in Nat |-> p], Short, b + 1)
    BY DEF Doubles
  <2> QED BY <2>1
<1>2. PICK m \in From : \A k \in From : m <= k
  <2>1. From # {} /\ From \in SUBSET Nat
    BY <1>1
  <2>. HIDE DEF From
  <2> QED BY <2>1, LeastNumber
<1>3. PICK f \in [Nat -> Nat] : Doubles(f, Short, m)
  BY <1>2
<1>4. m = 0
  <2> SUFFICES ASSUME m # 0 PROVE FALSE
    OBVIOUS
  <2>. DEFINE k == m - 1
              g == [p \in Nat |-> IF p = k THEN IF k = 0 THEN 0
                                                ELSE IF k \in Short THEN f[2 * k] ELSE k
                                  ELSE f[p]]
  <2>1. k \in Nat /\ k + 1 = m
    BY <1>2
  <2>2. g \in [Nat -> Nat]
    BY <1>3, <2>1
  <2>3. ASSUME NEW p \in Nat, p >= k PROVE g[p] = IF p \in Short THEN g[2 * p] ELSE p
    <3>1. CASE p = k /\ k # 0
      <4>1. 2 * k \in Nat /\ 2 * k # k
        BY <2>1, <3>1
      <4> QED BY <3>1, <4>1
    <3>2. CASE p = k /\ k = 0
      <4>1. 2 * p = p
        BY <3>2
      <4> QED BY <3>2, <4>1
    <3>3. CASE p # k
      <4>1. p >= m /\ 2 * p \in Nat /\ 2 * p # k
        BY <2>1, <2>3, <3>3
      <4> QED BY <1>3, <3>3, <4>1 DEF Doubles
    <3> QED BY <3>1, <3>2, <3>3
  <2>4. k \in From
    <3>1. Doubles(g, Short, k)
      <4>. HIDE DEF g, k
      <4> QED BY <2>3 DEF Doubles
    <3> QED BY <2>1, <2>2, <3>1
  <2> QED BY <1>2, <2>1, <2>4
<1>5. f = [p \in Nat |-> IF p \in Short THEN f[2 * p] ELSE p]
  <2>1. \A p \in Nat : f[p] = IF p \in Short THEN f[2 * p] ELSE p
    BY <1>3, <1>4 DEF Doubles
  <2> QED BY <1>3, <2>1
<1> QED BY <1>5

\* Where the loop ends, p is not in Short, and has what 1 has and doubling keeps.
LEMMA LoopResult ==
  ASSUME NEW b \in Nat, NEW Short \in SUBSET (0..b),
         NEW f, f = [p \in Nat |-> IF p \in Short THEN f[2 * p] ELSE p],
         NEW S \in SUBSET (Nat \ {0}), 1 \in S, \A p \in S : p \in Short => 2 * p \in S
  PROVE  f[1] \in S /\ f[1] \notin Short
<1>. DEFINE Bad == {p \in S : ~(f[p] \in S /\ f[p] \notin Short)}
<1>1. \A p \in Nat : f[p] = IF p \in Short THEN f[2 * p] ELSE p
  OBVIOUS
<1>2. Bad = {}
  <2> SUFFICES ASSUME Bad # {} PROVE FALSE
    OBVIOUS
  <2>1. ASSUME NEW p \in Bad PROVE p \in Short /\ 2 * p \in Bad
    <3>1. p \in Nat /\ p \in S
      OBVIOUS
    <3>2. p \in Short
      BY <1>1, <3>1
    <3>3. f[p] = f[2 * p] /\ 2 * p \in S
      BY <1>1, <3>1, <3>2
    <3> QED BY <3>2, <3>3
  <2>2. Bad \in SUBSET (0..b)
    <3>. HIDE DEF Bad
    <3> QED BY <2>1
  <2>3. \A p \in Bad : p \in Nat /\ p # 0
    OBVIOUS
  <2>. HIDE DEF Bad
  <2>4. PICK p \in Bad : \A q \in Bad : q <= p
    BY <2>2, GreatestNumber
  <2>5. 2 * p <= p
    BY <2>1, <2>4
  <2> QED BY <2>3, <2>4, <2>5
<1> QED BY <1>2
-----------------------------------------------------------------------------
\* The recursive functions that nextPow2 and prevPow2 apply to 1.
NextLoop(n) == CHOOSE f : f = [p \in Nat |-> IF p < n THEN f[2 * p] ELSE p]
PrevLoop(n) == CHOOSE f : f = [p \in Nat |-> IF 2 * p <= n THEN f[2 * p] ELSE p]

\* The powers of two: all numbers that can be reached from 1 by doubling.
PowerOfTwo(n) ==
    \A S \in SUBSET Nat : 1 \in S /\ (\A p \in S : 2 * p \in S) => n \in S

\* nextPow2 returns a power of two that is not less than n.
LEMMA NextPow ==
  ASSUME NEW n \in Nat
  PROVE  nextPow2(n) \in Nat \ {0} /\ nextPow2(n) >= n /\ PowerOfTwo(nextPow2(n))
<1>. DEFINE Short == {p \in Nat : p < n}
            f == NextLoop(n)
<1>1. Short \in SUBSET (0..n)
  OBVIOUS
<1>2. f = [p \in Nat |-> IF p < n THEN f[2 * p] ELSE p]
  <2>1. PICK g : g = [p \in Nat |-> IF p \in Short THEN g[2 * p] ELSE p]
    <3>. HIDE DEF Short
    <3> QED BY <1>1, LoopDefined
  <2>2. g = [p \in Nat |-> IF p < n THEN g[2 * p] ELSE p]
    BY <2>1
  <2> QED BY <2>2, Zenon DEF NextLoop
<1>3. f = [p \in Nat |-> IF p \in Short THEN f[2 * p] ELSE p]
  <2>. HIDE DEF f
  <2> QED BY <1>2
<1>4. ASSUME NEW S \in SUBSET (Nat \ {0}), 1 \in S, \A p \in S : p \in Short => 2 * p \in S
      PROVE  f[1] \in S /\ f[1] \notin Short
  <2>. HIDE DEF f, Short
  <2> QED BY <1>1, <1>3, <1>4, LoopResult
<1>5. nextPow2(n) = f[1]
  BY DEF nextPow2, NextLoop
<1>. HIDE DEF f
<1>6. f[1] \in Nat \ {0} /\ f[1] \notin Short
  <2>1. /\ Nat \ {0} \in SUBSET (Nat \ {0}) /\ 1 \in Nat \ {0}
        /\ \A p \in Nat \ {0} : 2 * p \in Nat \ {0}
    OBVIOUS
  <2>. HIDE DEF Short
  <2> QED BY <1>4, <2>1
<1>7. ASSUME NEW S \in SUBSET Nat, 1 \in S, \A p \in S : 2 * p \in S PROVE f[1] \in S
  <2>1. 1 \in S \ {0} /\ \A p \in S \ {0} : 2 * p \in S \ {0}
    BY <1>7
  <2>. HIDE DEF Short
  <2> QED BY <1>4, <2>1
<1> QED BY <1>5, <1>6, <1>7 DEF PowerOfTwo

\* prevPow2 returns a power of two that is not greater than n.
LEMMA PrevPow ==
  ASSUME NEW n \in Nat \ {0}
  PROVE  prevPow2(n) \in 1..n /\ PowerOfTwo(prevPow2(n))
<1>. DEFINE Short == {p \in Nat : 2 * p <= n}
            f == PrevLoop(n)
<1>1. Short \in SUBSET (0..n)
  OBVIOUS
<1>2. f = [p \in Nat |-> IF 2 * p <= n THEN f[2 * p] ELSE p]
  <2>1. PICK g : g = [p \in Nat |-> IF p \in Short THEN g[2 * p] ELSE p]
    <3>. HIDE DEF Short
    <3> QED BY <1>1, LoopDefined
  <2>2. g = [p \in Nat |-> IF 2 * p <= n THEN g[2 * p] ELSE p]
    BY <2>1
  <2> QED BY <2>2, Zenon DEF PrevLoop
<1>3. f = [p \in Nat |-> IF p \in Short THEN f[2 * p] ELSE p]
  <2>. HIDE DEF f
  <2> QED BY <1>2
<1>4. ASSUME NEW S \in SUBSET (Nat \ {0}), 1 \in S, \A p \in S : p \in Short => 2 * p \in S
      PROVE  f[1] \in S
  <2>. HIDE DEF f, Short
  <2> QED BY <1>1, <1>3, <1>4, LoopResult
<1>5. prevPow2(n) = f[1]
  BY DEF prevPow2, PrevLoop
<1>. HIDE DEF f
<1>6. f[1] \in 1..n
  <2>1. 1 \in 1..n /\ 1..n \in SUBSET (Nat \ {0}) /\ \A p \in 1..n : p \in Short => 2 * p \in 1..n
    OBVIOUS
  <2>. HIDE DEF Short
  <2> QED BY <1>4, <2>1
<1>7. ASSUME NEW S \in SUBSET Nat, 1 \in S, \A p \in S : 2 * p \in S PROVE f[1] \in S
  <2>1. 1 \in S \ {0} /\ \A p \in S \ {0} : 2 * p \in S \ {0}
    BY <1>7
  <2>. HIDE DEF Short
  <2> QED BY <1>4, <2>1
<1> QED BY <1>5, <1>6, <1>7 DEF PowerOfTwo

\* Whatever is asked for, a sharded cache has a power of two of shards, so that
\* hash & mask names one, and full shards together stay within the capacity
\* (sharded.go:6, 38).
THEOREM ShardsShareTotal ==
  ASSUME NEW t \in Int, NEW n \in Int
  PROVE  /\ Shards(t, n) \in Nat \ {0} /\ PowerOfTwo(Shards(t, n))
         /\ PerShard(t, n) \in Nat \ {0}
         /\ Shards(t, n) * PerShard(t, n) <= Total(t)
<1>1. Total(t) \in Nat \ {0}
  BY DEF Total
<1>2. RoundedShards(n) \in Nat \ {0} /\ PowerOfTwo(RoundedShards(n))
  BY NextPow DEF RoundedShards, defaultShardCount
<1>3. /\ Shards(t, n) \in Nat \ {0} /\ PowerOfTwo(Shards(t, n))
      /\ Shards(t, n) <= Total(t)
  BY <1>1, <1>2, PrevPow DEF Shards
<1>4. ASSUME NEW T \in Nat, NEW s \in Nat, s >= 1, s <= T
      PROVE  T \div s \in Nat /\ T \div s >= 1 /\ s * (T \div s) <= T
  BY <1>4
<1>5. PICK T \in Nat, s \in Nat : T = Total(t) /\ s = Shards(t, n)
  BY <1>1, <1>3
<1>6. PerShard(t, n) = T \div s
  BY <1>3, <1>4, <1>5 DEF PerShard
<1> QED BY <1>3, <1>4, <1>5, <1>6

\* The powers of two there are among the numbers of shards that the run tries.
LEMMA SmallPowers ==
  ASSUME NEW n \in Nat, n <= 64, PowerOfTwo(n)
  PROVE  \E i \in 0..6 : n = 2^i
<1>. DEFINE S == {1, 2, 4, 8, 16, 32, 64} \cup {p \in Nat : p > 64}
<1>1. S \in SUBSET Nat /\ 1 \in S /\ \A p \in S : 2 * p \in S
  OBVIOUS
<1>2. n \in S
  <2>. HIDE DEF S
  <2> QED BY <1>1 DEF PowerOfTwo
<1>3. n \in {1, 2, 4, 8, 16, 32, 64}
  BY <1>2
<1>4. 1 = 2^0 /\ 2 = 2^1 /\ 4 = 2^2 /\ 8 = 2^3 /\ 16 = 2^4 /\ 32 = 2^5 /\ 64 = 2^6
  OBVIOUS
<1>5. 0 \in 0..6 /\ 1 \in 0..6 /\ 2 \in 0..6 /\ 3 \in 0..6 /\ 4 \in 0..6 /\ 5 \in 0..6 /\ 6 \in 0..6
  OBVIOUS
<1> QED BY <1>3, <1>4, <1>5, Zenon

\* However the operations on its shards interleave, no sharded cache made of caches
\* like this one holds more than it was asked to, and hash & mask names a shard
\* (sharded.go:6, 38).
THEOREM ShardedBoundedCorrect == MCSpec => []ShardedBounded
<1>1. ASSUME RInv, NEW t \in -1..40, NEW n \in -1..17, PerShard(t, n) = capacity
      PROVE  /\ Shards(t, n) * Len(ll) <= Total(t)
             /\ \E i \in 0..6 : Shards(t, n) = 2^i
  <2>1. PICK l \in Nat : l = Len(ll) /\ l <= capacity
    BY <1>1 DEF RInv, IInv, CacheInv, CacheTypes, Bounded
  <2>2. PICK s \in Nat, c \in Nat, T \in Nat :
           s = Shards(t, n) /\ c = PerShard(t, n) /\ T = Total(t)
    <3>1. Total(t) \in Nat
      BY DEF Total
    <3>2. t \in Int /\ n \in Int
      OBVIOUS
    <3>3. Shards(t, n) \in Nat \ {0} /\ PerShard(t, n) \in Nat \ {0}
      BY <3>2, ShardsShareTotal
    <3> QED BY <3>1, <3>3
  <2>3. s * c <= T /\ PowerOfTwo(s) /\ c >= 1
    BY <2>2, ShardsShareTotal
  <2>4. T <= 40
    BY <2>2 DEF Total
  <2>5. l <= c
    BY <1>1, <2>1, <2>2
  <2>6. s * l <= T /\ s <= T
    <3>1. s * l <= s * c /\ s <= s * c
      BY <2>3, <2>5
    <3>2. s * l \in Nat /\ s * c \in Nat
      OBVIOUS
    <3> QED BY <2>3, <3>1, <3>2
  <2>7. \E i \in 0..6 : s = 2^i
    BY <2>3, <2>4, <2>6, SmallPowers
  <2> QED BY <2>1, <2>2, <2>6, <2>7
<1>2. RInv => ShardedBounded
  <2> SUFFICES ASSUME RInv, NEW c \in MadeOfThese
               PROVE  c.shards * Len(ll) <= c.total /\ \E i \in 0..6 : c.shards = 2^i
    BY DEF ShardedBounded
  <2>1. PICK r \in Requests : /\ PerShard(r[1], r[2]) = capacity
                              /\ c = [total |-> Total(r[1]), shards |-> Shards(r[1], r[2])]
    BY DEF MadeOfThese
  <2>2. r[1] \in -1..40 /\ r[2] \in -1..17
    BY DEF Requests
  <2>3. c.total = Total(r[1]) /\ c.shards = Shards(r[1], r[2])
    BY <2>1
  <2> QED BY <1>1, <2>1, <2>2, <2>3
<1> QED BY <1>2, MCBooks, PTL

=============================================================================
