-------------------------- MODULE PlanCacheProofs --------------------------
(***************************************************************************)
(* What the plan cache itself guarantees, for any number of goroutines,    *)
(* builders, shapes and compiled queries: a call's compiled query was made *)
(* from a builder of its own shape, whoever compiled it and whatever was   *)
(* evicted meanwhile.  Whether its statement is then the right one is a    *)
(* question to the pipeline alone (SharingSound, KeySound), which module   *)
(* MCPlanCache answers for its builders.                                   *)
(***************************************************************************)
EXTENDS PlanCache, TLAPS

\* The pipeline is right for a call on its own, and two builders of one shape may
\* use each other's compiled query, request-scoped ones excepted.
SharingSound ==
    /\ \A r \in Request : Executes(r, Compiled(r)) = Asks(r)
    /\ \A q, r \in Request :
          Shape(q) = Shape(r) /\ ~RequestScoped(q) /\ ~RequestScoped(r)
          => Executes(q, Compiled(r)) = Asks(q)

\* Compiled queries with one CacheKey return the same columns.
KeySound == \A c, d \in Compilable : ScanKey(c) = ScanKey(d) => Columns(c) = Columns(d)

\* r may have compiled what q runs.
Shares(q, r) ==
    \/ q = r
    \/ Shape(q) = Shape(r) /\ ~RequestScoped(q) /\ ~RequestScoped(r)

\* While plans are shared no call is request-scoped.
NoneScoped ==
    \A p \in Proc : request[p] # None /\ pluginsCacheSafe => ~RequestScoped(request[p])

\* A cached compiled query was compiled from a builder of its key's shape.
CachedOfShape ==
    \A s \in Shapes : compiledCache[s] # None =>
        \E r \in Request : /\ Shape(r) = s /\ compiledCache[s] = Compiled(r)
                           /\ ~RequestScoped(r)

\* A call's compiled query is its own or one it may share.
OwnOrShared ==
    \A p \in Proc : cq[p] # None =>
        \E r \in Request : Shares(request[p], r) /\ cq[p] = Compiled(r)

\* Only calls of a cache-safe DB go through the cache.
SharesOnlySafe == \A p \in Proc : phase[p] \in {"wait", "lead"} => pluginsCacheSafe

\* Until it is given a compiled query a call has none, nor sent anything, nor a plan.
NothingYet ==
    \A p \in Proc : phase[p] \in {"idle", "compile", "wait", "lead"} =>
        cq[p] = None /\ sent[p] = None /\ plan[p] = None

\* What a call sent, it sent with the compiled query it holds.
SentIsExecuted ==
    /\ sent = [p \in Proc |-> sent[p]]
    /\ \A p \in Proc : sent[p] # None =>
            /\ request[p] # None /\ cq[p] # None
            /\ sent[p] = Executes(request[p], cq[p])

\* A cached scan plan was made for a compiled query with its key, and so was the one
\* a call uses.
CachedOfKey ==
    \A k \in ScanKeys : scanPlanCache[k] # None =>
        \E c \in Compilable : ScanKey(c) = k /\ scanPlanCache[k] = Columns(c)
PlanOfKey ==
    \A p \in Proc : plan[p] # None =>
        /\ cq[p] # None
        /\ \E c \in Compilable : ScanKey(c) = ScanKey(cq[p]) /\ plan[p] = Columns(c)

PlanInv == TypeOK /\ NoneScoped /\ CachedOfShape /\ OwnOrShared /\ SharesOnlySafe
           /\ NothingYet /\ SentIsExecuted /\ CachedOfKey /\ PlanOfKey
-----------------------------------------------------------------------------
\* Storing changes the key's entry and at most empties another one.
LEMMA StoredEntries ==
    ASSUME NEW S, NEW V, NEW cache \in [S -> V \cup {None}], NEW k \in S, NEW v \in V,
           NEW new \in Stored(cache, k, v)
    PROVE  /\ new \in [S -> V \cup {None}]
           /\ \A s \in S : new[s] = cache[s] \/ new[s] = None \/ (s = k /\ new[s] = v)
<1>1. CASE new = [cache EXCEPT ![k] = v]
  BY <1>1
<1>2. ASSUME NEW j \in S, new = [cache EXCEPT ![k] = v, ![j] = None]
      PROVE  /\ new \in [S -> V \cup {None}]
             /\ \A s \in S : new[s] = cache[s] \/ new[s] = None \/ (s = k /\ new[s] = v)
  BY <1>2
<1>3. QED BY <1>1, <1>2 DEF Stored

\* The caches start empty and no call has begun.
LEMMA InitPlanInv == Init => PlanInv
BY PlanCacheAssumption
   DEF Init, PlanInv, TypeOK, NoneScoped, CachedOfShape, OwnOrShared, SharesOnlySafe,
       NothingYet, SentIsExecuted, CachedOfKey, PlanOfKey

\* Every action preserves the types.
LEMMA StepTypeOK == PlanInv /\ [Next]_vars => TypeOK'
<1> SUFFICES ASSUME PlanInv, [Next]_vars PROVE TypeOK'
  OBVIOUS
<1> USE PlanCacheAssumption DEF PlanInv, TypeOK
<1>1. ASSUME NEW p \in Proc, NEW r \in Request, Call(p, r) PROVE TypeOK'
  BY <1>1 DEF Call, Goes
<1>2. ASSUME NEW p \in Proc, CompileAlone(p) PROVE TypeOK'
  BY <1>2 DEF CompileAlone, Goes, Compilable
<1>3. ASSUME NEW p \in Proc, Lookup(p) PROVE TypeOK'
  <2>1. Key(p) \in Shapes
    BY <1>3 DEF Lookup, Key, Shapes
  <2>2. CASE Hit(p)
    BY <1>3, <2>1, <2>2 DEF Lookup, Hit, Goes
  <2>3. CASE Await(p)
    BY <1>3, <2>1, <2>3 DEF Lookup, Await, Goes
  <2>4. CASE Lead(p)
    BY <1>3, <2>1, <2>4 DEF Lookup, Lead, Goes
  <2>5. QED BY <1>3, <2>2, <2>3, <2>4 DEF Lookup
<1>4. ASSUME NEW p \in Proc, CompileShared(p) PROVE TypeOK'
  <2>1. Key(p) \in Shapes /\ Compiled(request[p]) \in Compilable
    BY <1>4 DEF CompileShared, Key, Shapes, Compilable
  <2>2. compiledCache' \in [Shapes -> Compilable \cup {None}]
    <3>1. CASE compiledCache' \in Stored(compiledCache, Key(p), Compiled(request[p]))
      BY <2>1, <3>1, StoredEntries
    <3>2. CASE UNCHANGED compiledCache
      BY <3>2
    <3>3. QED BY <1>4, <3>1, <3>2 DEF CompileShared
  <2>3. inflight' \in [Shapes -> Proc \cup {None}]
    BY <1>4, <2>1 DEF CompileShared
  <2>4. \A q \in Waiters(p) : phase[q] = "wait"
    BY DEF Waiters
  <2>5. CASE cq' = [q \in Proc |->
                      IF q \in Served(p) THEN Compiled(request[p]) ELSE cq[q]]
             /\ phase' = [q \in Proc |->
                      IF q \in {p} \cup Waiters(p) THEN "execute" ELSE phase[q]]
    <3>1. cq' \in [Proc -> Compilable \cup {None}]
      BY <2>1, <2>5
    <3>2. phase' \in [Proc -> {"idle", "compile", "wait", "lead", "execute", "scan",
                               "store", "returned"}]
      BY <2>5
    <3>3. \A q \in Proc : phase'[q] # "idle" => request'[q] # None
      BY <1>4, <2>4, <2>5 DEF CompileShared
    <3>4. \A q \in Proc : phase'[q] \in {"execute", "scan", "store"} => cq'[q] # None
      BY <2>1, <2>5 DEF Served
    <3>5. QED BY <1>4, <2>2, <2>3, <3>1, <3>2, <3>3, <3>4 DEF CompileShared
  <2>6. CASE phase' = [q \in Proc |->
                 IF q \in {p} \cup Waiters(p) THEN "returned" ELSE phase[q]]
             /\ UNCHANGED cq
    <3>1. \A q \in Proc : phase'[q] # "idle" => request'[q] # None
      BY <1>4, <2>4, <2>6 DEF CompileShared
    <3>2. \A q \in Proc : phase'[q] \in {"execute", "scan", "store"} => cq'[q] # None
      BY <2>6
    <3>3. QED BY <1>4, <2>2, <2>3, <2>6, <3>1, <3>2 DEF CompileShared
  <2>7. QED BY <1>4, <2>5, <2>6 DEF CompileShared
<1>5. ASSUME NEW p \in Proc, Execute(p) PROVE TypeOK'
  BY <1>5 DEF Execute, Goes
<1>6. ASSUME NEW p \in Proc, ScanPlan(p) PROVE TypeOK'
  <2>1. ScanKey(cq[p]) \in ScanKeys /\ Columns(cq[p]) \in ScanPlans
    BY <1>6 DEF ScanPlan, ScanKeys, ScanPlans
  <2>2. plan' \in [Proc -> ScanPlans \cup {None}]
    BY <1>6, <2>1 DEF ScanPlan
  <2>3. QED BY <1>6, <2>2 DEF ScanPlan, Goes
<1>7. ASSUME NEW p \in Proc, StorePlan(p) PROVE TypeOK'
  <2>1. plan[p] \in ScanPlans \/ plan[p] = None
    OBVIOUS
  <2>2. ScanKey(cq[p]) \in ScanKeys
    BY <1>7 DEF StorePlan, ScanKeys
  <2>3. scanPlanCache' \in [ScanKeys -> ScanPlans \cup {None}]
    <3>1. CASE plan[p] \in ScanPlans
      BY <1>7, <2>2, <3>1, StoredEntries DEF StorePlan
    <3>2. CASE plan[p] = None
      BY <1>7, <2>2, <3>2 DEF StorePlan, Stored
    <3>3. QED BY <2>1, <3>1, <3>2
  <2>4. QED BY <1>7, <2>3 DEF StorePlan, Goes
<1>8. ASSUME NEW p \in Proc, Return(p) PROVE TypeOK'
  BY <1>8 DEF Return, Goes
<1>9. CASE UNCHANGED vars
  BY <1>9 DEF vars
<1>10. QED
  BY <1>1, <1>2, <1>3, <1>4, <1>5, <1>6, <1>7, <1>8, <1>9 DEF Next

\* Who may share, and what a call has before it is given a compiled query.
LEMMA StepControl ==
    PlanInv /\ [Next]_vars => NoneScoped' /\ SharesOnlySafe' /\ NothingYet'
<1> SUFFICES ASSUME PlanInv, [Next]_vars
             PROVE  NoneScoped' /\ SharesOnlySafe' /\ NothingYet'
  OBVIOUS
<1> USE PlanCacheAssumption DEF PlanInv, TypeOK, NoneScoped, SharesOnlySafe, NothingYet,
                           SentIsExecuted
<1>1. ASSUME NEW p \in Proc, NEW r \in Request, Call(p, r)
      PROVE  NoneScoped' /\ SharesOnlySafe' /\ NothingYet'
  BY <1>1 DEF Call, Goes
<1>2. ASSUME NEW p \in Proc, CompileAlone(p)
      PROVE  NoneScoped' /\ SharesOnlySafe' /\ NothingYet'
  BY <1>2 DEF CompileAlone, Goes
<1>3. ASSUME NEW p \in Proc, Lookup(p)
      PROVE  NoneScoped' /\ SharesOnlySafe' /\ NothingYet'
  BY <1>3 DEF Lookup, Hit, Await, Lead, Goes
<1>4. ASSUME NEW p \in Proc, CompileShared(p)
      PROVE  NoneScoped' /\ SharesOnlySafe' /\ NothingYet'
  <2>1. \A q \in Proc : phase'[q] \in {phase[q], "execute", "returned"}
    BY <1>4 DEF CompileShared
  <2>2. \A q \in Proc : cq'[q] = cq[q] \/ phase'[q] = "execute"
    BY <1>4 DEF CompileShared, Served
  <2>3. UNCHANGED <<pluginsCacheSafe, request, sent, plan>>
    BY <1>4 DEF CompileShared
  <2>4. QED BY <2>1, <2>2, <2>3
<1>5. ASSUME NEW p \in Proc, Execute(p)
      PROVE  NoneScoped' /\ SharesOnlySafe' /\ NothingYet'
  BY <1>5 DEF Execute, Goes
<1>6. ASSUME NEW p \in Proc, ScanPlan(p)
      PROVE  NoneScoped' /\ SharesOnlySafe' /\ NothingYet'
  BY <1>6 DEF ScanPlan, Goes
<1>7. ASSUME NEW p \in Proc, StorePlan(p)
      PROVE  NoneScoped' /\ SharesOnlySafe' /\ NothingYet'
  BY <1>7 DEF StorePlan, Goes
<1>8. ASSUME NEW p \in Proc, Return(p)
      PROVE  NoneScoped' /\ SharesOnlySafe' /\ NothingYet'
  BY <1>8 DEF Return, Goes
<1>9. CASE UNCHANGED vars
  BY <1>9 DEF vars
<1>10. QED
  BY <1>1, <1>2, <1>3, <1>4, <1>5, <1>6, <1>7, <1>8, <1>9 DEF Next

\* Only the end of a flight writes compiledCache, under the leader's shape.
LEMMA StepCachedOfShape == PlanInv /\ [Next]_vars => CachedOfShape'
<1> SUFFICES ASSUME PlanInv, [Next]_vars PROVE CachedOfShape'
  OBVIOUS
<1>1. ASSUME NEW p \in Proc, CompileShared(p) PROVE CachedOfShape'
  <2> DEFINE r == request[p]
  <2>1. r \in Request /\ ~RequestScoped(r) /\ Compiled(r) \in Compilable
        /\ Key(p) = Shape(r) /\ Key(p) \in Shapes
    BY <1>1 DEF CompileShared, PlanInv, TypeOK, SharesOnlySafe, NoneScoped, Key,
                Compilable, Shapes
  <2>2. CASE compiledCache' \in Stored(compiledCache, Key(p), Compiled(r))
    <3>1. \A s \in Shapes : \/ compiledCache'[s] = compiledCache[s]
                            \/ compiledCache'[s] = None
                            \/ s = Key(p) /\ compiledCache'[s] = Compiled(r)
      <4>1. compiledCache \in [Shapes -> Compilable \cup {None}]
        BY DEF PlanInv, TypeOK
      <4> HIDE DEF r
      <4>2. QED BY ONLY <2>1, <2>2, <4>1, StoredEntries
    <3>2. QED BY <2>1, <3>1 DEF PlanInv, CachedOfShape
  <2>3. CASE UNCHANGED compiledCache
    BY <2>3 DEF PlanInv, CachedOfShape
  <2>4. QED BY <1>1, <2>2, <2>3 DEF CompileShared
<1>2. CASE UNCHANGED compiledCache
  BY <1>2 DEF PlanInv, CachedOfShape
<1>3. UNCHANGED compiledCache \/ \E p \in Proc : CompileShared(p)
  BY DEF Next, vars, Call, CompileAlone, Lookup, Execute, ScanPlan, StorePlan, Return
<1>4. QED BY <1>1, <1>2, <1>3

\* A call is given its own compiled query, a cached one of its shape, or the one the
\* leader of its flight made; it keeps it until it returns.
LEMMA StepOwnOrShared == PlanInv /\ [Next]_vars => OwnOrShared' /\ SentIsExecuted'
<1> SUFFICES ASSUME PlanInv, [Next]_vars PROVE OwnOrShared' /\ SentIsExecuted'
  OBVIOUS
<1> USE PlanCacheAssumption DEF PlanInv, TypeOK, OwnOrShared, SentIsExecuted, NothingYet
<1>1. ASSUME NEW p \in Proc, NEW r \in Request, Call(p, r)
      PROVE  OwnOrShared' /\ SentIsExecuted'
  <2>1. cq[p] = None /\ sent[p] = None
    BY <1>1 DEF Call
  <2>2. QED BY <1>1, <2>1 DEF Call
<1>2. ASSUME NEW p \in Proc, CompileAlone(p) PROVE OwnOrShared' /\ SentIsExecuted'
  BY <1>2 DEF CompileAlone, Shares, Compilable
<1>3. ASSUME NEW p \in Proc, Lookup(p) PROVE OwnOrShared' /\ SentIsExecuted'
  <2>1. CASE Hit(p)
    <3>1. request[p] \in Request /\ ~RequestScoped(request[p]) /\ Key(p) \in Shapes
      BY <1>3 DEF Lookup, NoneScoped, Key, Shapes
    <3>2. PICK r \in Request : /\ Shape(r) = Key(p) /\ compiledCache[Key(p)] = Compiled(r)
                               /\ ~RequestScoped(r)
      BY <2>1, <3>1 DEF Hit, CachedOfShape
    <3>3. Shares(request[p], r)
      BY <3>1, <3>2 DEF Shares, Key
    <3>4. cq' = [cq EXCEPT ![p] = Compiled(r)] /\ UNCHANGED <<request, sent>>
          /\ sent[p] = None
      BY <1>3, <2>1, <3>2 DEF Lookup, Hit
    <3>5. QED BY <3>2, <3>3, <3>4
  <2>2. CASE UNCHANGED cq
    BY <1>3, <2>2 DEF Lookup
  <2>3. QED BY <1>3, <2>1, <2>2 DEF Lookup, Await, Lead
<1>4. ASSUME NEW p \in Proc, CompileShared(p) PROVE OwnOrShared' /\ SentIsExecuted'
  <2> DEFINE r == request[p]
  <2>1. r \in Request /\ ~RequestScoped(r)
    BY <1>4 DEF CompileShared, SharesOnlySafe, NoneScoped
  <2>2. \A q \in Served(p) : /\ q \in Proc /\ phase[q] \in {"wait", "lead"}
                             /\ Shape(request[q]) = Shape(r)
    BY <1>4 DEF CompileShared, Served, Waiters, Key
  <2>3. \A q \in Served(p) : Shares(request[q], r) /\ request[q] # None /\ sent[q] = None
    BY <2>1, <2>2 DEF Shares, SharesOnlySafe, NoneScoped
  <2>4. UNCHANGED <<request, sent>>
    BY <1>4 DEF CompileShared
  <2>5. CASE cq' = [q \in Proc |-> IF q \in Served(p) THEN Compiled(r) ELSE cq[q]]
    BY <2>1, <2>3, <2>4, <2>5
  <2>6. CASE UNCHANGED cq
    BY <2>4, <2>6
  <2>7. QED BY <1>4, <2>5, <2>6 DEF CompileShared
<1>5. ASSUME NEW p \in Proc, Execute(p) PROVE OwnOrShared' /\ SentIsExecuted'
  BY <1>5 DEF Execute
<1>6. ASSUME NEW p \in Proc, Return(p) PROVE OwnOrShared' /\ SentIsExecuted'
  BY <1>6 DEF Return
<1>7. CASE UNCHANGED <<request, cq, sent>>
  BY <1>7
<1>8. QED
  BY <1>1, <1>2, <1>3, <1>4, <1>5, <1>6, <1>7 DEF Next, vars, ScanPlan, StorePlan

\* A scan plan is stored and found under the key of the query it was made for.
LEMMA StepPlanOfKey == PlanInv /\ [Next]_vars => CachedOfKey' /\ PlanOfKey'
<1> SUFFICES ASSUME PlanInv, [Next]_vars PROVE CachedOfKey' /\ PlanOfKey'
  OBVIOUS
<1> USE PlanCacheAssumption DEF PlanInv, TypeOK, CachedOfKey, PlanOfKey
<1>1. ASSUME NEW p \in Proc, ScanPlan(p) PROVE CachedOfKey' /\ PlanOfKey'
  <2>1. cq[p] \in Compilable /\ cq[p] # None /\ ScanKey(cq[p]) \in ScanKeys
    BY <1>1 DEF ScanPlan, ScanKeys
  <2>2. PICK c \in Compilable :
           ScanKey(c) = ScanKey(cq[p]) /\ plan' = [plan EXCEPT ![p] = Columns(c)]
    BY <1>1, <2>1 DEF ScanPlan
  <2>3. UNCHANGED <<scanPlanCache, cq>>
    BY <1>1 DEF ScanPlan
  <2>4. QED BY <2>1, <2>2, <2>3
<1>2. ASSUME NEW p \in Proc, StorePlan(p) PROVE CachedOfKey' /\ PlanOfKey'
  <2>1. UNCHANGED <<cq, plan>> /\ ScanKey(cq[p]) \in ScanKeys
    BY <1>2 DEF StorePlan, ScanKeys
  <2>2. \A k \in ScanKeys : \/ scanPlanCache'[k] = scanPlanCache[k]
                            \/ scanPlanCache'[k] = None
                            \/ k = ScanKey(cq[p]) /\ scanPlanCache'[k] = plan[p]
    BY <1>2, <2>1 DEF StorePlan, Stored
  <2>3. QED BY <2>1, <2>2
<1>3. ASSUME NEW p \in Proc, CompileShared(p) PROVE CachedOfKey' /\ PlanOfKey'
  <2>1. \A q \in Proc : plan[q] # None => q \notin Served(p)
    BY <1>3 DEF CompileShared, Served, Waiters, NothingYet
  <2>2. \A q \in Proc : plan[q] # None => cq'[q] = cq[q]
    BY <1>3, <2>1 DEF CompileShared
  <2>3. UNCHANGED <<scanPlanCache, plan>>
    BY <1>3 DEF CompileShared
  <2>4. QED BY <2>2, <2>3
<1>4. ASSUME NEW p \in Proc, Lookup(p) \/ CompileAlone(p)
      PROVE  CachedOfKey' /\ PlanOfKey'
  <2>1. plan[p] = None
    BY <1>4 DEF Lookup, CompileAlone, NothingYet
  <2>2. \A q \in Proc : q # p => cq'[q] = cq[q]
    BY <1>4 DEF Lookup, Hit, Await, Lead, CompileAlone
  <2>3. UNCHANGED <<scanPlanCache, plan>>
    BY <1>4 DEF Lookup, CompileAlone
  <2>4. QED BY <2>1, <2>2, <2>3
<1>5. ASSUME NEW p \in Proc, Return(p) PROVE CachedOfKey' /\ PlanOfKey'
  BY <1>5 DEF Return
<1>6. CASE UNCHANGED <<scanPlanCache, cq, plan>>
  BY <1>6
<1>7. QED
  BY <1>1, <1>2, <1>3, <1>4, <1>5, <1>6 DEF Next, vars, Call, Execute
-----------------------------------------------------------------------------
\* The types and the above hold in every reachable state.
THEOREM Invariance == Spec => []PlanInv
<1>1. Init => PlanInv
  BY InitPlanInv
<1>2. PlanInv /\ [Next]_vars => PlanInv'
  BY StepTypeOK, StepControl, StepCachedOfShape, StepOwnOrShared, StepPlanOfKey
     DEF PlanInv
<1>3. QED BY <1>1, <1>2, PTL DEF Spec

\* The types hold for any calls on any builders (pkg/orm/query.go).
THEOREM TypeCorrect == Spec => []TypeOK
<1>1. PlanInv => TypeOK
  BY DEF PlanInv
<1>2. QED BY <1>1, Invariance, PTL

\* Whatever hits, flights and evictions intervene, a call runs a query compiled from
\* its own builder or from one of the same PreHash, neither of them request-scoped.
THEOREM PlanOfOwnShape == Spec => []OwnOrShared
<1>1. PlanInv => OwnOrShared
  BY DEF PlanInv
<1>2. QED BY <1>1, Invariance, PTL

\* If one builder's arguments fit every statement of its shape then every call runs
\* what its own builder says: the cache adds no condition of its own.
THEOREM OwnQuery == ASSUME SharingSound PROVE Spec => []RunsOwnQuery
<1>1. PlanInv => RunsOwnQuery
  <2> SUFFICES ASSUME PlanInv, NEW p \in Proc, sent[p] # None
               PROVE  sent[p] = Asks(request[p])
    BY DEF RunsOwnQuery
  <2>1. request[p] \in Request /\ cq[p] # None
        /\ sent[p] = Executes(request[p], cq[p])
    BY DEF PlanInv, TypeOK, SentIsExecuted
  <2>2. PICK r \in Request : Shares(request[p], r) /\ cq[p] = Compiled(r)
    BY <2>1 DEF PlanInv, OwnOrShared
  <2>3. QED BY <2>1, <2>2, SharingSound DEF SharingSound, Shares
<1>2. QED BY <1>1, Invariance, PTL

\* If compiled queries with one CacheKey return the same columns then no rows are
\* scanned with another statement's plan.
THEOREM PlanFits == ASSUME KeySound PROVE Spec => []ScanPlanFits
<1>1. PlanInv => ScanPlanFits
  <2> SUFFICES ASSUME PlanInv, NEW p \in Proc, plan[p] # None
               PROVE  plan[p] = Columns(cq[p])
    BY DEF ScanPlanFits
  <2>1. cq[p] \in Compilable
    BY DEF PlanInv, TypeOK, PlanOfKey
  <2>2. PICK c \in Compilable : ScanKey(c) = ScanKey(cq[p]) /\ plan[p] = Columns(c)
    BY DEF PlanInv, PlanOfKey
  <2>3. QED BY <2>1, <2>2, KeySound DEF KeySound
<1>2. QED BY <1>1, Invariance, PTL
=============================================================================
