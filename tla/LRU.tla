-------------------------------- MODULE LRU --------------------------------
(***************************************************************************)
(* The bounded, thread-safe cache of pkg/cache/lru.go, at the grain of its *)
(* critical sections: what the code does under one c.mu.Lock()/Unlock()    *)
(* pair is one step, and other goroutines run between any two of them.     *)
(*                                                                         *)
(* A value stands for the resource the cache owns (a prepared statement):  *)
(* each successful compute and each Set brings a value never seen before,  *)
(* and onEvict releases the value it is given.  An element of the list     *)
(* (list.Element) is named after the value it was created with, since the *)
(* code never reuses one.  hits and misses are left out.                   *)
(***************************************************************************)
EXTENDS Integers, FiniteSets, SequencesExt

CONSTANTS Proc,               \* goroutines calling the cache
          Key,                \* keys
          Val,                \* values; a bound on how many are ever produced
          Err,                \* errors compute may return
          None,               \* Go's nil / zero value / absent map entry
          RequestedCapacity   \* NewLRU's argument

ASSUME LRUAssumption ==
    /\ None \notin Proc \cup Val \cup Key \cup Err
    /\ RequestedCapacity \in Int

VARIABLES items,      \* c.items: key -> element
          ll,         \* c.ll: front = most recently used
          ent,        \* the *entry an element holds
          inflight,   \* c.inflight: key -> the goroutine that runs compute
          pc, key,    \* where a goroutine is, the key of its call
          elem,       \* the element Get found before it unlocked
          res,        \* what compute gave, then what the call returns
          todo,       \* evicted values the goroutine has yet to release
          born,       \* history: the key a value was produced for
          released,   \* history: values handed to onEvict
          dropped     \* history: values overwritten by setLocked

cacheVars == <<items, ll, ent>>
history   == <<born, released, dropped>>
vars == <<items, ll, ent, inflight, pc, key, elem, res, todo,
          born, released, dropped>>

capacity == IF RequestedCapacity <= 0 THEN 1 ELSE RequestedCapacity

Fresh == {v \in Val : born[v] = None}

Result == [st : {"none", "ok", "miss", "err", "panic"},
           val : Val \cup Err \cup {None}]
NoResult  == [st |-> "none",  val |-> None]
Miss      == [st |-> "miss",  val |-> None]
Failed(e) == [st |-> "err",   val |-> e]
Panicked  == [st |-> "panic", val |-> None]
Ok(v)     == [st |-> "ok",    val |-> v]

Init ==
    /\ items = [k \in Key |-> None]
    /\ ll = <<>>
    /\ ent = [e \in Val |-> [key |-> None, val |-> None]]
    /\ inflight = [k \in Key |-> None]
    /\ pc = [p \in Proc |-> "idle"]
    /\ key = [p \in Proc |-> None]
    /\ elem = [p \in Proc |-> None]
    /\ res = [p \in Proc |-> NoResult]
    /\ todo = [p \in Proc |-> {}]
    /\ born = [v \in Val |-> None]
    /\ released = {}
    /\ dropped = {}
-----------------------------------------------------------------------------
(* The list and the locked update.                                         *)

MoveToFrontForgotten(e) == ll  \* mutant: a hit does not promote
MoveToFront(e) == Cons(e, RemoveFirst(ll, e))

\* What the eviction loop leaves of the list, and the elements it removes.
Kept(list)     == SubSeq(list, 1, IF Len(list) <= capacity THEN Len(list) ELSE capacity)
Overflow(list) == ToSet(list) \ ToSet(Kept(list))

\* setLocked on a present key: the value changes in place, nothing is evicted.
Overwrite(k, v) ==
    /\ ent' = [ent EXCEPT ![items[k]].val = v]
    /\ ll' = MoveToFront(items[k])
    /\ dropped' = dropped \cup {ent[items[k]].val}
    /\ UNCHANGED items

\* The elements the eviction loop removes when v is pushed.
Victims(v) == Overflow(Cons(v, ll)) \ {v}

\* c.items once v is stored under k and every victim's key is deleted.
MappedForgetsDelete(k, v) == [items EXCEPT ![k] = v]  \* mutant: evicted keys stay
Mapped(k, v) ==
    [j \in Key |-> IF j = k THEN v
                   ELSE IF \E e \in Victims(v) : ent[e].key = j THEN None ELSE items[j]]

\* setLocked on an absent key: push a new element, evict from the back.
Insert(k, v) ==
    /\ ent' = [ent EXCEPT ![v] = [key |-> k, val |-> v]]
    /\ ll' = Kept(Cons(v, ll))
    /\ items' = Mapped(k, v)
    /\ UNCHANGED dropped

SetLocked(k, v) == IF items[k] # None THEN Overwrite(k, v) ELSE Insert(k, v)

\* The entries setLocked returns to its caller for onEvict.
EvictedForgotten(k, v) == {}  \* mutant: the victims are not reported
Evicted(k, v) == IF items[k] # None THEN {} ELSE {ent[e].val : e \in Victims(v)}
-----------------------------------------------------------------------------
(* How a call ends: directly, or after the evicted values are released.    *)

Finish(p, r) ==
    /\ pc' = [pc EXCEPT ![p] = "returned"]
    /\ res' = [res EXCEPT ![p] = r]

FinishEvicting(p, evicted, r) ==
    /\ pc' = [pc EXCEPT ![p] = IF evicted = {} THEN "returned" ELSE "evicting"]
    /\ res' = [res EXCEPT ![p] = r]
    /\ todo' = [todo EXCEPT ![p] = evicted]

\* One call of onEvict, outside the lock.
Evict(p) ==
    /\ pc[p] = "evicting"
    /\ \E v \in todo[p] :
          /\ released' = released \cup {v}
          /\ todo' = [todo EXCEPT ![p] = @ \ {v}]
          /\ pc' = [pc EXCEPT ![p] = IF todo[p] = {v} THEN "returned" ELSE "evicting"]
    /\ UNCHANGED <<items, ll, ent, inflight, key, elem, res, born, dropped>>

\* The caller takes the result and is free to call again.
Return(p) ==
    /\ pc[p] = "returned"
    /\ pc' = [pc EXCEPT ![p] = "idle"]
    /\ key' = [key EXCEPT ![p] = None]
    /\ elem' = [elem EXCEPT ![p] = None]
    /\ res' = [res EXCEPT ![p] = NoResult]
    /\ UNCHANGED <<items, ll, ent, inflight, todo, born, released, dropped>>

Begin(p, k) ==
    /\ pc[p] = "idle"
    /\ key' = [key EXCEPT ![p] = k]
-----------------------------------------------------------------------------
(* Get and GetNoTouch: the lookup is locked, the value is read after the   *)
(* unlock through the element.                                             *)

Look(p, k) ==
    \/ /\ items[k] = None
       /\ Finish(p, Miss)
       /\ UNCHANGED elem
    \/ /\ items[k] # None
       /\ elem' = [elem EXCEPT ![p] = items[k]]
       /\ pc' = [pc EXCEPT ![p] = "read"]
       /\ UNCHANGED res

Get(p, k) ==
    /\ Begin(p, k)
    /\ Look(p, k)
    /\ ll' = IF items[k] = None THEN ll ELSE MoveToFront(items[k])
    /\ UNCHANGED <<items, ent, inflight, todo, history>>

GetNoTouch(p, k) ==
    /\ Begin(p, k)
    /\ Look(p, k)
    /\ UNCHANGED <<items, ll, ent, inflight, todo, history>>

ReadValue(p) ==
    /\ pc[p] = "read"
    /\ Finish(p, Ok(ent[elem[p]].val))
    /\ UNCHANGED <<items, ll, ent, inflight, key, elem, todo, history>>
-----------------------------------------------------------------------------
(* GetOrCompute and GetOrComputeNoTouch.                                   *)

\* A miss while another goroutine computes: wait on cl.done.
Join(p, k) ==
    /\ items[k] = None /\ inflight[k] # None
    /\ pc' = [pc EXCEPT ![p] = "waiting"]
    /\ UNCHANGED <<items, ll, ent, inflight, elem, res, todo, history>>

\* A miss nobody computes: register the call and run compute unlocked.
LeadUnchecked(p, k) ==  \* mutant: inflight is not consulted
    /\ items[k] = None
    /\ inflight' = [inflight EXCEPT ![k] = p]
    /\ pc' = [pc EXCEPT ![p] = "computing"]
    /\ UNCHANGED <<items, ll, ent, elem, res, todo, history>>
Lead(p, k) ==
    /\ items[k] = None /\ inflight[k] = None
    /\ inflight' = [inflight EXCEPT ![k] = p]
    /\ pc' = [pc EXCEPT ![p] = "computing"]
    /\ UNCHANGED <<items, ll, ent, elem, res, todo, history>>

\* A hit returns the value read under the lock; only GetOrCompute promotes.
HitTouch(p, k) ==
    /\ items[k] # None
    /\ ll' = MoveToFront(items[k])
    /\ Finish(p, Ok(ent[items[k]].val))
    /\ UNCHANGED <<items, ent, inflight, elem, todo, history>>

HitNoTouch(p, k) ==
    /\ items[k] # None
    /\ Finish(p, Ok(ent[items[k]].val))
    /\ UNCHANGED <<items, ll, ent, inflight, elem, todo, history>>

GetOrCompute(p, k) ==
    /\ Begin(p, k)
    /\ HitTouch(p, k) \/ Join(p, k) \/ Lead(p, k)

\* The fast path under RLock; on a miss the lock is dropped ...
GetOrComputeNoTouch(p, k) ==
    /\ Begin(p, k)
    /\ \/ HitNoTouch(p, k)
       \/ /\ items[k] = None
          /\ pc' = [pc EXCEPT ![p] = "slow"]
          /\ UNCHANGED <<items, ll, ent, inflight, elem, res, todo, history>>

\* ... and everything is looked up again under the write lock.
SlowPath(p) ==
    /\ pc[p] = "slow"
    /\ HitNoTouch(p, key[p]) \/ Join(p, key[p]) \/ Lead(p, key[p])
    /\ UNCHANGED key

ComputeOk(p, v) ==
    /\ pc[p] = "computing"
    /\ v \in Fresh
    /\ born' = [born EXCEPT ![v] = key[p]]
    /\ res' = [res EXCEPT ![p] = Ok(v)]
    /\ pc' = [pc EXCEPT ![p] = "computed"]
    /\ UNCHANGED <<items, ll, ent, inflight, key, elem, todo, released, dropped>>

\* compute returns an error, or panics and the panic is recovered for now.
ComputeFails(p, r) ==
    /\ pc[p] = "computing"
    /\ res' = [res EXCEPT ![p] = r]
    /\ pc' = [pc EXCEPT ![p] = "computed"]
    /\ UNCHANGED <<items, ll, ent, inflight, key, elem, todo, history>>

\* What a waiter reads from cl.value and cl.err once cl.done is closed: a
\* panic assigned neither of them, so both are still zero.
Shared(r) == IF r = Panicked THEN Ok(None) ELSE r

\* The goroutines close(cl.done) wakes.
WaitersOfAnyKey(p) == {q \in Proc : pc[q] = "waiting"}  \* mutant: one channel for all keys
WaitersOfSuccess(p) ==  \* mutant: done is closed on success only
    {q \in Proc : pc[q] = "waiting" /\ key[q] = key[p] /\ res[p].st = "ok"}
Waiters(p) == {q \in Proc : pc[q] = "waiting" /\ key[q] = key[p]}

\* Whether the leader's outcome is put in the cache.
InstallsErrors(r) == r.st # "panic"  \* mutant: cl.err is not consulted
Installs(r) == r.st = "ok"

\* delete(c.inflight, key), however compute ended.
UninflightOnSuccess(p) ==  \* mutant: only a success deletes the entry
    IF res[p].st = "ok" THEN [inflight EXCEPT ![key[p]] = None] ELSE inflight
Uninflight(p) == [inflight EXCEPT ![key[p]] = None]

\* The second critical section: install, forget the call, close cl.done.  The
\* fields of a closed call never change again, so the waiters' reads of them
\* are part of this step.
Install(p) ==
    LET k == key[p]
        r == res[p]
        evicted == IF Installs(r) THEN Evicted(k, r.val) ELSE {}
    IN  /\ pc[p] = "computed"
        /\ IF Installs(r) THEN SetLocked(k, r.val)
                          ELSE UNCHANGED <<items, ll, ent, dropped>>
        /\ inflight' = Uninflight(p)
        /\ pc' = [q \in Proc |->
                     IF q = p THEN IF evicted = {} THEN "returned" ELSE "evicting"
                     ELSE IF q \in Waiters(p) THEN "returned" ELSE pc[q]]
        /\ res' = [q \in Proc |-> IF q \in Waiters(p) THEN Shared(r) ELSE res[q]]
        /\ todo' = [todo EXCEPT ![p] = evicted]
        /\ UNCHANGED <<key, elem, born, released>>
-----------------------------------------------------------------------------
Set(p, k, v) ==
    /\ Begin(p, k)
    /\ v \in Fresh
    /\ born' = [born EXCEPT ![v] = k]
    /\ SetLocked(k, v)
    /\ FinishEvicting(p, Evicted(k, v), NoResult)
    /\ UNCHANGED <<inflight, elem, released>>

Delete(p, k) ==
    /\ Begin(p, k)
    /\ IF items[k] = None
       THEN /\ FinishEvicting(p, {}, NoResult)
            /\ UNCHANGED <<items, ll>>
       ELSE /\ ll' = RemoveFirst(ll, items[k])
            /\ items' = [items EXCEPT ![k] = None]
            /\ FinishEvicting(p, {ent[items[k]].val}, NoResult)
    /\ UNCHANGED <<ent, inflight, elem, history>>

\* Purge takes a snapshot and starts new tables; inflight calls are not touched.
Purge(p) ==
    /\ pc[p] = "idle"
    /\ items' = [k \in Key |-> None]
    /\ ll' = <<>>
    /\ FinishEvicting(p, {ent[items[k]].val : k \in {j \in Key : items[j] # None}}, NoResult)
    /\ UNCHANGED <<ent, inflight, key, elem, history>>
-----------------------------------------------------------------------------
\* The steps of a call under way.
Work(p) ==
    \/ ReadValue(p)
    \/ SlowPath(p)
    \/ \E v \in Val : ComputeOk(p, v)
    \/ \E e \in Err : ComputeFails(p, Failed(e))
    \/ ComputeFails(p, Panicked)
    \/ Install(p)
    \/ Evict(p)

\* The calls a goroutine may start.
Call(p) ==
    \/ \E k \in Key : \/ Get(p, k)
                      \/ GetNoTouch(p, k)
                      \/ GetOrCompute(p, k)
                      \/ GetOrComputeNoTouch(p, k)
                      \/ Delete(p, k)
                      \/ \E v \in Val : Set(p, k, v)
    \/ Purge(p)

Next == \E p \in Proc : Call(p) \/ Work(p) \/ Return(p)

Spec == Init /\ [][Next]_vars
-----------------------------------------------------------------------------
(* Properties.                                                             *)

Status == {"idle", "read", "slow", "computing", "computed", "waiting",
           "evicting", "returned"}

\* Every variable has its type.
TypeOK ==
    /\ items \in [Key -> Val \cup {None}]
    /\ ll \in Seq(Val)
    /\ ent \in [Val -> [key : Key \cup {None}, val : Val \cup {None}]]
    /\ inflight \in [Key -> Proc \cup {None}]
    /\ pc \in [Proc -> Status]
    /\ key \in [Proc -> Key \cup {None}]
    /\ elem \in [Proc -> Val \cup {None}]
    /\ res \in [Proc -> Result]
    /\ todo \in [Proc -> SUBSET Val]
    /\ born \in [Val -> Key \cup {None}]
    /\ released \subseteq Val
    /\ dropped \subseteq Val

\* The map and the list describe the same cache: no element is in the list
\* twice, and key k maps to element e exactly when e is listed with key k.
MapMatchesList ==
    /\ \A i, j \in DOMAIN ll : ll[i] = ll[j] => i = j
    /\ \A k \in Key, e \in Val :
          items[k] = e <=> e \in ToSet(ll) /\ ent[e].key = k

\* "a bounded ... cache holding at most capacity entries" (lru.go:43).
Bounded == Len(ll) <= capacity

\* Concurrent misses are coalesced (lru.go:119): inflight[k] names the one
\* goroutine between its two critical sections for k.  A finished call, however
\* it ended, leaves no inflight entry behind that would wedge the key.
Leading(p) == pc[p] \in {"computing", "computed"}
SingleFlight ==
    \A k \in Key, p \in Proc : inflight[k] = p <=> Leading(p) /\ key[p] = k

\* Nobody waits on a call that no goroutine will complete.
WaiterHasLeader ==
    \A p \in Proc : pc[p] = "waiting" => inflight[key[p]] # None

\* Where a value that was produced can be.
CachedVals  == {ent[e].val : e \in ToSet(ll)}
PendingVals == UNION {todo[p] : p \in Proc}

\* A value is handed to onEvict at most once, and never while it can still be
\* found in the cache: a resource is not closed twice nor closed under a hit.
ReleasedOnce ==
    /\ \A p, q \in Proc : p # q => todo[p] \cap todo[q] = {}
    /\ released \cap PendingVals = {}
    /\ CachedVals \cap (released \cup PendingVals) = {}

\* A call never returns another key's value, even when it reads the value after
\* the unlock while others overwrite or evict the element; only the nil that the
\* waiters of a panicked compute are handed is nobody's.
RightKey ==
    \A p \in Proc :
        pc[p] = "returned" /\ res[p].st = "ok" /\ res[p].val # None =>
            born[res[p].val] = key[p]

\* The cache implements ResourceCache: stage and owner read off the cache.
StageOf(v) ==
    IF born[v] = None THEN "new"
    ELSE IF v \in released THEN "released"
    ELSE IF v \in dropped THEN "dropped"
    ELSE IF v \in PendingVals THEN "retired"
    ELSE IF v \in CachedVals THEN "cached"
    ELSE "held"

RC == INSTANCE ResourceCache WITH
          Capacity <- capacity,
          stage <- [v \in Val |-> StageOf(v)],
          owner <- born
ImplementsResourceCache == RC!RCSpec
=============================================================================
