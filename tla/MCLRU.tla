------------------------------- MODULE MCLRU -------------------------------
(***************************************************************************)
(* LRU with two histories.  recent lists every key ever touched and not    *)
(* deleted, most recently touched first, without any bound: the reference  *)
(* for which entries may be evicted.  goneAtStart[p] holds the values that *)
(* had already left the cache when p's call began: the reference for which *)
(* values the call may return.  Its cache is also looked at as one shard of *)
(* every sharded cache whose shards have its capacity.                     *)
(***************************************************************************)
EXTENDS LRU, Sharded

VARIABLES recent, goneAtStart

mcVars == <<vars, recent, goneAtStart>>

MCInit ==
    /\ Init
    /\ recent = <<>>
    /\ goneAtStart = [p \in Proc |-> {}]

\* Calls that may return a value somebody else produced; a goroutine that runs
\* compute itself returns its own.
Borrows(p) == pc'[p] \in {"read", "slow", "waiting"} \/ res'[p].val # None

NoteStart ==
    goneAtStart' = [p \in Proc |->
        IF pc'[p] \in {"idle", "computing", "computed", "evicting"} THEN {}
        ELSE IF pc[p] = "idle" /\ Borrows(p) THEN released \cup dropped \cup PendingVals
        ELSE goneAtStart[p]]

Touch(k)  == recent' = Cons(k, RemoveFirst(recent, k))
Forget(k) == recent' = RemoveFirst(recent, k)
TouchIf(condition, k) == IF condition THEN Touch(k) ELSE UNCHANGED recent

MCGet(p, k)          == Get(p, k) /\ TouchIf(items[k] # None, k)
MCGetOrCompute(p, k) == GetOrCompute(p, k) /\ TouchIf(items[k] # None, k)
MCSet(p, k, v)       == Set(p, k, v) /\ Touch(k)
MCInstall(p)         == Install(p) /\ TouchIf(res[p].st = "ok", key[p])
MCDelete(p, k)       == Delete(p, k) /\ Forget(k)
MCPurge(p)           == Purge(p) /\ recent' = <<>>

\* The steps that neither add an entry nor promote one.
MCOther(p) ==
    /\ \/ \E k \in Key : GetNoTouch(p, k) \/ GetOrComputeNoTouch(p, k)
       \/ ReadValue(p) \/ SlowPath(p)
       \/ \E v \in Val : ComputeOk(p, v)
       \/ \E e \in Err : ComputeFails(p, Failed(e))
       \/ ComputeFails(p, Panicked)
       \/ Evict(p) \/ Return(p)
    /\ UNCHANGED recent

MCNext ==
  /\ \E p \in Proc :
        \/ \E k \in Key : \/ MCGet(p, k) \/ MCGetOrCompute(p, k) \/ MCDelete(p, k)
                          \/ \E v \in Val : MCSet(p, k, v)
        \/ MCInstall(p) \/ MCPurge(p) \/ MCOther(p)
  /\ NoteStart

MCSpec == MCInit /\ [][MCNext]_mcVars

\* The entries are the most recently touched keys, in that order: an eviction
\* always takes the least recently used one (lru.go:9), and a NoTouch read changes
\* nothing.
EvictsLeastRecent ==
    /\ Len(ll) <= Len(recent)
    /\ \A i \in DOMAIN ll : ent[ll[i]].key = recent[i]

\* A call returns a value that was in the cache, or was being computed, at some
\* moment of the call: one released, evicted or overwritten before the call began
\* never comes back, although hits read it outside the lock and waiters long after.
NoStaleResult ==
    \A p \in Proc :
        pc[p] = "returned" /\ res[p].st = "ok" => res[p].val \notin goneAtStart[p]

\* The arguments of NewShardedLRU tried; the sharded caches made of shards like this.
Requests == (-1..40) \X (-1..17)
MadeOfThese == {[total |-> Total(r[1]), shards |-> Shards(r[1], r[2])] :
                    r \in {q \in Requests : PerShard(q[1], q[2]) = capacity}}

\* "split evenly across numShards shards", a power of two "so shard selection is a
\* mask" (sharded.go:6, 38): with every shard as full as this one gets, the sharded
\* cache holds no more than the total it was created for, and hash & mask names a
\* shard, and every shard, for whatever total and number of shards are asked for.
ShardedBounded ==
    \A c \in MadeOfThese :
        /\ c.shards * Len(ll) <= c.total
        /\ \E i \in 0..6 : c.shards = 2^i

Symm == Permutations(Proc) \cup Permutations(Key) \cup Permutations(Val)
=============================================================================
