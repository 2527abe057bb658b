------------------------------ MODULE Sharded ------------------------------
(***************************************************************************)
(* How pkg/cache/sharded.go divides a capacity among shards.  Each shard   *)
(* is an LRU of PerShard entries (module LRU), and a key always meets the  *)
(* same one: shards[hash & mask].                                          *)
(*                                                                         *)
(* Integers are unbounded: the doublings stay below 2^63, where Go's int   *)
(* ends, for every number of shards and capacity up to 2^62.               *)
(***************************************************************************)
EXTENDS Integers

defaultShardCount == 32

\* for p < n { p <<= 1 }, from p = 1
nextPow2(n) ==
    LET loop[p \in Nat] == IF p < n THEN loop[2 * p] ELSE p
    IN  loop[1]

\* for p*2 <= n { p *= 2 }, from p = 1
prevPow2(n) ==
    LET loop[p \in Nat] == IF 2 * p <= n THEN loop[2 * p] ELSE p
    IN  loop[1]

Total(totalCapacity) == IF totalCapacity <= 0 THEN 1 ELSE totalCapacity

RoundedShards(numShards) ==
    nextPow2(IF numShards <= 0 THEN defaultShardCount ELSE numShards)

\* len(s.shards) of NewShardedLRU(totalCapacity, numShards)
Shards(totalCapacity, numShards) ==
    IF RoundedShards(numShards) > Total(totalCapacity)
    THEN prevPow2(Total(totalCapacity))
    ELSE RoundedShards(numShards)

\* The capacity given to each NewLRU.
PerShardRoundedUp(totalCapacity, numShards) ==  \* mutant: the remainder is not lost
    LET n == Shards(totalCapacity, numShards)
    IN  (Total(totalCapacity) + n - 1) \div n
PerShard(totalCapacity, numShards) ==
    LET per == Total(totalCapacity) \div Shards(totalCapacity, numShards)
    IN  IF per <= 0 THEN 1 ELSE per
=============================================================================
