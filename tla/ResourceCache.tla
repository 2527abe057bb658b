--------------------------- MODULE ResourceCache ---------------------------
(***************************************************************************)
(* What a bounded cache of resources promises, without goroutines, locks   *)
(* or lists: the life of each value from its creation to its release.      *)
(*                                                                         *)
(*   new -> held -> cached -> retired -> released                          *)
(*                         -> dropped   (overwritten by a Set of its key)  *)
(*                                                                         *)
(* At most Capacity values are cached, at most one per key; at most one is *)
(* being produced per key; an eviction happens only when the cache is full;*)
(* a value is released once, after it left the cache.                      *)
(***************************************************************************)
EXTENDS Integers, FiniteSets

CONSTANTS Key, Val, None, Capacity

VARIABLES stage,  \* where a value is in its life
          owner   \* the key it was produced for

rcVars == <<stage, owner>>

Stage == {"new", "held", "cached", "retired", "released", "dropped"}

In(s) == {v \in Val : stage[v] = s}

RCInit ==
    /\ stage = [v \in Val |-> "new"]
    /\ owner = [v \in Val |-> None]

\* A compute for k gives v; no other compute for k has a value in hand.
Produce(k, v) ==
    /\ stage[v] = "new"
    /\ \A w \in In("held") : owner[w] # k
    /\ stage' = [stage EXCEPT ![v] = "held"]
    /\ owner' = [owner EXCEPT ![v] = k]

\* v becomes the value of k; the values in gone are evicted to make room.
Put(k, v, gone) ==
    LET replaced == {w \in In("cached") : owner[w] = k}
        cached   == (In("cached") \ (replaced \cup gone)) \cup {v}
    IN  /\ \/ stage[v] = "held" /\ owner[v] = k
           \/ stage[v] = "new"
        /\ gone \subseteq In("cached") \ replaced
        /\ Cardinality(cached) <= Capacity
        /\ gone # {} => Cardinality(cached) = Capacity
        /\ stage' = [w \in Val |-> IF w = v THEN "cached"
                                   ELSE IF w \in replaced THEN "dropped"
                                   ELSE IF w \in gone THEN "retired" ELSE stage[w]]
        /\ owner' = [owner EXCEPT ![v] = k]

\* Delete and Purge take values out of the cache.
Retire(gone) ==
    /\ gone \subseteq In("cached")
    /\ stage' = [w \in Val |-> IF w \in gone THEN "retired" ELSE stage[w]]
    /\ UNCHANGED owner

Release(v) ==
    /\ stage[v] = "retired"
    /\ stage' = [stage EXCEPT ![v] = "released"]
    /\ UNCHANGED owner

RCNext ==
    \/ \E k \in Key, v \in Val : \/ Produce(k, v)
                                 \/ \E gone \in SUBSET In("cached") : Put(k, v, gone)
    \/ \E gone \in SUBSET In("cached") : Retire(gone)
    \/ \E v \in Val : Release(v)

RCSpec == RCInit /\ [][RCNext]_rcVars
=============================================================================
