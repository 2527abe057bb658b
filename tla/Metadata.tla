------------------------------ MODULE Metadata ------------------------------
(***************************************************************************)
(* pkg/metadata/metadata.go: the registry that compiles each model type    *)
(* once.  Its map is replaced, never changed (copy on write): readers load *)
(* the pointer without a lock, writers hold writeMu.  An entry's sync.Once *)
(* runs compileStruct, which calls the model's TableName and may panic in  *)
(* it; the Once is done all the same.                                      *)
(***************************************************************************)
EXTENDS Naturals

CONSTANTS Proc, Type,
          NotStruct,  \* the types Compile refuses
          Panicky,    \* the types whose TableName panics
          Entry,      \* *entry objects
          None

ASSUME MetadataAssumption ==
    /\ NotStruct \subseteq Type /\ Panicky \subseteq Type
    /\ None \notin Type \cup Entry \cup Proc

VARIABLES snapshot,   \* the registry's current map
          writeMu,    \* its holder
          once,       \* an entry's sync.Once; "unused" before the entry exists
          table,      \* an entry's *Table: the type it describes, or nil
          reflected,  \* history: how often compileStruct was started for a type
          mpc, mtype, \* where a Compile is, and of which type
          loaded,     \* the map it loaded under the lock
          entry       \* the entry it got

registry == <<snapshot, writeMu, once, table, reflected>>
metaVars == <<registry, mpc, mtype, loaded, entry>>

EmptyMap == [t \in Type |-> None]

MetaInit ==
    /\ snapshot = EmptyMap
    /\ writeMu = None
    /\ once = [e \in Entry |-> "unused"]
    /\ table = [e \in Entry |-> None]
    /\ reflected = [t \in Type |-> 0]
    /\ mpc = [p \in Proc |-> "out"]
    /\ mtype = [p \in Proc |-> None]
    /\ loaded = [p \in Proc |-> EmptyMap]
    /\ entry = [p \in Proc |-> None]
-----------------------------------------------------------------------------
\* Compile[T], up to the lock-free lookup of getOrCreateEntry.
Compile(p, t) ==
    /\ mpc[p] = "out"
    /\ mtype' = [mtype EXCEPT ![p] = t]
    /\ entry' = [entry EXCEPT ![p] = snapshot[t]]
    /\ mpc' = [mpc EXCEPT ![p] = IF t \in NotStruct THEN "refused"
                                   ELSE IF snapshot[t] # None THEN "once" ELSE "slow"]
    /\ UNCHANGED <<registry, loaded>>

\* Writers are serialized.
Unserialized == TRUE  \* mutant: no lock around the copy
Unlocked == writeMu = None

\* Another goroutine may have registered the type while this one got the lock.
NotRechecked(t) == FALSE  \* mutant: no second look
Registered(t) == snapshot[t] # None

LockAndRecheck(p) ==
    /\ mpc[p] = "slow" /\ Unlocked
    /\ IF Registered(mtype[p])
       THEN /\ entry' = [entry EXCEPT ![p] = snapshot[mtype[p]]]
            /\ mpc' = [mpc EXCEPT ![p] = "once"]
            /\ UNCHANGED <<writeMu, loaded>>
       ELSE /\ writeMu' = p
            /\ loaded' = [loaded EXCEPT ![p] = snapshot]
            /\ mpc' = [mpc EXCEPT ![p] = "publish"]
            /\ UNCHANGED entry
    /\ UNCHANGED <<snapshot, once, table, reflected, mtype>>

\* The copy with a new entry replaces the map; the lock is released.
Publish(p) ==
    /\ mpc[p] = "publish"
    /\ \E e \in Entry : once[e] = "unused"
    /\ LET e == CHOOSE fresh \in Entry : once[fresh] = "unused"
       IN /\ once' = [once EXCEPT ![e] = "new"]
          /\ snapshot' = [loaded[p] EXCEPT ![mtype[p]] = e]
          /\ entry' = [entry EXCEPT ![p] = e]
    /\ writeMu' = None
    /\ loaded' = [loaded EXCEPT ![p] = EmptyMap]
    /\ mpc' = [mpc EXCEPT ![p] = "once"]
    /\ UNCHANGED <<table, reflected, mtype>>

\* e.once.Do: one goroutine runs the function, the others wait until it is done.
OnceDo(p) ==
    /\ mpc[p] = "once"
    /\ \/ /\ once[entry[p]] = "new"
          /\ once' = [once EXCEPT ![entry[p]] = "running"]
          /\ reflected' = [reflected EXCEPT ![mtype[p]] = @ + 1]
          /\ mpc' = [mpc EXCEPT ![p] = "reflect"]
       \/ /\ once[entry[p]] = "done"
          /\ mpc' = [mpc EXCEPT ![p] = "compiled"]
          /\ UNCHANGED <<once, reflected>>
    /\ UNCHANGED <<snapshot, writeMu, table, mtype, loaded, entry>>

\* compileStruct.  A panic leaves the entry with neither a table nor an error.
CompileStruct(p) ==
    /\ mpc[p] = "reflect"
    /\ once' = [once EXCEPT ![entry[p]] = "done"]
    /\ IF mtype[p] \in Panicky
       THEN mpc' = [mpc EXCEPT ![p] = "panicked"] /\ UNCHANGED table
       ELSE /\ mpc' = [mpc EXCEPT ![p] = "compiled"]
            /\ table' = [table EXCEPT ![entry[p]] = mtype[p]]
    /\ UNCHANGED <<snapshot, writeMu, reflected, mtype, loaded, entry>>

\* Compile returns e.table and e.err to Model.
Leave(p) ==
    /\ mpc[p] \in {"refused", "compiled", "panicked"}
    /\ mpc' = [mpc EXCEPT ![p] = "out"]
    /\ mtype' = [mtype EXCEPT ![p] = None]
    /\ entry' = [entry EXCEPT ![p] = None]
    /\ UNCHANGED <<registry, loaded>>

MetaStep(p) == LockAndRecheck(p) \/ Publish(p) \/ OnceDo(p) \/ CompileStruct(p)
-----------------------------------------------------------------------------
(* Properties.                                                             *)

\* Every variable of the registry has its type, and only the holder of writeMu is at
\* work on a copy of the map.
MetaTypeOK ==
    /\ snapshot \in [Type -> Entry \cup {None}]
    /\ writeMu \in Proc \cup {None}
    /\ once \in [Entry -> {"unused", "new", "running", "done"}]
    /\ table \in [Entry -> Type \cup {None}]
    /\ reflected \in [Type -> Nat]
    /\ mpc \in [Proc -> {"out", "slow", "publish", "once", "reflect", "compiled",
                         "refused", "panicked"}]
    /\ mtype \in [Proc -> Type \cup {None}]
    /\ loaded \in [Proc -> [Type -> Entry \cup {None}]]
    /\ entry \in [Proc -> Entry \cup {None}]
    /\ \A p \in Proc : mpc[p] = "publish" <=> writeMu = p

\* "Reflection happens exactly once per model type" (metadata.go:4), however many
\* goroutines use it first at the same moment, and all of them get the one table the
\* registry keeps: no copy of the map loses another writer's entry.
CompiledOnce ==
    /\ \A t \in Type : reflected[t] <= 1
    /\ \A p \in Proc :
          mpc[p] \in {"once", "reflect", "compiled"} =>
              /\ snapshot[mtype[p]] = entry[p]
              /\ table[entry[p]] \in {None, mtype[p]}
=============================================================================
