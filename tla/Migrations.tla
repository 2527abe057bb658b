----------------------------- MODULE Migrations -----------------------------
(***************************************************************************)
(* pkg/migrations/migration.go: migrators of several processes apply and   *)
(* roll back versions against one database, each version in a transaction  *)
(* of its own that also writes the version table.  A process may crash     *)
(* anywhere and start again, with the same or another set of versions.     *)
(*                                                                         *)
(* Of the database it is assumed that DDL is part of the transaction and   *)
(* keeps what it touches locked until the transaction ends (PostgreSQL,    *)
(* SQL Server, SQLite).  A migration has both an Up and a Down, or neither *)
(* and then only its Seed and its row in the version table.                *)
(***************************************************************************)
EXTENDS Naturals, FiniteSets, FiniteSetsExt

CONSTANTS Proc,         \* processes, each with one Migrator
          Version,      \* migrations, numbered in the order of their version strings
          Empty,        \* those that change no schema: their Up and Down are nil
          Deployments   \* the sets of migrations a build may Register

ASSUME MigrationsAssumption ==
    /\ IsFiniteSet(Version) /\ Version = 1..Cardinality(Version)
    /\ Empty \subseteq Version /\ Deployments \subseteq SUBSET Version

VARIABLES phase,      \* where the call is
          dir,        \* Up or Down
          known,      \* the migrations registered with the Migrator
          applied,    \* what AppliedVersions returned
          cur,        \* the migration runOne is at, the last one before, or 0
          pending,    \* what the open transaction will do when it commits
          result,     \* what the call returned
          tableExists, rows,  \* the version table
          inEffect,   \* the migrations whose changes the schema has
          again,      \* history: migrations whose Up was committed while applied
          rolledBack  \* history: some Down was committed

db == <<tableExists, rows, inEffect, again, rolledBack>>
vars == <<phase, dir, known, applied, cur, pending, result, db>>

\* Changes a transaction has made: the schema changed, the version row written.
NoChange == [schema |-> FALSE, row |-> FALSE]

Init ==
    /\ phase = [p \in Proc |-> "idle"]
    /\ dir = [p \in Proc |-> "none"]
    /\ known = [p \in Proc |-> {}]
    /\ applied = [p \in Proc |-> {}]
    /\ cur = [p \in Proc |-> 0]
    /\ pending = [p \in Proc |-> NoChange]
    /\ result = [p \in Proc |-> "none"]
    /\ tableExists = FALSE
    /\ rows = {} /\ inEffect = {} /\ again = {}
    /\ rolledBack = FALSE
-----------------------------------------------------------------------------
Goto(p, at) == phase' = [phase EXCEPT ![p] = at]

\* The call returns; the deferred Rollback undoes a transaction still open.
FinishLeavesTx(p, r) ==  \* mutant: no deferred Rollback
    /\ Goto(p, "done")
    /\ result' = [result EXCEPT ![p] = r]
    /\ UNCHANGED pending
Finish(p, r) ==
    /\ Goto(p, "done")
    /\ result' = [result EXCEPT ![p] = r]
    /\ pending' = [pending EXCEPT ![p] = NoChange]

\* New, Register and then Up or Down; a bad table name makes every method fail.
Start(p, d, migrations) ==
    /\ phase[p] = "idle"
    /\ dir' = [dir EXCEPT ![p] = d]
    /\ known' = [known EXCEPT ![p] = migrations]
    /\ \/ Goto(p, IF d = "up" THEN "ensure" ELSE "read") /\ UNCHANGED <<result, pending>>
       \/ Finish(p, "err")
    /\ UNCHANGED <<applied, cur, db>>

EnsureVersionTable(p) ==
    /\ phase[p] = "ensure"
    /\ \/ /\ tableExists' = TRUE
          /\ Goto(p, "read")
          /\ UNCHANGED <<result, pending>>
       \/ Finish(p, "err") /\ UNCHANGED tableExists
    /\ UNCHANGED <<dir, known, applied, cur, rows, inEffect, again, rolledBack>>

AppliedVersions(p) ==
    /\ phase[p] = "read"
    /\ \/ /\ tableExists
          /\ applied' = [applied EXCEPT ![p] = rows]
          /\ Goto(p, "loop")
          /\ UNCHANGED <<result, pending>>
       \/ Finish(p, "err") /\ UNCHANGED applied
    /\ UNCHANGED <<dir, known, cur, db>>

\* What is left of the loop over the sorted migrations.
PendingNewest(p) ==  \* mutant: only what is newer than the newest applied
    {v \in known[p] \ applied[p] : v > cur[p] /\ \A w \in applied[p] : v > w}
Pending(p) == {v \in known[p] \ applied[p] : v > cur[p]}

NextUpLast(S) == Max(S)  \* mutant: Up sorts as Down does
NextUp(S) == Min(S)

\* The head of either loop: the next migration's transaction begins, or there is
\* none, which for Down is an error.
BeginTx(p) ==
    /\ phase[p] = "loop"
    /\ LET todo == IF dir[p] = "up" THEN Pending(p) ELSE known[p] \cap applied[p] IN
         \/ /\ todo = {}
            /\ Finish(p, IF dir[p] = "up" THEN "ok" ELSE "err")
            /\ UNCHANGED cur
         \/ /\ todo # {}
            /\ cur' = [cur EXCEPT ![p] = IF dir[p] = "up" THEN NextUp(todo) ELSE Max(todo)]
            /\ Goto(p, "begun")
            /\ UNCHANGED <<result, pending>>
         \/ todo # {} /\ Finish(p, "err") /\ UNCHANGED cur
    /\ UNCHANGED <<dir, known, applied, db>>

\* Another open transaction has changed what migration v changes.
Locked(p, v) == \E q \in Proc \ {p} : cur[q] = v /\ pending[q].schema

\* mig.Up or mig.Down, unless it is nil, written by the user: it may fail, more so if
\* the schema already is, or no longer is, what it expects, but need not (IF NOT EXISTS).
Migrate(p) ==
    /\ phase[p] = "begun" /\ ~Locked(p, cur[p])
    /\ \/ /\ pending' = [pending EXCEPT ![p].schema = cur[p] \notin Empty]
          /\ Goto(p, IF dir[p] = "up" THEN "seed" ELSE "record")
          /\ UNCHANGED result
       \/ cur[p] \notin Empty /\ Finish(p, "err")
    /\ UNCHANGED <<dir, known, applied, cur, db>>

Seed(p) ==
    /\ phase[p] = "seed"
    /\ \/ Goto(p, "record") /\ UNCHANGED <<result, pending>>
       \/ Finish(p, "err")
    /\ UNCHANGED <<dir, known, applied, cur, db>>

\* version is the primary key of the version table: a second row is refused.
AcceptsDuplicate(v) == TRUE  \* mutant: INSERT ... ON CONFLICT DO NOTHING
Insertable(v) == v \notin rows

\* INSERT always writes the version's row, DELETE only if there is one.
Writes(p) == dir[p] = "up" \/ cur[p] \in rows

\* The row p is to write was written by another transaction, which is still open.
RowLocked(p) == Writes(p) /\ \E q \in Proc \ {p} : cur[q] = cur[p] /\ pending[q].row

RecordOutsideTx(p) ==  \* mutant: through m.db instead of tx
    /\ rows' = IF dir[p] = "up" THEN rows \cup {cur[p]} ELSE rows \ {cur[p]}
    /\ UNCHANGED pending
WriteRow(p) ==
    /\ pending' = [pending EXCEPT ![p].row = Writes(p)]
    /\ UNCHANGED rows

Record(p) ==
    /\ phase[p] = "record" /\ ~RowLocked(p)
    /\ \/ /\ dir[p] = "up" => Insertable(cur[p])
          /\ WriteRow(p)
          /\ Goto(p, "commit")
          /\ UNCHANGED result
       \/ Finish(p, "err") /\ UNCHANGED rows
    /\ UNCHANGED <<dir, known, applied, cur, tableExists, inEffect, again, rolledBack>>

\* The context ends, or the server gives up, while a statement waits for a lock.
LockTimeout(p) ==
    /\ \/ phase[p] = "begun" /\ Locked(p, cur[p])
       \/ phase[p] = "record" /\ RowLocked(p)
    /\ Finish(p, "err")
    /\ UNCHANGED <<dir, known, applied, cur, db>>

Change(p, S) == IF dir[p] = "up" THEN S \cup {cur[p]} ELSE S \ {cur[p]}

\* The server makes the transaction's changes permanent.
Applied(p) ==
    /\ inEffect' = IF pending[p].schema THEN Change(p, inEffect) ELSE inEffect
    /\ rows' = IF pending[p].row THEN Change(p, rows) ELSE rows
    /\ again' = IF dir[p] = "up" THEN again \cup ({cur[p]} \cap (inEffect \cup rows)) ELSE again
    /\ rolledBack' = (rolledBack \/ dir[p] = "down")
    /\ UNCHANGED tableExists

\* Commit: done, refused, or done with the answer lost.
Commit(p) ==
    /\ phase[p] = "commit"
    /\ \/ /\ Applied(p)
          /\ \/ /\ dir[p] = "up" /\ Goto(p, "loop")
                /\ pending' = [pending EXCEPT ![p] = NoChange]
                /\ UNCHANGED result
             \/ dir[p] = "down" /\ Finish(p, "ok")
             \/ Finish(p, "err")
       \/ Finish(p, "err") /\ UNCHANGED db
    /\ UNCHANGED <<dir, known, applied, cur>>

Reset(p) ==
    /\ Goto(p, "idle")
    /\ dir' = [dir EXCEPT ![p] = "none"]
    /\ known' = [known EXCEPT ![p] = {}]
    /\ applied' = [applied EXCEPT ![p] = {}]
    /\ cur' = [cur EXCEPT ![p] = 0]
    /\ pending' = [pending EXCEPT ![p] = NoChange]
    /\ result' = [result EXCEPT ![p] = "none"]
    /\ UNCHANGED db

Take(p) == phase[p] = "done" /\ Reset(p)

\* The process dies and the server rolls its transaction back; a crash while
\* Commit is under way comes before or after the server's commit.
Crash(p) == phase[p] \notin {"idle", "done"} /\ Reset(p)
-----------------------------------------------------------------------------
Step(p) ==
    \/ EnsureVersionTable(p) \/ AppliedVersions(p) \/ BeginTx(p) \/ Seed(p)
    \/ Commit(p)

Next ==
    \E p \in Proc :
        \/ \E d \in {"up", "down"}, migrations \in Deployments : Start(p, d, migrations)
        \/ Step(p) \/ Migrate(p) \/ Record(p) \/ LockTimeout(p) \/ Take(p) \/ Crash(p)

Spec == Init /\ [][Next]_vars

\* The database answers, and grants its locks in turn: a migration that finds its
\* tables or its row locked time and again gets them in the end.
FairSpec == Spec /\ \A p \in Proc : WF_vars(Step(p)) /\ SF_vars(Migrate(p)) /\ SF_vars(Record(p))
-----------------------------------------------------------------------------
(* Properties.                                                             *)

Phase == {"idle", "ensure", "read", "loop", "begun", "seed", "record", "commit", "done"}

\* Every variable has its type, and a transaction is open from its first change to
\* its end only.
TypeOK ==
    /\ phase \in [Proc -> Phase]
    /\ dir \in [Proc -> {"none", "up", "down"}]
    /\ known \in [Proc -> SUBSET Version]
    /\ applied \in [Proc -> SUBSET Version]
    /\ cur \in [Proc -> Version \cup {0}]
    /\ pending \in [Proc -> [schema : BOOLEAN, row : BOOLEAN]]
    /\ result \in [Proc -> {"none", "ok", "err"}]
    /\ tableExists \in BOOLEAN
    /\ rows \subseteq Version /\ inEffect \subseteq Version /\ again \subseteq Version
    /\ rolledBack \in BOOLEAN
    /\ \A p \in Proc : pending[p] # NoChange => phase[p] \in {"seed", "record", "commit"}

\* However many processes migrate at once, on whatever they read before, no
\* migration is applied to a database that already has it: neither its change, nor, if
\* it makes none and the version table's key is all that guards it, its row.
AppliedOnce == again = {}

\* The version table tells the truth about the schema, after every failure, lost
\* answer and crash (migration.go:115: "each in its own transaction").
VersionTableTrue == rows \ Empty = inEffect

\* An Up that reports success leaves every migration it knows applied, also those
\* it skipped because another process had applied them; as long as nobody rolls back.
UpComplete ==
    \A p \in Proc :
        dir[p] = "up" /\ result[p] = "ok" /\ ~rolledBack => known[p] \subseteq rows

\* "in version order" (migration.go:114): a migration runs only where every earlier
\* one its process knows is applied; as long as nobody rolls back.
InOrder ==
    \A p \in Proc :
        dir[p] = "up" /\ phase[p] \in {"seed", "record", "commit"} /\ ~rolledBack =>
            \A v \in known[p] : v < cur[p] => v \in rows /\ (v \in inEffect \/ v \in Empty)

\* A migrator that does not crash returns, also when others hold what it waits for.
CallsEnd == \A p \in Proc : phase[p] # "idle" ~> phase[p] \in {"done", "idle"}
=============================================================================
