------------------------- MODULE MigrationsProofs --------------------------
(***************************************************************************)
(* Theorems about Migrations for any processes, versions and deployments.  *)
(* The invariant says of each process what it may rely on (Own), and of    *)
(* two that they do not hold one migration's locks at once (Exclusive).     *)
(***************************************************************************)
EXTENDS Migrations, FiniteSetTheorems, WellFoundedInduction, TLAPS

\* Where a call is, what it is at, and which of its changes are still to be committed.
Stages(p) ==
    /\ phase[p] = "idle" => result[p] = "none"
    /\ phase[p] # "idle" => dir[p] \in {"up", "down"}
    /\ phase[p] \in {"idle", "ensure", "read"} => cur[p] = 0 /\ applied[p] = {}
    /\ phase[p] \in {"begun", "seed", "record", "commit"} => cur[p] \in Version
    /\ phase[p] = "seed" => dir[p] = "up"
    /\ phase[p] \in {"seed", "record"} =>
           pending[p] = [schema |-> cur[p] \notin Empty, row |-> FALSE]
    /\ phase[p] = "commit" =>
           /\ pending[p].schema = (cur[p] \notin Empty)
           /\ dir[p] = "up" => pending[p].row

\* An Up that has inserted its version's row found none, and nobody has committed one
\* since; no more has anybody for a Down that found none to delete and holds the tables.
Inserted(p) ==
    phase[p] = "commit" =>
        /\ dir[p] = "up" => cur[p] \notin rows
        /\ cur[p] \notin Empty /\ ~pending[p].row => cur[p] \notin rows

\* The migrations an Up has behind it.
Passed(p) ==
    {v \in known[p] : v < cur[p] \/ (v = cur[p] /\ phase[p] = "loop")}

\* What an Up has read is still applied, and so is everything it has behind it, unless
\* something was rolled back.
Behind(p) ==
    ~rolledBack /\ dir[p] = "up" =>
        /\ applied[p] \subseteq rows
        /\ phase[p] \in {"loop", "begun", "seed", "record", "commit"} => Passed(p) \subseteq rows
        /\ result[p] = "ok" => known[p] \subseteq rows

Own(p) == Stages(p) /\ Inserted(p) /\ Behind(p)

\* Of one migration at most one transaction has changed the schema, and at most one the
\* version's row: they hold the locks.
Exclusive ==
    \A p, q \in Proc :
        cur[p] = cur[q] =>
            /\ pending[p].schema /\ pending[q].schema => p = q
            /\ pending[p].row /\ pending[q].row => p = q

IInv == /\ TypeOK /\ Exclusive /\ \A p \in Proc : Own(p)
        /\ VersionTableTrue /\ AppliedOnce
-----------------------------------------------------------------------------
(* The least and the greatest of a set of versions.                        *)

\* Versions are numbers from 1 to some n.
LEMMA Versions == \E n \in Nat : Version = 1..n
<1>1. Cardinality(Version) \in Nat
  BY MigrationsAssumption, FS_CardinalityType
<1> QED
  BY <1>1, MigrationsAssumption

\* A set of natural numbers has a least one.
LEMMA Least ==
  ASSUME NEW S \in SUBSET Nat, S # {}
  PROVE  \E x \in S : \A y \in S : x <= y
<1>. DEFINE Less == {r \in Nat \X Nat : r[1] < r[2]}
<1>1. IsWellFoundedOn(Less, Nat)
  BY NatLessThanWellFounded DEF OpToRel
<1>2. PICK x \in S : \A y \in S : ~(<<y, x>> \in Less)
  <2>. HIDE DEF Less
  <2> QED
    BY <1>1, WFMin
<1>3. ASSUME NEW y \in S PROVE x <= y
  <2>1. x \in Nat /\ y \in Nat /\ <<y, x>> \notin Less
    BY <1>2
  <2> QED
    BY <2>1
<1> QED
  BY <1>3

\* Min(S) is in S and not greater than any of it.
LEMMA MinOfVersions ==
  ASSUME NEW S \in SUBSET Version, S # {}
  PROVE  Min(S) \in S /\ \A y \in S : Min(S) <= y
<1>1. S \subseteq Nat
  BY Versions
<1>2. \E x \in S : \A y \in S : x <= y
  BY <1>1, Least
<1> QED
  BY <1>2 DEF Min

\* Max(S) is in S.
LEMMA MaxOfVersions ==
  ASSUME NEW S \in SUBSET Version, S # {}
  PROVE  Max(S) \in S
<1>1. PICK n \in Nat : Version = 1..n
  BY Versions
<1>. DEFINE Bounds == {b \in Nat : \A y \in S : y <= b}
<1>2. Bounds # {}
  <2>1. n \in Bounds
    BY <1>1
  <2> QED
    BY <2>1
<1>3. PICK b \in Bounds : \A c \in Bounds : b <= c
  <2>1. Bounds \in SUBSET Nat
    OBVIOUS
  <2>. HIDE DEF Bounds
  <2> QED
    BY <1>2, <2>1, Least
<1>4. b \in S
  <2> SUFFICES ASSUME b \notin S PROVE FALSE
    OBVIOUS
  <2>1. \A y \in S : y \in Nat /\ y >= 1 /\ y <= b /\ y # b
    BY <1>1
  <2>2. b - 1 \in Nat /\ \A y \in S : y <= b - 1
    BY <2>1
  <2>3. b <= b - 1
    BY <1>3, <2>2
  <2> QED
    BY <2>3
<1>5. \E x \in S : \A y \in S : x >= y
  <2>1. \A y \in S : b \in Nat /\ y \in Nat /\ y <= b
    BY <1>1
  <2> QED
    BY <1>4, <2>1
<1> QED
  BY <1>5 DEF Max
-----------------------------------------------------------------------------
(* Steps of one process.                                                   *)

\* Nothing of another process changes.
Others(p) ==
    \A q \in Proc \ {p} :
        /\ phase'[q] = phase[q] /\ dir'[q] = dir[q] /\ known'[q] = known[q]
        /\ applied'[q] = applied[q] /\ cur'[q] = cur[q] /\ pending'[q] = pending[q]
        /\ result'[q] = result[q]

\* The migration whose schema change or row p has pending after the step was p's before,
\* or nobody's.
KeepsLock(p) ==
    /\ pending'[p].schema =>
           \/ pending[p].schema /\ cur'[p] = cur[p]
           \/ \A q \in Proc \ {p} : pending[q].schema => cur[q] # cur'[p]
    /\ pending'[p].row =>
           \/ pending[p].row /\ cur'[p] = cur[p]
           \/ \A q \in Proc \ {p} : pending[q].row => cur[q] # cur'[p]

LEMMA ExclusiveKept ==
  ASSUME Exclusive, NEW p \in Proc, Others(p), KeepsLock(p)
  PROVE  Exclusive'
  BY DEF Exclusive, Others, KeepsLock

\* A step that leaves the database alone concerns only the process that takes it.
LEMMA OnlyOwn ==
  ASSUME IInv, NEW p \in Proc, Others(p), KeepsLock(p), TypeOK', Own(p)',
         UNCHANGED <<rows, inEffect, again, rolledBack>>
  PROVE  IInv'
<1>1. ASSUME NEW q \in Proc PROVE Own(q)'
  <2>1. CASE q = p
    BY <2>1
  <2>2. CASE q # p
    BY <2>2 DEF IInv, Others, Own, Stages, Inserted, Behind, Passed
  <2> QED
    BY <2>1, <2>2
<1> QED
  BY <1>1, ExclusiveKept DEF IInv, VersionTableTrue, AppliedOnce

LEMMA InitInv == Init => IInv
<1> SUFFICES ASSUME Init PROVE IInv
  OBVIOUS
<1>1. TypeOK
  BY DEF Init, NoChange, Phase, TypeOK
<1>2. Exclusive /\ VersionTableTrue /\ AppliedOnce
  BY DEF Init, NoChange, Exclusive, VersionTableTrue, AppliedOnce
<1>3. ASSUME NEW p \in Proc PROVE Own(p)
  BY DEF Init, Own, Stages, Inserted, Behind, Passed
<1> QED
  BY <1>1, <1>2, <1>3 DEF IInv

\* A call that returns an error leaves nothing pending.
LEMMA ErrorKeeps ==
  ASSUME IInv, NEW p \in Proc, phase[p] # "idle", Finish(p, "err"),
         UNCHANGED <<dir, known, applied, cur, db>>
  PROVE  IInv'
<1>. USE DEF IInv
<1>1. /\ phase'[p] = "done" /\ result'[p] = "err" /\ pending'[p] = NoChange
      /\ dir'[p] = dir[p] /\ known'[p] = known[p] /\ applied'[p] = applied[p] /\ cur'[p] = cur[p]
      /\ Others(p)
  BY DEF Finish, Goto, TypeOK, Others
<1>2. TypeOK'
  BY DEF Finish, Goto, db, TypeOK, Phase, NoChange
<1>3. KeepsLock(p)
  BY <1>1 DEF KeepsLock, NoChange
<1>4. Own(p)
  OBVIOUS
<1>5. Own(p)'
  BY <1>1, <1>4 DEF Own, Stages, Inserted, Behind, Passed, db
<1> QED
  BY <1>1, <1>2, <1>3, <1>5, OnlyOwn DEF db

LEMMA StartKeeps ==
  ASSUME IInv, NEW p \in Proc, NEW d \in {"up", "down"}, NEW migrations \in Deployments,
         Start(p, d, migrations)
  PROVE  IInv'
<1>. USE DEF IInv
<1>1. migrations \subseteq Version
  BY MigrationsAssumption
<1>2. /\ phase[p] = "idle" /\ result[p] = "none" /\ pending[p] = NoChange /\ cur[p] = 0
  BY DEF Start, Own, Stages, TypeOK
<1>3. \E at \in {"ensure", "read", "done"}, r \in {"none", "err"} :
          /\ phase' = [phase EXCEPT ![p] = at] /\ result' = [result EXCEPT ![p] = r]
          /\ pending' = [pending EXCEPT ![p] = NoChange]
  <2>1. CASE Goto(p, IF d = "up" THEN "ensure" ELSE "read") /\ UNCHANGED <<result, pending>>
    <3>1. result = [result EXCEPT ![p] = "none"] /\ pending = [pending EXCEPT ![p] = NoChange]
      BY <1>2 DEF TypeOK
    <3> QED
      BY <2>1, <3>1 DEF Goto
  <2>2. CASE Finish(p, "err")
    BY <2>2 DEF Finish, Goto
  <2> QED
    BY <2>1, <2>2 DEF Start
<1>4. PICK at \in {"ensure", "read", "done"}, r \in {"none", "err"} :
          /\ phase' = [phase EXCEPT ![p] = at] /\ result' = [result EXCEPT ![p] = r]
          /\ pending' = [pending EXCEPT ![p] = NoChange]
  BY <1>3
<1>5. /\ dir' = [dir EXCEPT ![p] = d] /\ known' = [known EXCEPT ![p] = migrations]
      /\ UNCHANGED <<applied, cur, tableExists, rows, inEffect, again, rolledBack>>
  BY DEF Start, db
<1>6. TypeOK'
  BY <1>1, <1>4, <1>5 DEF TypeOK, Phase, NoChange
<1>7. /\ Others(p) /\ phase'[p] = at /\ result'[p] = r /\ pending'[p] = NoChange
      /\ dir'[p] = d /\ cur'[p] = 0 /\ applied'[p] = {}
  BY <1>2, <1>4, <1>5 DEF TypeOK, Others, Own, Stages
<1>8. KeepsLock(p)
  BY <1>7 DEF KeepsLock, NoChange
<1>9. Stages(p)' /\ Inserted(p)'
  BY <1>7 DEF Stages, Inserted
<1>10. Behind(p)'
  BY <1>7 DEF Behind
<1> QED
  BY <1>5, <1>6, <1>7, <1>8, <1>9, <1>10, OnlyOwn DEF Own

LEMMA EnsureKeeps ==
  ASSUME IInv, NEW p \in Proc, EnsureVersionTable(p)
  PROVE  IInv'
<1>. USE DEF IInv
<1>1. CASE Finish(p, "err") /\ UNCHANGED tableExists
  BY <1>1, ErrorKeeps DEF EnsureVersionTable, db
<1>2. CASE tableExists' = TRUE /\ Goto(p, "read") /\ UNCHANGED <<result, pending>>
  <2>1. /\ phase[p] = "ensure" /\ Own(p)
        /\ phase' = [phase EXCEPT ![p] = "read"]
        /\ UNCHANGED <<dir, known, applied, cur, pending, result, rows, inEffect, again, rolledBack>>
    BY <1>2 DEF EnsureVersionTable, Goto
  <2>2. TypeOK'
    BY <1>2, <2>1 DEF TypeOK, Phase
  <2>3. Others(p) /\ phase'[p] = "read" /\ KeepsLock(p)
    BY <2>1 DEF TypeOK, Others, KeepsLock
  <2>4. Own(p)'
    BY <2>1, <2>3 DEF Own, Stages, Inserted, Behind
  <2> QED
    BY <2>1, <2>2, <2>3, <2>4, OnlyOwn
<1> QED
  BY <1>1, <1>2 DEF EnsureVersionTable

LEMMA ReadKeeps ==
  ASSUME IInv, NEW p \in Proc, AppliedVersions(p)
  PROVE  IInv'
<1>. USE DEF IInv
<1>1. CASE Finish(p, "err") /\ UNCHANGED applied
  BY <1>1, ErrorKeeps DEF AppliedVersions
<1>2. CASE /\ tableExists /\ applied' = [applied EXCEPT ![p] = rows]
           /\ Goto(p, "loop") /\ UNCHANGED <<result, pending>>
  <2>1. /\ phase[p] = "read" /\ Own(p) /\ cur[p] = 0
        /\ phase' = [phase EXCEPT ![p] = "loop"] /\ applied' = [applied EXCEPT ![p] = rows]
        /\ UNCHANGED <<dir, known, cur, pending, result, db>>
    BY <1>2 DEF AppliedVersions, Goto, Own, Stages
  <2>2. TypeOK'
    BY <2>1 DEF TypeOK, Phase, db
  <2>3. /\ Others(p) /\ phase'[p] = "loop" /\ applied'[p] = rows /\ KeepsLock(p)
    BY <2>1 DEF TypeOK, Others, KeepsLock
  <2>4. ASSUME NEW v \in Version PROVE ~(v < cur[p]) /\ v # cur[p]
    BY <2>1, Versions
  <2>5. Passed(p)' = {}
    BY <2>1, <2>4 DEF Passed, TypeOK
  <2>6. result[p] = "ok" /\ dir[p] = "up" /\ ~rolledBack => known[p] \subseteq rows
    BY <2>1 DEF Own, Behind
  <2>7. Own(p)'
    BY <2>1, <2>3, <2>5, <2>6 DEF Own, Stages, Inserted, Behind, db
  <2> QED
    BY <2>1, <2>2, <2>3, <2>7, OnlyOwn DEF db
<1> QED
  BY <1>1, <1>2 DEF AppliedVersions

\* The next migration follows all that are behind, and nothing lies between.
LEMMA BeginKeeps ==
  ASSUME IInv, NEW p \in Proc, BeginTx(p)
  PROVE  IInv'
<1>. USE DEF IInv
<1>. DEFINE todo == IF dir[p] = "up" THEN Pending(p) ELSE known[p] \cap applied[p]
<1>1. /\ phase[p] = "loop" /\ Own(p) /\ todo \subseteq Version
      /\ UNCHANGED <<dir, known, applied, tableExists, rows, inEffect, again, rolledBack>>
  BY DEF BeginTx, TypeOK, Pending, db
<1>2. ASSUME NEW v \in known[p], dir[p] = "up", ~rolledBack, v \notin todo
      PROVE  v \in rows
  <2>1. v \in Nat /\ cur[p] \in Nat
    BY Versions DEF TypeOK
  <2>2. v \in applied[p] \/ v < cur[p] \/ v = cur[p]
    BY <1>2, <2>1 DEF Pending
  <2> QED
    BY <1>1, <1>2, <2>2 DEF Own, Behind, Passed
<1>3. CASE todo # {} /\ Finish(p, "err") /\ UNCHANGED cur
  BY <1>1, <1>3, ErrorKeeps DEF db
<1>4. CASE /\ todo = {} /\ UNCHANGED cur
           /\ Finish(p, IF dir[p] = "up" THEN "ok" ELSE "err")
  <2>. DEFINE r == IF dir[p] = "up" THEN "ok" ELSE "err"
  <2>1. /\ phase' = [phase EXCEPT ![p] = "done"] /\ result' = [result EXCEPT ![p] = r]
        /\ pending' = [pending EXCEPT ![p] = NoChange]
    BY <1>4 DEF Finish, Goto
  <2>2. TypeOK'
    BY <1>1, <1>4, <2>1 DEF TypeOK, Phase, NoChange
  <2>3. /\ Others(p) /\ phase'[p] = "done" /\ result'[p] = r /\ pending'[p] = NoChange
        /\ dir[p] \in {"up", "down"}
    BY <1>1, <1>4, <2>1 DEF TypeOK, Others, Own, Stages
  <2>4. dir[p] = "up" /\ ~rolledBack => known[p] \subseteq rows
    BY <1>2, <1>4
  <2>5. dir[p] = "up" /\ ~rolledBack => applied[p] \subseteq rows
    BY <1>1 DEF Own, Behind
  <2>6. Own(p)' /\ KeepsLock(p)
    <3>. HIDE DEF todo
    <3> QED
      BY <1>1, <1>4, <2>3, <2>4, <2>5 DEF Own, Stages, Inserted, Behind, KeepsLock, NoChange
  <2> QED
    BY <1>1, <2>2, <2>3, <2>6, OnlyOwn
<1>5. CASE /\ todo # {} /\ Goto(p, "begun") /\ UNCHANGED <<result, pending>>
           /\ cur' = [cur EXCEPT ![p] = IF dir[p] = "up" THEN NextUp(todo) ELSE Max(todo)]
  <2>. DEFINE next == IF dir[p] = "up" THEN Min(todo) ELSE Max(todo)
  <2>1. next \in todo /\ (dir[p] = "up" => \A v \in todo : next <= v)
    <3>. HIDE DEF todo
    <3> QED
      BY <1>1, <1>5, MinOfVersions, MaxOfVersions
  <2>2. cur' = [cur EXCEPT ![p] = next] /\ phase' = [phase EXCEPT ![p] = "begun"]
    BY <1>5 DEF NextUp, Goto
  <2>3. next \in Version /\ pending[p] = NoChange
    BY <1>1, <2>1 DEF TypeOK
  <2>. HIDE DEF next
  <2>4. TypeOK'
    BY <1>1, <1>5, <2>2, <2>3 DEF TypeOK, Phase
  <2>5. Others(p) /\ phase'[p] = "begun" /\ cur'[p] = next /\ KeepsLock(p)
    BY <1>1, <1>5, <2>2, <2>3 DEF TypeOK, Others, KeepsLock, NoChange
  <2>6. dir[p] = "up" /\ ~rolledBack => Passed(p)' \subseteq rows
    <3> SUFFICES ASSUME dir[p] = "up", ~rolledBack, NEW v \in Passed(p)' PROVE v \in rows
      OBVIOUS
    <3>1. v \in known[p] /\ v < next
      BY <1>1, <2>5 DEF Passed
    <3>2. v \in Nat /\ next \in Nat
      BY <2>3, <3>1, Versions DEF TypeOK
    <3>3. v \notin todo
      BY <2>1, <3>1, <3>2
    <3> QED
      BY <1>2, <3>1, <3>3
  <2>7. /\ dir[p] = "up" /\ ~rolledBack => applied[p] \subseteq rows
        /\ dir[p] = "up" /\ ~rolledBack /\ result[p] = "ok" => known[p] \subseteq rows
    BY <1>1 DEF Own, Behind
  <2>8. Own(p)'
    BY <1>1, <1>5, <2>3, <2>5, <2>6, <2>7 DEF Own, Stages, Inserted, Behind
  <2> QED
    BY <1>1, <2>4, <2>5, <2>8, OnlyOwn
<1> QED
  BY <1>3, <1>4, <1>5 DEF BeginTx

\* What the statements of a transaction leave pending.
LEMMA ChangeNoted ==
  ASSUME NEW r \in [schema : BOOLEAN, row : BOOLEAN], NEW b \in BOOLEAN
  PROVE  /\ [r EXCEPT !.schema = b] = [schema |-> b, row |-> r.row]
         /\ [r EXCEPT !.row = b] = [schema |-> r.schema, row |-> b]
<1>. DEFINE s == [r EXCEPT !.schema = b]
            t == [r EXCEPT !.row = b]
<1>1. /\ s \in [schema : BOOLEAN, row : BOOLEAN] /\ s.schema = b /\ s.row = r.row
      /\ t \in [schema : BOOLEAN, row : BOOLEAN] /\ t.schema = r.schema /\ t.row = b
  OBVIOUS
<1>. HIDE DEF s, t
<1>2. s = [schema |-> s.schema, row |-> s.row] /\ t = [schema |-> t.schema, row |-> t.row]
  BY <1>1
<1> QED
  BY <1>1, <1>2 DEF s, t

\* The schema change waits until no other transaction holds the migration's tables.
LEMMA MigrateKeeps ==
  ASSUME IInv, NEW p \in Proc, Migrate(p)
  PROVE  IInv'
<1>. USE DEF IInv
<1>1. CASE Finish(p, "err")
  BY <1>1, ErrorKeeps DEF Migrate
<1>. DEFINE b == cur[p] \notin Empty
<1>2. CASE /\ pending' = [pending EXCEPT ![p].schema = cur[p] \notin Empty]
           /\ Goto(p, IF dir[p] = "up" THEN "seed" ELSE "record")
           /\ UNCHANGED result
  <2>. DEFINE at == IF dir[p] = "up" THEN "seed" ELSE "record"
  <2>1. /\ phase[p] = "begun" /\ ~Locked(p, cur[p]) /\ Own(p)
        /\ UNCHANGED <<dir, known, applied, cur, result, tableExists, rows, inEffect, again, rolledBack>>
    BY <1>2 DEF Migrate, db
  <2>2. phase' = [phase EXCEPT ![p] = at]
    BY <1>2 DEF Goto
  <2>3. pending[p] = NoChange /\ pending' = [pending EXCEPT ![p] = [schema |-> b, row |-> FALSE]]
    <3>1. pending[p] = NoChange /\ pending \in [Proc -> [schema : BOOLEAN, row : BOOLEAN]]
      BY <2>1 DEF TypeOK
    <3>2. b \in BOOLEAN /\ pending[p] \in [schema : BOOLEAN, row : BOOLEAN] /\ pending[p].row = FALSE
      BY <3>1 DEF NoChange
    <3>3. [pending[p] EXCEPT !.schema = b] = [schema |-> b, row |-> FALSE]
      <4>. HIDE DEF b
      <4> QED
        BY <3>2, ChangeNoted
    <3> QED
      BY <1>2, <3>1, <3>3
  <2>4. TypeOK'
    BY <2>1, <2>2, <2>3 DEF TypeOK, Phase, NoChange
  <2>5. /\ Others(p) /\ phase'[p] = at /\ pending'[p] = [schema |-> b, row |-> FALSE]
    BY <2>1, <2>2, <2>3 DEF TypeOK, Others
  <2>6. KeepsLock(p)
    BY <2>1, <2>5 DEF KeepsLock, Locked
  <2>7. dir[p] \in {"up", "down"} /\ cur[p] \in Version
    BY <2>1 DEF Own, Stages
  <2>8. Passed(p)' = Passed(p)
    BY <2>1, <2>5 DEF Passed
  <2>9. Own(p)'
    BY <2>1, <2>5, <2>7, <2>8 DEF Own, Stages, Inserted, Behind
  <2> QED
    BY <2>1, <2>4, <2>5, <2>6, <2>9, OnlyOwn
<1> QED
  BY <1>1, <1>2 DEF Migrate

LEMMA SeedKeeps ==
  ASSUME IInv, NEW p \in Proc, Seed(p)
  PROVE  IInv'
<1>. USE DEF IInv
<1>1. CASE Finish(p, "err")
  BY <1>1, ErrorKeeps DEF Seed
<1>2. CASE Goto(p, "record") /\ UNCHANGED <<result, pending>>
  <2>1. /\ phase[p] = "seed" /\ Own(p) /\ phase' = [phase EXCEPT ![p] = "record"]
        /\ UNCHANGED <<dir, known, applied, cur, pending, result, db>>
    BY <1>2 DEF Seed, Goto
  <2>2. TypeOK'
    BY <2>1 DEF TypeOK, Phase, db
  <2>3. Others(p) /\ phase'[p] = "record" /\ KeepsLock(p)
    BY <2>1 DEF TypeOK, Others, KeepsLock
  <2>4. Own(p)'
    BY <2>1, <2>3 DEF Own, Stages, Inserted, Behind, Passed, db
  <2> QED
    BY <2>1, <2>2, <2>3, <2>4, OnlyOwn DEF db
<1> QED
  BY <1>1, <1>2 DEF Seed

\* The insert succeeds only if the version has no row, and either statement waits for
\* another transaction that has written it.
LEMMA RecordKeeps ==
  ASSUME IInv, NEW p \in Proc, Record(p)
  PROVE  IInv'
<1>. USE DEF IInv
<1>1. CASE Finish(p, "err") /\ UNCHANGED rows
  BY <1>1, ErrorKeeps DEF Record, db
<1>2. CASE /\ dir[p] = "up" => Insertable(cur[p])
           /\ WriteRow(p) /\ Goto(p, "commit") /\ UNCHANGED result
  <2>. DEFINE s == cur[p] \notin Empty
              w == Writes(p)
  <2>1. /\ phase[p] = "record" /\ Own(p) /\ phase' = [phase EXCEPT ![p] = "commit"]
        /\ dir[p] = "up" => cur[p] \notin rows
        /\ ~RowLocked(p)
        /\ UNCHANGED <<dir, known, applied, cur, result, tableExists, rows, inEffect, again, rolledBack>>
    BY <1>2 DEF Record, Goto, WriteRow, Insertable
  <2>2. /\ pending[p] = [schema |-> s, row |-> FALSE]
        /\ pending' = [pending EXCEPT ![p] = [schema |-> s, row |-> w]]
    <3>1. pending[p] = [schema |-> s, row |-> FALSE]
      BY <2>1 DEF Own, Stages
    <3>2. s \in BOOLEAN /\ w \in BOOLEAN
      BY DEF Writes
    <3>3. pending' = [pending EXCEPT ![p] = [pending[p] EXCEPT !.row = w]]
      BY <1>2 DEF WriteRow
    <3>. HIDE DEF s, w
    <3>4. [pending[p] EXCEPT !.row = w] = [schema |-> s, row |-> w]
      BY <3>1, <3>2, ChangeNoted
    <3> QED
      BY <3>1, <3>3, <3>4
  <2>3. TypeOK'
    <3>1. s \in BOOLEAN /\ w \in BOOLEAN
      BY DEF Writes
    <3>. HIDE DEF s, w
    <3> QED
      BY <2>1, <2>2, <3>1 DEF TypeOK, Phase, NoChange
  <2>4. /\ Others(p) /\ phase'[p] = "commit" /\ pending'[p] = [schema |-> s, row |-> w]
    BY <2>1, <2>2 DEF TypeOK, Others
  <2>5. KeepsLock(p)
    BY <2>1, <2>2, <2>4 DEF KeepsLock, RowLocked
  <2>6. Own(p)'
    <3>1. dir[p] = "up" => w
      BY DEF Writes
    <3>2. ~w => cur[p] \notin rows
      BY DEF Writes
    <3>. HIDE DEF w
    <3>3. Stages(p)' /\ Inserted(p)'
      BY <2>1, <2>4, <3>1, <3>2 DEF Own, Stages, Inserted
    <3>4. Behind(p)'
      BY <2>1, <2>4 DEF Own, Behind, Passed
    <3> QED
      BY <3>3, <3>4 DEF Own
  <2> QED
    BY <2>1, <2>3, <2>4, <2>5, <2>6, OnlyOwn
<1> QED
  BY <1>1, <1>2 DEF Record

\* A commit makes a row and a schema change permanent together; no other process is
\* about to insert the row, and none has passed a migration that a Down takes away.
LEMMA CommitKeeps ==
  ASSUME IInv, NEW p \in Proc, Commit(p)
  PROVE  IInv'
<1>. USE DEF IInv
<1>1. CASE Finish(p, "err") /\ UNCHANGED db
  BY <1>1, ErrorKeeps DEF Commit
<1>2. CASE /\ Applied(p)
           /\ \/ /\ dir[p] = "up" /\ Goto(p, "loop")
                 /\ pending' = [pending EXCEPT ![p] = NoChange]
                 /\ UNCHANGED result
              \/ dir[p] = "down" /\ Finish(p, "ok")
              \/ Finish(p, "err")
  <2>1. /\ phase[p] = "commit" /\ Own(p) /\ dir[p] \in {"up", "down"} /\ cur[p] \in Version
        /\ pending[p].schema = (cur[p] \notin Empty) /\ (dir[p] = "up" => pending[p].row)
        /\ UNCHANGED <<dir, known, applied, cur, tableExists>>
    BY <1>2 DEF Commit, Own, Stages, Applied
  <2>2. /\ inEffect' = IF cur[p] \notin Empty THEN Change(p, inEffect) ELSE inEffect
        /\ rows' = IF pending[p].row THEN Change(p, rows) ELSE rows
        /\ again' = IF dir[p] = "up" THEN again \cup ({cur[p]} \cap (inEffect \cup rows)) ELSE again
        /\ rolledBack' = (rolledBack \/ dir[p] = "down")
    BY <1>2, <2>1 DEF Applied
  <2>3. VersionTableTrue'
    <3>1. cur[p] \notin Empty /\ ~pending[p].row => dir[p] = "down" /\ cur[p] \notin rows
      BY <2>1 DEF Own, Inserted
    <3>2. rows \ Empty = inEffect
      BY DEF VersionTableTrue
    <3>3. CASE dir[p] = "up"
      BY <2>1, <2>2, <3>2, <3>3 DEF VersionTableTrue, Change
    <3>4. CASE dir[p] = "down"
      BY <2>1, <2>2, <3>1, <3>2, <3>4 DEF VersionTableTrue, Change
    <3> QED
      BY <2>1, <3>3, <3>4
  <2>4. AppliedOnce'
    <3>1. dir[p] = "up" => cur[p] \notin rows /\ cur[p] \notin inEffect
      BY <2>1 DEF Own, Inserted, VersionTableTrue
    <3> QED
      BY <2>2, <3>1 DEF AppliedOnce
  <2>5. /\ inEffect' \subseteq Version /\ rows' \subseteq Version /\ again' \subseteq Version
    BY <2>1, <2>2 DEF Change, TypeOK
  <2>6. /\ dir[p] = "up" => rows' = rows \cup {cur[p]}
        /\ ~rolledBack' => ~rolledBack /\ dir[p] = "up"
        /\ rolledBack' \in BOOLEAN
    BY <2>1, <2>2 DEF Change, TypeOK
  <2>7. PICK at \in {"loop", "done"}, r \in {"none", "ok", "err"} :
            /\ phase' = [phase EXCEPT ![p] = at] /\ result' = [result EXCEPT ![p] = r]
            /\ pending' = [pending EXCEPT ![p] = NoChange]
            /\ at = "loop" => r = result[p] /\ dir[p] = "up"
            /\ r = "ok" /\ at = "done" => dir[p] = "down"
    <3>1. CASE /\ dir[p] = "up" /\ Goto(p, "loop")
               /\ pending' = [pending EXCEPT ![p] = NoChange]
               /\ UNCHANGED result
      <4>1. result[p] \in {"none", "ok", "err"} /\ result' = [result EXCEPT ![p] = result[p]]
        BY <3>1 DEF TypeOK
      <4> QED
        BY <3>1, <4>1 DEF Goto
    <3>2. CASE dir[p] = "down" /\ Finish(p, "ok")
      BY <3>2 DEF Finish, Goto
    <3>3. CASE Finish(p, "err")
      BY <3>3 DEF Finish, Goto
    <3> QED
      BY <1>2, <3>1, <3>2, <3>3
  <2>8. TypeOK'
    BY <2>1, <2>5, <2>6, <2>7 DEF TypeOK, Phase, NoChange
  <2>9. /\ Others(p) /\ phase'[p] = at /\ result'[p] = r /\ pending'[p] = NoChange
    BY <2>1, <2>7 DEF TypeOK, Others
  <2>10. Exclusive'
    BY <2>9, ExclusiveKept DEF KeepsLock, NoChange
  <2>11. Own(p)'
    <3>1. Stages(p)' /\ Inserted(p)'
      BY <2>1, <2>7, <2>9 DEF Own, Stages, Inserted
    <3>2. ASSUME ~rolledBack', dir[p] = "up" PROVE Passed(p)' \subseteq rows' \/ at = "done"
      BY <2>1, <2>6, <2>9, <3>2 DEF Own, Behind, Passed
    <3>3. Behind(p)'
      BY <2>1, <2>6, <2>7, <2>9, <3>2 DEF Own, Behind
    <3> QED
      BY <3>1, <3>3 DEF Own
  <2>12. ASSUME NEW q \in Proc \ {p} PROVE Own(q)'
    <3>1. Own(q)
      OBVIOUS
    <3>2. Stages(q)' /\ Passed(q)' = Passed(q)
      BY <2>9, <3>1 DEF Own, Others, Stages, Passed
    <3>3. Behind(q)'
      BY <2>6, <2>9, <3>1, <3>2 DEF Own, Others, Behind
    <3>4. Inserted(q)'
      <4> SUFFICES ASSUME phase[q] = "commit", dir[q] = "up" \/ (cur[q] \notin Empty /\ ~pending[q].row)
                   PROVE  cur[q] \notin rows'
        BY <2>1, <2>9 DEF Others, Inserted
      <4>1. cur[q] \notin rows
        BY <3>1 DEF Own, Inserted
      <4>2. CASE dir[p] = "down"
        BY <2>2, <4>1, <4>2 DEF Change
      <4>3. CASE dir[p] = "up"
        <5>1. \/ pending[q].row /\ pending[p].row
              \/ cur[q] = cur[p] => pending[q].schema /\ pending[p].schema
          BY <2>1, <3>1, <4>3 DEF Own, Stages
        <5>2. cur[q] # cur[p]
          BY <5>1 DEF Exclusive
        <5> QED
          BY <2>2, <4>1, <5>2 DEF Change
      <4> QED
        BY <2>1, <4>2, <4>3
    <3> QED
      BY <3>2, <3>3, <3>4 DEF Own
  <2> QED
    BY <2>3, <2>4, <2>8, <2>10, <2>11, <2>12
<1> QED
  BY <1>1, <1>2 DEF Commit

\* The result taken, or the process gone with its transaction.
LEMMA ResetKeeps ==
  ASSUME IInv, NEW p \in Proc, Reset(p)
  PROVE  IInv'
<1>. USE DEF IInv
<1>1. TypeOK'
  BY DEF Reset, Goto, db, TypeOK, Phase, NoChange
<1>2. /\ Others(p) /\ phase'[p] = "idle" /\ result'[p] = "none" /\ pending'[p] = NoChange
      /\ dir'[p] = "none" /\ cur'[p] = 0 /\ applied'[p] = {}
  BY DEF Reset, Goto, TypeOK, Others
<1>3. Own(p)' /\ KeepsLock(p)
  BY <1>2 DEF Own, Stages, Inserted, Behind, KeepsLock, NoChange
<1> QED
  BY <1>1, <1>2, <1>3, OnlyOwn DEF Reset, db
-----------------------------------------------------------------------------
\* The invariant is inductive.
THEOREM Invariance == Spec => []IInv
<1>1. ASSUME IInv, UNCHANGED vars PROVE IInv'
  BY <1>1 DEF vars, db, IInv, TypeOK, Exclusive, Own, Stages, Inserted, Behind, Passed,
              VersionTableTrue, AppliedOnce
<1>2. ASSUME IInv, Next PROVE IInv'
  <2>1. ASSUME NEW p \in Proc, LockTimeout(p) PROVE IInv'
    BY <1>2, <2>1, ErrorKeeps DEF LockTimeout
  <2>2. ASSUME NEW p \in Proc, Step(p) PROVE IInv'
    BY <1>2, <2>2, EnsureKeeps, ReadKeeps, BeginKeeps, SeedKeeps, CommitKeeps DEF Step
  <2>3. ASSUME NEW p \in Proc, Take(p) \/ Crash(p) PROVE IInv'
    BY <1>2, <2>3, ResetKeeps DEF Take, Crash
  <2> QED
    BY <1>2, <2>1, <2>2, <2>3, StartKeeps, MigrateKeeps, RecordKeeps DEF Next
<1>3. IInv /\ [Next]_vars => IInv'
  BY <1>1, <1>2
<1> QED
  BY InitInv, <1>3, PTL DEF Spec

\* Every variable keeps its type, and nothing is pending outside a transaction.
THEOREM TypeCorrect == Spec => []TypeOK
<1>1. IInv => TypeOK
  BY DEF IInv
<1> QED
  BY Invariance, <1>1, PTL

\* No migration is applied to a database that has it, however many processes migrate at
\* once and whatever they read before (migration.go:123).
THEOREM AppliedAtMostOnce == Spec => []AppliedOnce
<1>1. IInv => AppliedOnce
  BY DEF IInv
<1> QED
  BY Invariance, <1>1, PTL

\* The version table and the schema agree after every step, failure and crash
\* (migration.go:115).
THEOREM TableTrue == Spec => []VersionTableTrue
<1>1. IInv => VersionTableTrue
  BY DEF IInv
<1> QED
  BY Invariance, <1>1, PTL

\* An Up that reports success leaves all it knows applied (migration.go:114).
THEOREM UpIsComplete == Spec => []UpComplete
<1>1. IInv => UpComplete
  BY DEF IInv, Own, Behind, UpComplete
<1> QED
  BY Invariance, <1>1, PTL

\* A migration runs where every earlier one its process knows is applied
\* (migration.go:114).
THEOREM InVersionOrder == Spec => []InOrder
<1>1. ASSUME IInv PROVE InOrder
  <2> SUFFICES ASSUME NEW p \in Proc, dir[p] = "up", phase[p] \in {"seed", "record", "commit"},
                      ~rolledBack, NEW v \in known[p], v < cur[p]
               PROVE  v \in rows /\ (v \in inEffect \/ v \in Empty)
    BY DEF InOrder
  <2>1. v \in rows
    BY <1>1 DEF IInv, Own, Behind, Passed
  <2> QED
    BY <1>1, <2>1 DEF IInv, VersionTableTrue
<1> QED
  BY Invariance, <1>1, PTL
=============================================================================
