-------------------------- MODULE CreateBatchProofs --------------------------
(***************************************************************************)
(* Theorems about CreateBatch for every set of goroutines, number of       *)
(* chunks, connections, attempts and timeout: what a batch that succeeds   *)
(* inserted, and that a batch is a Run of pkg/transaction.                 *)
(***************************************************************************)
EXTENDS CreateBatch, TLAPS

Stage == {"idle", "begin", "fn", "end", "backoff", "returned"}

BatchTypes ==
    /\ stage \in [Proc -> Stage]
    /\ attempt \in [Proc -> Nat]
    /\ ctxDone \in [Proc -> BOOLEAN]
    /\ conn \in [Proc -> {"none", "open"}]
    /\ given \in [Proc -> {"none", "nil"} \cup Error]
    /\ commits \in [Proc -> Seq({"ok", "lost"})]
    /\ outcome \in [Proc -> {"none", "ok"} \cup Error]
    /\ start \in [Proc -> Nat]
    /\ total \in [Proc -> Nat]
    /\ inserted \in [Proc -> [1..Chunks -> Nat]]

\* Every chunk is counted and was inserted.
Complete(p) == total[p] = Chunks /\ \A c \in 1..Chunks : inserted[p][c] >= 1

\* In fn the counter agrees with the chunks this attempt has inserted; an attempt
\* whose fn gave nil, and a batch that reports success, inserted all of them.
Counted(p) ==
    /\ stage[p] = "fn" => /\ start[p] < Chunks /\ total[p] = start[p]
                          /\ \A c \in 1..start[p] : inserted[p][c] >= 1
    /\ (stage[p] = "end" /\ given[p] = "nil") \/ outcome[p] = "ok" => Complete(p)

\* Where a batch is in Run: the transaction it holds and what fn gave.
Staged(p) ==
    /\ stage[p] # "end" => given[p] = "none"
    /\ stage[p] = "end" => given[p] \in {"nil"} \cup Error
    /\ stage[p] # "returned" => outcome[p] = "none"
    /\ stage[p] \in {"fn", "end"} => conn[p] = "open" \/ ctxDone[p]

BInv == BatchTypes /\ \A p \in Proc : Staged(p) /\ Counted(p)

\* A step of p's batch leaves the others alone.
Own(p) ==
    \A q \in Proc \ {p} :
        /\ stage'[q] = stage[q] /\ attempt'[q] = attempt[q] /\ ctxDone'[q] = ctxDone[q]
        /\ conn'[q] = conn[q] /\ given'[q] = given[q] /\ commits'[q] = commits[q]
        /\ outcome'[q] = outcome[q] /\ start'[q] = start[q] /\ total'[q] = total[q]
        /\ inserted'[q] = inserted[q]

LEMMA Chunked == Chunks \in Nat /\ Chunks >= 1 /\ MaxAttempts \in Nat /\ MaxAttempts >= 1
BY CreateBatchAssumption

\* What is left to show of a step once it is known whose it is.
LEMMA OwnKeeps ==
  ASSUME BInv, NEW p \in Proc, Own(p), BatchTypes', Staged(p)', Counted(p)'
  PROVE  BInv'
<1>1. ASSUME NEW q \in Proc \ {p} PROVE Staged(q)' /\ Counted(q)'
  <2>1. Staged(q) /\ Counted(q)
    BY DEF BInv
  <2> QED BY <2>1 DEF Own, Staged, Counted, Complete
<1> QED BY <1>1 DEF BInv

LEMMA InitB == Init => BInv
BY Chunked DEF Init, BInv, BatchTypes, Stage, Staged, Counted, Complete

\* Under DefaultRetryPolicy a Run retries transient errors only.
LEMMA DefaultPolicy == ASSUME NEW p, NEW e PROVE T(p)!Retryable(e) <=> e = "transient"
BY DEF T!Retryable, T!defaultIsRetryable

\* An attempt that fails with e: again after a backoff, or returned; for p's Run the
\* same.
LEMMA Failed ==
  ASSUME BInv, NEW p \in Proc, NEW e \in Error, AttemptFails(p, e)
  PROVE  \E s \in {"backoff", "returned"}, n \in Nat :
            /\ stage' = [stage EXCEPT ![p] = s] /\ attempt' = [attempt EXCEPT ![p] = n]
            /\ \/ s = "backoff" /\ outcome' = outcome
               \/ s = "returned" /\ outcome' = [outcome EXCEPT ![p] = e]
            /\ T(p)!AttemptFails(e)
<1>. USE DEF BInv, BatchTypes, Stage
<1>1. T(p)!attempts = MaxAttempts
  BY Chunked DEF T!attempts
<1>2. T(p)!MoreAttempts(attempt[p] + 1) <=> MoreAttempts(attempt[p] + 1)
  BY <1>1 DEF T!MoreAttempts, MoreAttempts
<1>3. CASE e = "transient" /\ MoreAttempts(attempt[p] + 1)
  <2>1. /\ stage' = [stage EXCEPT ![p] = "backoff"] /\ outcome' = outcome
        /\ attempt' = [attempt EXCEPT ![p] = attempt[p] + 1]
    BY <1>3 DEF AttemptFails
  <2>2. T(p)!AttemptFails(e)
    BY <1>2, <1>3, <2>1, DefaultPolicy DEF T!AttemptFails, T!NextAttempt
  <2>3. attempt[p] + 1 \in Nat
    OBVIOUS
  <2> QED BY <2>1, <2>2, <2>3
<1>4. CASE ~(e = "transient" /\ MoreAttempts(attempt[p] + 1))
  <2>1. /\ stage' = [stage EXCEPT ![p] = "returned"]
        /\ outcome' = [outcome EXCEPT ![p] = e] /\ attempt' = attempt
    BY <1>4 DEF AttemptFails, Returns
  <2>2. T(p)!AttemptFails(e)
    BY <1>2, <1>4, <2>1, DefaultPolicy DEF T!AttemptFails, T!Returns
  <2>3. attempt[p] \in Nat /\ attempt' = [attempt EXCEPT ![p] = attempt[p]]
    BY <2>1
  <2> QED BY <2>1, <2>2, <2>3
<1> QED BY <1>3, <1>4
-----------------------------------------------------------------------------
(* Each step, for the batch it belongs to.                                 *)

\* p's batch moves, as a Run does, and keeps its invariant.
Advances(p) ==
    /\ Own(p) /\ BatchTypes' /\ Staged(p)' /\ Counted(p)'
    /\ T(p)!Next \/ UNCHANGED T(p)!vars

LEMMA CallAdvances == ASSUME BInv, NEW p \in Proc, Call(p) PROVE Advances(p)
<1>. USE DEF BInv, BatchTypes, Stage
<1>1. /\ stage[p] = "idle" /\ stage' = [stage EXCEPT ![p] = "begin"]
      /\ UNCHANGED <<attempt, ctxDone, conn, given, commits, outcome, start, total, inserted>>
  BY DEF Call
<1>2. Own(p) /\ BatchTypes'
  BY <1>1 DEF Own
<1>3. Staged(p)' /\ Counted(p)'
  BY <1>1 DEF Staged, Counted, Complete
<1>4. T(p)!Next
  BY <1>1 DEF T!Next, T!Run, T!txVars
<1> QED BY <1>2, <1>3, <1>4 DEF Advances

LEMMA BackoffAdvances == ASSUME BInv, NEW p \in Proc, Backoff(p) PROVE Advances(p)
<1>. USE DEF BInv, BatchTypes, Stage
<1>1. /\ stage[p] = "backoff"
      /\ UNCHANGED <<attempt, ctxDone, conn, given, commits, start, total, inserted>>
      /\ \/ /\ ctxDone[p] /\ stage' = [stage EXCEPT ![p] = "returned"]
            /\ outcome' = [outcome EXCEPT ![p] = "ctx"]
         \/ stage' = [stage EXCEPT ![p] = "begin"] /\ outcome' = outcome
  BY DEF Backoff, Returns
<1>2. Own(p) /\ BatchTypes'
  BY <1>1 DEF Own, Error
<1>3. Staged(p)' /\ Counted(p)'
  BY <1>1 DEF Staged, Counted, Complete
<1>4. T(p)!Next
  BY <1>1 DEF T!Next, T!RunStep, T!Backoff, T!Returns, T!txVars
<1> QED BY <1>2, <1>3, <1>4 DEF Advances

LEMMA BeginAdvances == ASSUME BInv, NEW p \in Proc, Begin(p) PROVE Advances(p)
<1>. USE DEF BInv, BatchTypes, Stage
<1>1. /\ stage[p] = "begin" /\ ~ctxDone[p]
      /\ UNCHANGED <<ctxDone, given, commits, inserted>>
  BY DEF Begin
<1>2. CASE /\ conn' = [conn EXCEPT ![p] = "open"]
           /\ stage' = [stage EXCEPT ![p] = "fn"]
           /\ start' = [start EXCEPT ![p] = 0]
           /\ total' = TotalReset(p)
           /\ UNCHANGED <<attempt, outcome>>
  <2>1. Own(p) /\ BatchTypes'
    BY <1>1, <1>2 DEF Own, TotalReset
  <2>2. Staged(p)' /\ Counted(p)'
    BY <1>1, <1>2, Chunked DEF Staged, Counted, Complete, TotalReset
  <2>3. T(p)!Begin
    BY <1>1, <1>2 DEF T!Begin, T!Frame
  <2> QED BY <2>1, <2>2, <2>3 DEF Advances, T!Next, T!RunStep
<1>3. ASSUME NEW e \in Error \ {"ctx"}, AttemptFails(p, e), UNCHANGED <<conn, start, total>>
      PROVE  Advances(p)
  <2>1. PICK s \in {"backoff", "returned"}, n \in Nat :
           /\ stage' = [stage EXCEPT ![p] = s] /\ attempt' = [attempt EXCEPT ![p] = n]
           /\ \/ s = "backoff" /\ outcome' = outcome
              \/ s = "returned" /\ outcome' = [outcome EXCEPT ![p] = e]
           /\ T(p)!AttemptFails(e)
    BY <1>3, Failed
  <2>2. Own(p) /\ BatchTypes'
    BY <1>1, <1>3, <2>1 DEF Own
  <2>3. Staged(p)' /\ Counted(p)'
    BY <1>1, <1>3, <2>1 DEF Staged, Counted, Complete, Error
  <2>4. T(p)!Begin
    BY <1>1, <1>3, <2>1 DEF T!Begin, T!txVars, T!Error, Error
  <2> QED BY <2>2, <2>3, <2>4 DEF Advances, T!Next, T!RunStep
<1> QED BY <1>2, <1>3 DEF Begin

LEMMA BeginGivesUpAdvances == ASSUME BInv, NEW p \in Proc, BeginGivesUp(p) PROVE Advances(p)
<1>. USE DEF BInv, BatchTypes, Stage
<1>1. /\ stage[p] = "begin" /\ ctxDone[p]
      /\ stage' = [stage EXCEPT ![p] = "returned"] /\ outcome' = [outcome EXCEPT ![p] = "ctx"]
      /\ UNCHANGED <<attempt, ctxDone, conn, given, commits, start, total, inserted>>
  BY DEF BeginGivesUp, Returns
<1>2. Own(p) /\ BatchTypes'
  BY <1>1 DEF Own, Error
<1>3. Staged(p)' /\ Counted(p)'
  BY <1>1 DEF Staged, Counted, Complete
<1>4. T(p)!Begin
  <2>1. T(p)!AttemptFails("ctx")
    BY <1>1, DefaultPolicy DEF T!AttemptFails, T!Returns
  <2> QED BY <1>1, <2>1 DEF T!Begin, T!txVars, T!Error
<1> QED BY <1>2, <1>3, <1>4 DEF Advances, T!Next, T!RunStep

\* A chunk is inserted; after the last one fn returns nil.
LEMMA ExecOkAdvances == ASSUME BInv, NEW p \in Proc, ExecOk(p) PROVE Advances(p)
<1>. USE DEF BInv, BatchTypes, Stage
<1>. DEFINE c == start[p] + 1
<1>1. /\ stage[p] = "fn" /\ start[p] < Chunks
      /\ inserted' = [inserted EXCEPT ![p][c] = @ + 1]
      /\ start' = [start EXCEPT ![p] = c] /\ total' = [total EXCEPT ![p] = @ + 1]
      /\ UNCHANGED <<attempt, ctxDone, conn, commits, outcome>>
  BY DEF ExecOk, Insert
<1>2. /\ c \in 1..Chunks /\ total[p] = start[p] /\ given[p] = "none" /\ outcome[p] = "none"
      /\ \A d \in 1..start[p] : inserted[p][d] >= 1
      /\ conn[p] = "open" \/ ctxDone[p]
  BY <1>1, Chunked DEF Counted, Staged
<1>3. /\ inserted' \in [Proc -> [1..Chunks -> Nat]]
      /\ \A q \in Proc \ {p} : inserted'[q] = inserted[q]
      /\ \A d \in 1..c : inserted'[p][d] >= 1
  <2>1. inserted[p] \in [1..Chunks -> Nat]
    OBVIOUS
  <2>. DEFINE g == [inserted[p] EXCEPT ![c] = @ + 1]
  <2>2. inserted' = [inserted EXCEPT ![p] = g]
    BY <1>1
  <2>3. g \in [1..Chunks -> Nat] /\ \A d \in 1..c : g[d] >= 1
    BY <1>2, <2>1, Chunked
  <2>. HIDE DEF g
  <2> QED BY <2>2, <2>3
<1>4. CASE c = Chunks
  <2>1. stage' = [stage EXCEPT ![p] = "end"] /\ given' = [given EXCEPT ![p] = "nil"]
    BY <1>4 DEF ExecOk, FnGives
  <2>2. Own(p) /\ BatchTypes'
    BY <1>1, <1>2, <1>3, <2>1 DEF Own
  <2>3. Staged(p)' /\ Counted(p)'
    BY <1>1, <1>2, <1>3, <1>4, <2>1 DEF Staged, Counted, Complete
  <2>4. T(p)!FnGives("nil")
    BY <1>1, <2>1 DEF T!FnGives
  <2> QED BY <2>2, <2>3, <2>4 DEF Advances, T!Next, T!FnEnds
<1>5. CASE c # Chunks
  <2>1. UNCHANGED <<stage, given>>
    BY <1>5 DEF ExecOk
  <2>2. Own(p) /\ BatchTypes'
    BY <1>1, <1>2, <1>3, <2>1 DEF Own
  <2>3. Staged(p)' /\ Counted(p)'
    BY <1>1, <1>2, <1>3, <1>5, <2>1, Chunked DEF Staged, Counted, Complete
  <2>4. UNCHANGED T(p)!vars
    BY <1>1, <2>1 DEF T!vars, T!txVars
  <2> QED BY <2>2, <2>3, <2>4 DEF Advances
<1> QED BY <1>4, <1>5

\* A chunk is refused: fn gives the error, whether or not the chunk is there.
LEMMA ExecFailsAdvances == ASSUME BInv, NEW p \in Proc, ExecFails(p) PROVE Advances(p)
<1>. USE DEF BInv, BatchTypes, Stage
<1>1. PICK e \in Error, n \in {0, 1} :
         /\ stage[p] = "fn" /\ start[p] < Chunks
         /\ inserted' = [inserted EXCEPT ![p][start[p] + 1] = @ + n]
         /\ stage' = [stage EXCEPT ![p] = "end"] /\ given' = [given EXCEPT ![p] = e]
         /\ UNCHANGED <<attempt, ctxDone, conn, commits, outcome, start, total>>
  BY DEF ExecFails, Insert, FnGives
<1>2. inserted' \in [Proc -> [1..Chunks -> Nat]] /\ \A q \in Proc \ {p} : inserted'[q] = inserted[q]
  <2>1. inserted[p] \in [1..Chunks -> Nat] /\ start[p] + 1 \in 1..Chunks
    BY <1>1, Chunked
  <2>. DEFINE g == [inserted[p] EXCEPT ![start[p] + 1] = @ + n]
  <2>2. inserted' = [inserted EXCEPT ![p] = g] /\ g \in [1..Chunks -> Nat]
    BY <1>1, <2>1
  <2>. HIDE DEF g
  <2> QED BY <2>2
<1>3. Own(p) /\ BatchTypes'
  BY <1>1, <1>2 DEF Own
<1>4. Staged(p)' /\ Counted(p)'
  BY <1>1 DEF Staged, Counted, Error
<1>5. T(p)!FnGives(e) /\ e \in T(p)!Error
  BY <1>1 DEF T!FnGives, T!Error, Error
<1> QED BY <1>3, <1>4, <1>5 DEF Advances, T!Next, T!FnEnds

LEMMA ExecTimesOutAdvances == ASSUME BInv, NEW p \in Proc, ExecTimesOut(p) PROVE Advances(p)
<1>. USE DEF BInv, BatchTypes, Stage
<1>1. /\ stage[p] = "fn"
      /\ stage' = [stage EXCEPT ![p] = "end"] /\ given' = [given EXCEPT ![p] = "ctx"]
      /\ UNCHANGED <<attempt, ctxDone, conn, commits, outcome, start, total, inserted>>
  BY DEF ExecTimesOut, FnGives
<1>2. Own(p) /\ BatchTypes'
  BY <1>1 DEF Own, Error
<1>3. Staged(p)' /\ Counted(p)'
  BY <1>1 DEF Staged, Counted, Error
<1>4. T(p)!FnGives("ctx") /\ "ctx" \in T(p)!Error
  BY <1>1 DEF T!FnGives, T!Error
<1> QED BY <1>2, <1>3, <1>4 DEF Advances, T!Next, T!FnEnds

\* runOnce ends: a rollback, or a commit with each of its outcomes.
LEMMA RollbackAdvances == ASSUME BInv, NEW p \in Proc, Rollback(p) PROVE Advances(p)
<1>. USE DEF BInv, BatchTypes, Stage
<1>1. /\ stage[p] = "end" /\ given[p] \in Error
      /\ given' = [given EXCEPT ![p] = "none"] /\ conn' = [conn EXCEPT ![p] = "none"]
      /\ UNCHANGED <<ctxDone, commits, start, total, inserted>>
  BY DEF Rollback, NoTx, LeaveTx
<1>2. PICK e \in Error :
         AttemptFails(p, e) /\ (e = given[p] \/ (e = "lost" /\ given[p] # "transient" /\ conn[p] # "none"))
  <2>1. CASE AttemptFails(p, given[p])
    <3>1. PICK e \in Error : e = given[p]
      BY <1>1
    <3> QED BY <2>1, <3>1 DEF AttemptFails, Returns
  <2>2. CASE conn[p] # "none" /\ given[p] # "transient" /\ AttemptFails(p, "lost")
    BY <2>2 DEF Error
  <2> QED BY <2>1, <2>2 DEF Rollback
<1>3. PICK s \in {"backoff", "returned"}, n \in Nat :
         /\ stage' = [stage EXCEPT ![p] = s] /\ attempt' = [attempt EXCEPT ![p] = n]
         /\ \/ s = "backoff" /\ outcome' = outcome
            \/ s = "returned" /\ outcome' = [outcome EXCEPT ![p] = e]
         /\ T(p)!AttemptFails(e)
  <2>1. AttemptFails(p, e)
    BY <1>2
  <2> QED BY <2>1, Failed
<1>4. Own(p) /\ BatchTypes'
  BY <1>1, <1>3 DEF Own
<1>5. Staged(p)' /\ Counted(p)'
  BY <1>1, <1>2, <1>3 DEF Staged, Counted, Complete, Error
<1>6. T(p)!Rollback
  <2>1. T(p)!AttemptFails(given[p])
        \/ (conn[p] # "none" /\ ~T(p)!Retryable(given[p]) /\ T(p)!AttemptFails("lost"))
    BY <1>2, <1>3, DefaultPolicy DEF T!AttemptFails, T!Returns
  <2> QED BY <1>1, <1>3, <2>1 DEF T!Rollback, T!Top, T!NoTx, T!LeaveTx, T!Error, Error
<1> QED BY <1>4, <1>5, <1>6 DEF Advances, T!Next, T!RunStep

LEMMA AppliedTo ==
  ASSUME BInv, NEW p \in Proc, NEW a \in {"ok", "lost"}, Applied(p, a)
  PROVE  /\ commits' \in [Proc -> Seq({"ok", "lost"})]
         /\ commits'[p] = Append(commits[p], a)
         /\ \A q \in Proc \ {p} : commits'[q] = commits[q]
<1>1. commits \in [Proc -> Seq({"ok", "lost"})]
  BY DEF BInv, BatchTypes
<1>2. PICK s : s = Append(commits[p], a)
  OBVIOUS
<1>3. s \in Seq({"ok", "lost"})
  BY <1>1, <1>2
<1>4. commits' = [commits EXCEPT ![p] = s]
  BY <1>2 DEF Applied
<1> QED BY <1>1, <1>2, <1>3, <1>4

LEMMA CommitAdvances == ASSUME BInv, NEW p \in Proc, Commit(p) PROVE Advances(p)
<1>. USE DEF BInv, BatchTypes, Stage
<1>1. /\ stage[p] = "end" /\ given[p] = "nil" /\ outcome[p] = "none" /\ Complete(p)
      /\ given' = [given EXCEPT ![p] = "none"]
      /\ UNCHANGED <<ctxDone, start, total, inserted>>
      /\ conn[p] = "open" \/ ctxDone[p]
  BY DEF Commit, NoTx, LeaveTx, Staged, Counted
<1>2. Complete(p)'
  BY <1>1 DEF Complete
<1>3. CASE ctxDone[p] /\ Returns(p, "ctx") /\ UNCHANGED <<conn, commits>>
  <2>1. /\ stage' = [stage EXCEPT ![p] = "returned"] /\ outcome' = [outcome EXCEPT ![p] = "ctx"]
        /\ UNCHANGED attempt
    BY <1>3 DEF Returns
  <2>2. Own(p) /\ BatchTypes'
    BY <1>1, <1>3, <2>1 DEF Own, Error
  <2>3. Staged(p)' /\ Counted(p)'
    BY <1>1, <1>2, <2>1 DEF Staged, Counted
  <2>4. T(p)!AttemptFails("ctx")
    BY <2>1, DefaultPolicy DEF T!AttemptFails, T!Returns
  <2>5. T(p)!Commit
    BY <1>1, <1>3, <2>1, <2>4 DEF T!Commit, T!Top, T!LeaveTx
  <2> QED BY <2>2, <2>3, <2>5 DEF Advances, T!Next, T!RunStep
<1>4. CASE /\ ~ctxDone[p] /\ conn' = [conn EXCEPT ![p] = "none"]
           /\ Applied(p, "ok") /\ Returns(p, "ok")
  <2>1. /\ stage' = [stage EXCEPT ![p] = "returned"] /\ outcome' = [outcome EXCEPT ![p] = "ok"]
        /\ UNCHANGED attempt
    BY <1>4 DEF Returns
  <2>5. /\ commits' \in [Proc -> Seq({"ok", "lost"})] /\ commits'[p] = Append(commits[p], "ok")
        /\ \A q \in Proc \ {p} : commits'[q] = commits[q]
    BY <1>4, AppliedTo
  <2>2. Own(p) /\ BatchTypes'
    BY <1>1, <1>4, <2>1, <2>5 DEF Own
  <2>3. Staged(p)' /\ Counted(p)'
    BY <1>1, <1>2, <2>1 DEF Staged, Counted
  <2>4. T(p)!Commit
    BY <1>1, <1>4, <2>1, <2>5 DEF T!Commit, T!Applied, T!AttemptSucceeds, T!Top, T!NoTx,
       T!LeaveTx, T!Returns
  <2> QED BY <2>2, <2>3, <2>4 DEF Advances, T!Next, T!RunStep
<1>5. ASSUME NEW e \in Error, AttemptFails(p, e), ~ctxDone[p],
             conn' = [conn EXCEPT ![p] = "none"],
             (UNCHANGED commits /\ e # "ctx") \/ (Applied(p, "lost") /\ e = "lost")
      PROVE  Advances(p)
  <2>1. PICK s \in {"backoff", "returned"}, n \in Nat :
           /\ stage' = [stage EXCEPT ![p] = s] /\ attempt' = [attempt EXCEPT ![p] = n]
           /\ \/ s = "backoff" /\ outcome' = outcome
              \/ s = "returned" /\ outcome' = [outcome EXCEPT ![p] = e]
           /\ T(p)!AttemptFails(e)
    BY <1>5, Failed
  <2>2. /\ commits' \in [Proc -> Seq({"ok", "lost"})]
        /\ \A q \in Proc \ {p} : commits'[q] = commits[q]
        /\ \/ e # "ctx" /\ commits'[p] = commits[p]
           \/ e = "lost" /\ commits'[p] = Append(commits[p], "lost")
    BY <1>5, AppliedTo
  <2>3. Own(p) /\ BatchTypes'
    BY <1>1, <1>5, <2>1, <2>2 DEF Own
  <2>4. Staged(p)' /\ Counted(p)'
    BY <1>1, <1>2, <2>1 DEF Staged, Counted, Error
  <2>5. T(p)!Commit
    BY <1>1, <1>5, <2>1, <2>2 DEF T!Commit, T!Applied, T!Top, T!NoTx, T!LeaveTx,
       T!Error, Error
  <2> QED BY <2>3, <2>4, <2>5 DEF Advances, T!Next, T!RunStep
<1>6. ASSUME AttemptFails(p, "lost"), ~ctxDone[p], conn' = [conn EXCEPT ![p] = "none"],
             Applied(p, "lost")
      PROVE  Advances(p)
  BY <1>5, <1>6 DEF Error
<1> QED BY <1>3, <1>4, <1>5, <1>6 DEF Commit, NoTx

\* The context ends, database/sql rolls back, the caller takes the result.
LEMMA ExpireAdvances == ASSUME BInv, NEW p \in Proc, Expire(p) PROVE Advances(p)
<1>. USE DEF BInv, BatchTypes, Stage
<1>1. /\ stage[p] \notin {"idle", "returned"} /\ ~ctxDone[p]
      /\ ctxDone' = [ctxDone EXCEPT ![p] = TRUE]
      /\ UNCHANGED <<stage, attempt, conn, given, commits, outcome, start, total, inserted>>
  BY DEF Expire
<1>2. Own(p) /\ BatchTypes'
  BY <1>1 DEF Own
<1>3. Staged(p)' /\ Counted(p)'
  BY <1>1 DEF Staged, Counted, Complete
<1>4. T(p)!Expire
  BY <1>1 DEF T!Expire, T!txVars
<1> QED BY <1>2, <1>3, <1>4 DEF Advances, T!Next, T!OtherStep

LEMMA CtxRollbackAdvances == ASSUME BInv, NEW p \in Proc, CtxRollback(p) PROVE Advances(p)
<1>. USE DEF BInv, BatchTypes, Stage
<1>1. /\ ctxDone[p] /\ conn[p] # "none" /\ conn' = [conn EXCEPT ![p] = "none"]
      /\ UNCHANGED <<stage, attempt, ctxDone, given, commits, outcome, start, total, inserted>>
  BY DEF CtxRollback
<1>2. Own(p) /\ BatchTypes'
  BY <1>1 DEF Own
<1>3. Staged(p)' /\ Counted(p)'
  BY <1>1 DEF Staged, Counted, Complete
<1>4. T(p)!CtxRollback
  BY <1>1 DEF T!CtxRollback
<1> QED BY <1>2, <1>3, <1>4 DEF Advances, T!Next, T!RunStep

LEMMA TakeAdvances == ASSUME BInv, NEW p \in Proc, Take(p) PROVE Advances(p)
<1>. USE DEF BInv, BatchTypes, Stage
<1>1. /\ stage[p] = "returned" /\ conn[p] = "none" /\ given[p] = "none"
      /\ stage' = [stage EXCEPT ![p] = "idle"] /\ attempt' = [attempt EXCEPT ![p] = 0]
      /\ ctxDone' = [ctxDone EXCEPT ![p] = FALSE] /\ commits' = [commits EXCEPT ![p] = <<>>]
      /\ outcome' = [outcome EXCEPT ![p] = "none"]
      /\ start' = [start EXCEPT ![p] = 0] /\ total' = [total EXCEPT ![p] = 0]
      /\ inserted' = [inserted EXCEPT ![p] = [c \in 1..Chunks |-> 0]]
      /\ UNCHANGED <<conn, given>>
  BY DEF Take, Staged
<1>2. Own(p) /\ BatchTypes'
  <2>1. inserted' \in [Proc -> [1..Chunks -> Nat]]
    BY <1>1
  <2> QED BY <1>1, <2>1 DEF Own
<1>3. Staged(p)' /\ Counted(p)'
  BY <1>1 DEF Staged, Counted, Complete
<1>4. T(p)!Take
  BY <1>1 DEF T!Take, T!NoTx, T!LeaveTx
<1> QED BY <1>2, <1>3, <1>4 DEF Advances, T!Next, T!OtherStep
-----------------------------------------------------------------------------
LEMMA NextB ==
  BInv /\ [Next]_vars => BInv' /\ \A p \in Proc : T(p)!Next \/ UNCHANGED T(p)!vars
<1>. SUFFICES ASSUME BInv, [Next]_vars
              PROVE  BInv' /\ \A p \in Proc : T(p)!Next \/ UNCHANGED T(p)!vars
  OBVIOUS
<1>1. ASSUME NEW p \in Proc, Advances(p)
      PROVE  BInv' /\ \A q \in Proc : T(q)!Next \/ UNCHANGED T(q)!vars
  <2>1. BInv'
    BY <1>1, OwnKeeps DEF Advances
  <2>2. ASSUME NEW q \in Proc \ {p} PROVE UNCHANGED T(q)!vars
    BY <1>1 DEF Advances, Own, T!vars, T!txVars
  <2> QED BY <1>1, <2>1, <2>2 DEF Advances
<1>2. CASE UNCHANGED vars
  <2>1. BInv'
    BY <1>2 DEF vars, BInv, BatchTypes, Staged, Counted, Complete
  <2>2. ASSUME NEW q \in Proc PROVE UNCHANGED T(q)!vars
    BY <1>2 DEF vars, T!vars, T!txVars
  <2> QED BY <2>1, <2>2
<1>3. ASSUME NEW p \in Proc, Step(p) PROVE Advances(p)
  BY <1>3, BackoffAdvances, BeginGivesUpAdvances, ExecOkAdvances, ExecFailsAdvances,
     ExecTimesOutAdvances, RollbackAdvances, CommitAdvances, CtxRollbackAdvances DEF Step
<1>4. ASSUME NEW p \in Proc, Call(p) \/ Begin(p) \/ Expire(p) \/ Take(p) PROVE Advances(p)
  BY <1>4, CallAdvances, BeginAdvances, ExpireAdvances, TakeAdvances
<1> QED BY <1>1, <1>2, <1>3, <1>4 DEF Next

\* A batch's chunks, its counter and its transaction agree in every reachable state
\* (CreateBatch, query.go).
THEOREM Invariance == Spec => []BInv
BY InitB, NextB, PTL DEF Spec

\* A batch that reports success inserted every chunk and reports their number, not
\* what failed attempts had counted (CreateBatch, query.go).
THEOREM CompleteOnSuccessCorrect == Spec => []CompleteOnSuccess
<1>1. BInv => CompleteOnSuccess
  BY DEF BInv, Counted, Complete, CompleteOnSuccess
<1> QED BY <1>1, Invariance, PTL

\* Every batch is a Run without nested ones, for whatever number of goroutines share
\* the pool: each step of the system is a step of each batch's Run, or none.
THEOREM RunRefinement == Spec => ImplementsRun
<1>1. Init => \A p \in Proc : T(p)!Init
  BY DEF Init, T!Init
<1>2. BInv /\ [Next]_vars => [\A p \in Proc : T(p)!Next \/ UNCHANGED T(p)!vars]_vars
  BY NextB
<1> QED BY <1>1, <1>2, Invariance, PTL DEF Spec, ImplementsRun
=============================================================================
