---------------------------- MODULE CreateBatch ----------------------------
(***************************************************************************)
(* orm.Query.CreateBatch (pkg/orm/query.go): a transaction.Run whose fn    *)
(* inserts the models chunk by chunk.  The chunks go through the executor, *)
(* which takes its own connection of the same pool for each: the one       *)
(* BeginTx took stays idle in the caller's hands.  Goroutines run batches  *)
(* concurrently against one pool.                                          *)
(*                                                                         *)
(* An Exec of the executor is one step here, with the outcomes and effects *)
(* module Executor gives it: "transient" after its own retries, and a      *)
(* statement applied at most once.  Chunks inserted are counted in chunks. *)
(***************************************************************************)
EXTENDS Integers, Sequences, FiniteSets

CONSTANTS Proc,           \* goroutines
          Chunks,         \* len(models) / MaxBulkInsertRows, rounded up
          MaxOpen,        \* connections of the *sql.DB
          MaxAttempts,    \* of transaction.DefaultRetryPolicy
          DefaultTimeout  \* of the executor

ASSUME CreateBatchAssumption ==
    /\ Chunks \in Nat \ {0} /\ MaxOpen \in Nat \ {0}
    /\ MaxAttempts \in Nat \ {0} /\ DefaultTimeout \in Int

VARIABLES stage, attempt, ctxDone, conn, given, commits, outcome, \* as in Transaction
          start,     \* the chunks fn has inserted in this attempt
          total,     \* what fn counted
          inserted   \* history: how often each chunk was inserted

vars == <<stage, attempt, ctxDone, conn, given, commits, outcome, start, total, inserted>>

Error == {"transient", "fatal", "lost", "ctx"}

\* BeginTx holds a connection until the transaction is over.
Free == Cardinality({p \in Proc : conn[p] # "none"}) < MaxOpen

\* withTimeout gives each Exec a deadline, whatever the caller's context.
NoDeadline == FALSE  \* mutant: the wait for a connection is unbounded
HasDeadline == DefaultTimeout > 0

LeaveTx(p) == given' = [given EXCEPT ![p] = "none"]
NoTx(p)    == LeaveTx(p) /\ conn' = [conn EXCEPT ![p] = "none"]

Init ==
    /\ stage = [p \in Proc |-> "idle"]
    /\ attempt = [p \in Proc |-> 0]
    /\ ctxDone = [p \in Proc |-> FALSE]
    /\ conn = [p \in Proc |-> "none"]
    /\ given = [p \in Proc |-> "none"]
    /\ commits = [p \in Proc |-> <<>>]
    /\ outcome = [p \in Proc |-> "none"]
    /\ start = [p \in Proc |-> 0]
    /\ total = [p \in Proc |-> 0]
    /\ inserted = [p \in Proc |-> [c \in 1..Chunks |-> 0]]

Call(p) ==
    /\ stage[p] = "idle"
    /\ stage' = [stage EXCEPT ![p] = "begin"]
    /\ UNCHANGED <<attempt, ctxDone, conn, given, commits, outcome, start, total, inserted>>

Returns(p, o) ==
    /\ stage' = [stage EXCEPT ![p] = "returned"]
    /\ outcome' = [outcome EXCEPT ![p] = o]
    /\ UNCHANGED attempt

MoreAttemptsLax(n) == n <= MaxAttempts  \* mutant: <= for <
MoreAttempts(n) == n < MaxAttempts

AttemptFails(p, e) ==
    IF e = "transient" /\ MoreAttempts(attempt[p] + 1)
    THEN /\ stage' = [stage EXCEPT ![p] = "backoff"]
         /\ attempt' = [attempt EXCEPT ![p] = @ + 1]
         /\ UNCHANGED outcome
    ELSE Returns(p, e)

Backoff(p) ==
    /\ stage[p] = "backoff"
    /\ \/ ctxDone[p] /\ Returns(p, "ctx")
       \/ stage' = [stage EXCEPT ![p] = "begin"] /\ UNCHANGED <<attempt, outcome>>
    /\ UNCHANGED <<ctxDone, conn, given, commits, start, total, inserted>>

\* fn starts over: total = 0, start := 0.
TotalKept(p) == total  \* mutant: a retry counts on
TotalReset(p) == [total EXCEPT ![p] = 0]

\* BeginTx waits for a connection for as long as the caller's context lasts.
Begin(p) ==
    /\ stage[p] = "begin" /\ ~ctxDone[p] /\ Free
    /\ \/ /\ conn' = [conn EXCEPT ![p] = "open"]
          /\ stage' = [stage EXCEPT ![p] = "fn"]
          /\ start' = [start EXCEPT ![p] = 0]
          /\ total' = TotalReset(p)
          /\ UNCHANGED <<attempt, outcome>>
       \/ (\E e \in Error \ {"ctx"} : AttemptFails(p, e)) /\ UNCHANGED <<conn, start, total>>
    /\ UNCHANGED <<ctxDone, given, commits, inserted>>

BeginGivesUp(p) ==
    /\ stage[p] = "begin" /\ ctxDone[p]
    /\ Returns(p, "ctx")
    /\ UNCHANGED <<ctxDone, conn, given, commits, start, total, inserted>>
-----------------------------------------------------------------------------
FnGives(p, o) ==
    /\ stage' = [stage EXCEPT ![p] = "end"]
    /\ given' = [given EXCEPT ![p] = o]

Insert(p, n) == inserted' = [inserted EXCEPT ![p][start[p] + 1] = @ + n]

\* execWithPlugins on the next chunk succeeds, on a connection of its own.
ExecOk(p) ==
    /\ stage[p] = "fn" /\ start[p] < Chunks /\ Free
    /\ Insert(p, 1)
    /\ start' = [start EXCEPT ![p] = @ + 1]
    /\ total' = [total EXCEPT ![p] = @ + 1]
    /\ IF start[p] + 1 = Chunks THEN FnGives(p, "nil") ELSE UNCHANGED <<stage, given>>
    /\ UNCHANGED <<attempt, ctxDone, conn, commits, outcome>>

\* It fails: only a lost connection, a context done under way, or an error of
\* RowsAffected leaves the chunk inserted.
ExecFails(p) ==
    /\ stage[p] = "fn" /\ start[p] < Chunks /\ Free
    /\ \E e \in Error, n \in {0, 1} :
          /\ e = "transient" => n = 0
          /\ Insert(p, n)
          /\ FnGives(p, e)
    /\ UNCHANGED <<attempt, ctxDone, conn, commits, outcome, start, total>>

\* No connection comes free before the deadline; the error is not retryable.
ExecTimesOut(p) ==
    /\ stage[p] = "fn" /\ start[p] < Chunks
    /\ ctxDone[p] \/ HasDeadline
    /\ FnGives(p, "ctx")
    /\ UNCHANGED <<attempt, ctxDone, conn, commits, outcome, start, total, inserted>>
-----------------------------------------------------------------------------
Rollback(p) ==
    /\ stage[p] = "end" /\ given[p] \in Error
    /\ \/ AttemptFails(p, given[p])
       \/ conn[p] # "none" /\ given[p] # "transient" /\ AttemptFails(p, "lost")
    /\ NoTx(p)
    /\ UNCHANGED <<ctxDone, commits, start, total, inserted>>

Applied(p, a) == commits' = [commits EXCEPT ![p] = Append(@, a)]

Commit(p) ==
    /\ stage[p] = "end" /\ given[p] = "nil"
    /\ \/ ctxDone[p] /\ LeaveTx(p) /\ Returns(p, "ctx") /\ UNCHANGED <<conn, commits>>
       \/ /\ ~ctxDone[p] /\ NoTx(p)
          /\ \/ Applied(p, "ok") /\ Returns(p, "ok")
             \/ Applied(p, "lost") /\ AttemptFails(p, "lost")
             \/ (\E e \in Error \ {"ctx"} : AttemptFails(p, e)) /\ UNCHANGED commits
    /\ UNCHANGED <<ctxDone, start, total, inserted>>

Expire(p) ==
    /\ stage[p] \notin {"idle", "returned"} /\ ~ctxDone[p]
    /\ ctxDone' = [ctxDone EXCEPT ![p] = TRUE]
    /\ UNCHANGED <<stage, attempt, conn, given, commits, outcome, start, total, inserted>>

CtxRollback(p) ==
    /\ ctxDone[p] /\ conn[p] # "none"
    /\ conn' = [conn EXCEPT ![p] = "none"]
    /\ UNCHANGED <<stage, attempt, ctxDone, given, commits, outcome, start, total, inserted>>

Take(p) ==
    /\ stage[p] = "returned" /\ conn[p] = "none"
    /\ stage' = [stage EXCEPT ![p] = "idle"]
    /\ attempt' = [attempt EXCEPT ![p] = 0]
    /\ ctxDone' = [ctxDone EXCEPT ![p] = FALSE]
    /\ commits' = [commits EXCEPT ![p] = <<>>]
    /\ outcome' = [outcome EXCEPT ![p] = "none"]
    /\ start' = [start EXCEPT ![p] = 0]
    /\ total' = [total EXCEPT ![p] = 0]
    /\ inserted' = [inserted EXCEPT ![p] = [c \in 1..Chunks |-> 0]]
    /\ UNCHANGED <<conn, given>>

Step(p) ==
    \/ Backoff(p) \/ BeginGivesUp(p) \/ ExecOk(p) \/ ExecFails(p) \/ ExecTimesOut(p)
    \/ Rollback(p) \/ Commit(p) \/ CtxRollback(p)

Next == \E p \in Proc : Call(p) \/ Begin(p) \/ Step(p) \/ Expire(p) \/ Take(p)

Spec == Init /\ [][Next]_vars

\* Goroutines run, the server answers, timers fire, callers take their results, and
\* the pool passes over no BeginTx for ever.
FairSpec == Spec /\ \A p \in Proc : WF_vars(Step(p)) /\ SF_vars(Begin(p))
-----------------------------------------------------------------------------
(* Properties.                                                             *)

\* A batch that reports success inserted every chunk at least once, and reports the
\* number of rows it was given, not what failed attempts had counted.
CompleteOnSuccess ==
    \A p \in Proc : outcome[p] = "ok" =>
        total[p] = Chunks /\ \A c \in 1..Chunks : inserted[p][c] >= 1

\* Every CreateBatch returns, also when the batches under way hold every connection
\* and each waits for one more: the executor's deadline breaks the tie.
BatchReturns == \A p \in Proc : stage[p] # "idle" ~> stage[p] \in {"returned", "idle"}

\* Each batch is a Run without nested ones: what module Transaction establishes
\* about retries and commits holds of it.
T(p) == INSTANCE Transaction WITH
            MaxScopes <- 0, Policies <- {{"nil"}}, policy <- {"nil"},
            stage <- stage[p], attempt <- attempt[p], ctxDone <- ctxDone[p],
            conn <- conn[p], commits <- commits[p], outcome <- outcome[p],
            given <- given[p],
            frames <- IF stage[p] \in {"fn", "end"}
                      THEN <<[depth |-> 0, sp |-> 0, scope |-> 0, expired |-> FALSE]>>
                      ELSE <<>>,
            savepoints <- <<>>, scopes <- <<>>, undone <- {}
ImplementsRun ==
    /\ \A p \in Proc : T(p)!Init
    /\ [][\A p \in Proc : T(p)!Next \/ UNCHANGED T(p)!vars]_vars

\* "the batch is atomic: either every row is inserted or none are" (query.go:333).
AllOrNothing ==
    \A p \in Proc :
        /\ outcome[p] = "ok" => \A c \in 1..Chunks : inserted[p][c] = 1
        /\ outcome[p] \in {"transient", "fatal", "ctx"} =>
              \A c \in 1..Chunks : inserted[p][c] = 0
=============================================================================
