------------------------------ MODULE Executor ------------------------------
(***************************************************************************)
(* pkg/execution/executor.go over the statement cache: Key is SQL text, a  *)
(* Val is a prepared statement, onEvict closes it.  Each goroutine runs    *)
(* one Query or Exec at a time: prepare through the cache with the context *)
(* of whoever leads the flight, use the statement, retry a transient       *)
(* error after a backoff, give up when its own context is done.  The cache *)
(* is one shard; only GetOrCompute and Purge of LRU are used.              *)
(***************************************************************************)
EXTENDS LRU

CONSTANTS MaxAttempts    \* RetryPolicy.MaxAttempts

\* What the driver may answer: "transient" stands for the messages
\* isRetryableError lists, "ctx" for context.Canceled and DeadlineExceeded,
\* "lost" for a connection error after which the outcome is unknown, "closed"
\* for the use of a closed statement, "fatal" for the rest.
DriverErr == {"transient", "ctx", "lost", "fatal"}

ASSUME ExecutorAssumption ==
    /\ MaxAttempts \in Int
    /\ Err = DriverErr

VARIABLES phase,     \* where the call is
          mode,      \* Query or Exec
          text,      \* its SQL text
          ctxDone,   \* the call's context is cancelled or past its deadline
          attempt,   \* withRetryGeneric's loop counter
          stmt,      \* the statement prepare returned
          applied,   \* history: how often the server applied this call's Exec
          outcome,   \* what the call returns
          prepared,  \* history: the text a statement was prepared from
          closing    \* Close has been called

callVars == <<phase, mode, text, ctxDone, attempt, stmt, applied, outcome>>
exVars == <<vars, callVars, prepared, closing>>

attempts == IF MaxAttempts <= 0 THEN 1 ELSE MaxAttempts

\* Another attempt after error e: isRetryableError.  "closed" and "lost" match no needle,
\* although the comment on RetryPolicy (executor.go:91) names connection resets.
RetriesConnectionLoss(e) == e \in {"transient", "lost"}  \* mutant: retried too
Retryable(e) == e = "transient"

MoreAttemptsLax(n) == n <= attempts  \* mutant: <= for <
MoreAttempts(n) == n < attempts

ExInit ==
    /\ Init
    /\ phase = [p \in Proc |-> "idle"]
    /\ mode = [p \in Proc |-> "none"]
    /\ text = [p \in Proc |-> None]
    /\ ctxDone = [p \in Proc |-> FALSE]
    /\ attempt = [p \in Proc |-> 0]
    /\ stmt = [p \in Proc |-> None]
    /\ applied = [p \in Proc |-> 0]
    /\ outcome = [p \in Proc |-> "none"]
    /\ prepared = [v \in Val |-> None]
    /\ closing = FALSE
-----------------------------------------------------------------------------
\* Query or Exec is called; withTimeout gives the call its own context.
Start(p, k, m) ==
    /\ phase[p] = "idle" /\ ~closing
    /\ phase' = [phase EXCEPT ![p] = "prepare"]
    /\ mode' = [mode EXCEPT ![p] = m]
    /\ text' = [text EXCEPT ![p] = k]
    /\ UNCHANGED <<vars, ctxDone, attempt, stmt, applied, outcome, prepared, closing>>

\* The deadline passes, or the caller cancels.
Expire(p) ==
    /\ phase[p] \notin {"idle", "ended", "closing"}
    /\ ~ctxDone[p]
    /\ ctxDone' = [ctxDone EXCEPT ![p] = TRUE]
    /\ UNCHANGED <<vars, phase, mode, text, attempt, stmt, applied, outcome, prepared, closing>>

\* The statement cache is keyed by the exact text, whatever shard its hash picks.
KeyByHash(sqlText) == CHOOSE h \in Key : TRUE  \* mutant: by a hash, which collides
StmtKey(sqlText) == sqlText

Prepare(p) ==
    /\ phase[p] = "prepare"
    /\ GetOrCompute(p, StmtKey(text[p]))
    /\ UNCHANGED <<callVars, prepared, closing>>

\* db.PrepareContext(ctx, sqlText) with the leader's ctx; the driver may panic.
PrepareContext(p) ==
    /\ \/ \E v \in Val : /\ ComputeOk(p, v)
                         /\ prepared' = [prepared EXCEPT ![v] = text[p]]
       \/ /\ \/ \E e \in {"transient", "lost", "fatal"} : ComputeFails(p, Failed(e))
             \/ ctxDone[p] /\ ComputeFails(p, Failed("ctx"))
             \/ ComputeFails(p, Panicked)
          /\ UNCHANGED prepared
    /\ UNCHANGED <<callVars, closing>>

CacheWork(p) ==
    /\ Install(p) \/ Evict(p)
    /\ UNCHANGED <<callVars, prepared, closing>>
-----------------------------------------------------------------------------
End(p, o) ==
    /\ phase' = [phase EXCEPT ![p] = "ended"]
    /\ outcome' = [outcome EXCEPT ![p] = o]
    /\ UNCHANGED attempt

\* fn returned error e: the loop of withRetryGeneric, of which the fast path for
\* MaxAttempts <= 1 is the case of a single attempt.
AttemptFails(p, e) ==
    IF Retryable(e) /\ MoreAttempts(attempt[p] + 1)
    THEN /\ phase' = [phase EXCEPT ![p] = "backoff"]
         /\ attempt' = [attempt EXCEPT ![p] = @ + 1]
         /\ UNCHANGED outcome
    ELSE End(p, e)

\* GetOrCompute returned.  Calling a method on the nil statement a panicked
\* leader leaves to its waiters panics as well.
Prepared(p) ==
    /\ phase[p] = "prepare" /\ pc[p] = "returned"
    /\ LET r == res[p] IN
         \/ /\ r.st = "ok" /\ r.val # None
            /\ stmt' = [stmt EXCEPT ![p] = r.val]
            /\ phase' = [phase EXCEPT ![p] = "use"]
            /\ UNCHANGED <<attempt, outcome>>
         \/ r.st = "err" /\ AttemptFails(p, r.val) /\ UNCHANGED stmt
         \/ (r.st = "panic" \/ r = Ok(None)) /\ End(p, "panic") /\ UNCHANGED stmt
    /\ Return(p)
    /\ UNCHANGED <<mode, text, ctxDone, applied, prepared, closing>>

Closed(v) == v \in released

\* What the server may have done to an Exec that ended with o.
Effects(p, o) ==
    IF mode[p] = "query" THEN {0}
    ELSE CASE o = "ok"              -> {1}
           [] o \in {"lost", "ctx"} -> {0, 1}
           [] OTHER                 -> {0}

\* stmt.QueryContext or stmt.ExecContext: on a closed statement it fails at once.
UseStmt(p) ==
    /\ phase[p] = "use"
    /\ stmt' = [stmt EXCEPT ![p] = None]
    /\ \E o \in {"ok", "closed"} \cup DriverErr :
          /\ o = "closed" <=> Closed(stmt[p])
          /\ o = "ctx" => ctxDone[p]
          /\ \E n \in Effects(p, o) : applied' = [applied EXCEPT ![p] = @ + n]
          /\ IF o = "ok" THEN End(p, "ok") ELSE AttemptFails(p, o)
    /\ UNCHANGED <<vars, mode, text, ctxDone, prepared, closing>>

\* The select between ctx.Done() and the backoff timer; when both are ready Go
\* picks either.
Backoff(p) ==
    /\ phase[p] = "backoff"
    /\ \/ ctxDone[p] /\ End(p, "ctx")
       \/ /\ phase' = [phase EXCEPT ![p] = "prepare"]
          /\ UNCHANGED <<attempt, outcome>>
    /\ UNCHANGED <<vars, mode, text, ctxDone, stmt, applied, prepared, closing>>

\* The caller takes the result (and closes the rows of a Query).
Take(p) ==
    /\ phase[p] = "ended"
    /\ phase' = [phase EXCEPT ![p] = "idle"]
    /\ mode' = [mode EXCEPT ![p] = "none"]
    /\ text' = [text EXCEPT ![p] = None]
    /\ ctxDone' = [ctxDone EXCEPT ![p] = FALSE]
    /\ attempt' = [attempt EXCEPT ![p] = 0]
    /\ applied' = [applied EXCEPT ![p] = 0]
    /\ outcome' = [outcome EXCEPT ![p] = "none"]
    /\ UNCHANGED <<vars, stmt, prepared, closing>>

\* Close purges the cache; no call starts after it, those under way go on.
Close(p) ==
    /\ phase[p] = "idle" /\ ~closing
    /\ Purge(p)
    /\ closing' = TRUE
    /\ phase' = [phase EXCEPT ![p] = "closing"]
    /\ UNCHANGED <<mode, text, ctxDone, attempt, stmt, applied, outcome, prepared>>

CloseReturns(p) ==
    /\ phase[p] = "closing"
    /\ Return(p)
    /\ phase' = [phase EXCEPT ![p] = "idle"]
    /\ UNCHANGED <<mode, text, ctxDone, attempt, stmt, applied, outcome, prepared, closing>>
-----------------------------------------------------------------------------
CallStep(p) ==
    \/ Prepare(p) \/ PrepareContext(p) \/ CacheWork(p) \/ Prepared(p)
    \/ UseStmt(p) \/ Backoff(p) \/ CloseReturns(p)

ExNext ==
    \E p \in Proc :
        \/ \E k \in Key, m \in {"query", "exec"} : Start(p, k, m)
        \/ Expire(p) \/ CallStep(p) \/ Take(p) \/ Close(p)

ExSpec == ExInit /\ [][ExNext]_exVars

\* Goroutines run and the driver answers (it honours the deadline withTimeout sets);
\* nobody need start a call, cancel it, or call Close.
ExFairSpec == ExSpec /\ \A p \in Proc : WF_exVars(CallStep(p))
-----------------------------------------------------------------------------
(* Properties.                                                             *)

\* Every variable of the executor has its type.
ExTypeOK ==
    /\ phase \in [Proc -> {"idle", "prepare", "use", "backoff", "ended", "closing"}]
    /\ mode \in [Proc -> {"none", "query", "exec"}]
    /\ text \in [Proc -> Key \cup {None}]
    /\ ctxDone \in [Proc -> BOOLEAN]
    /\ attempt \in [Proc -> 0..(attempts - 1)]
    /\ stmt \in [Proc -> Val \cup {None}]
    /\ applied \in [Proc -> Nat]
    /\ outcome \in [Proc -> {"none", "ok", "panic", "closed"} \cup DriverErr]
    /\ prepared \in [Val -> Key \cup {None}]
    /\ closing \in BOOLEAN

\* Retrying never doubles a write: whatever failed before, the server applied the
\* statement of one Exec at most once, and exactly once if it reports success.  It holds
\* because isRetryableError leaves a lost connection alone, against the comment on
\* RetryPolicy: "connection-reset" (executor.go:92).
AppliedOnce ==
    \A p \in Proc :
        /\ applied[p] <= 1
        /\ mode[p] = "exec" /\ outcome[p] = "ok" => applied[p] = 1

\* "a collision must never return the wrong prepared statement for a query"
\* (executor.go:83): the statement a call uses, from the cache or from whoever led
\* its flight, was prepared from the call's own text.
RightStatement ==
    \A p \in Proc : phase[p] = "use" => prepared[stmt[p]] = text[p]

\* "a workload ... cannot ... leak prepared statements on the server"
\* (executor.go:58): besides a full cache, only a goroutine that has just prepared a
\* statement, or is about to close an evicted one, accounts for an open statement;
\* until a Close sets all of them aside at once.
Open == {v \in Val : born[v] # None /\ ~Closed(v)}
OpenBounded ==
    ~closing => Cardinality(Open) <=
                    capacity + Cardinality({p \in Proc : pc[p] \in {"computed", "evicting"}})

\* When no call is under way, every open statement can still be found, and so
\* closed, through the cache.
NoOrphanStatement ==
    (\A p \in Proc : phase[p] \in {"idle", "ended"}) => Open \subseteq CachedVals

\* Every call ends, also one that waits for another goroutine's prepare.
CallsEnd == \A p \in Proc : phase[p] # "idle" ~> phase[p] \in {"ended", "idle"}

\* "safe for concurrent use" (orm/db.go:31): as long as Close was not called, no
\* call fails because its prepared statement is closed.
NoUseAfterClose == \A p \in Proc : outcome[p] = "closed" => closing
=============================================================================
