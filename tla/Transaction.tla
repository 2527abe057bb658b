---------------------------- MODULE Transaction ----------------------------
(***************************************************************************)
(* pkg/transaction/transaction.go: one goroutine's Run with its retries,   *)
(* and the nested Runs its fn makes, each inside a savepoint of the        *)
(* innermost Tx.  fn is the caller's code: it may nest, return nil or an   *)
(* error, panic, recover a nested panic, ignore a nested error, and pass a *)
(* nested Run a context of its own that ends sooner.                       *)
(*                                                                         *)
(* The server (external) behaves as PostgreSQL: a failed statement aborts  *)
(* the transaction until a ROLLBACK TO; database/sql rolls back when the   *)
(* context of BeginTx is done.  A scope is one nested Run; its work is     *)
(* undone by a rollback to a savepoint no younger than its own.            *)
(***************************************************************************)
EXTENDS Integers, Sequences, FiniteSetsExt

CONSTANTS MaxAttempts,  \* policy.MaxAttempts
          Policies,     \* the IsRetryable callers pass: the errors it accepts, or {"nil"}
          MaxScopes     \* bound: nested Runs per attempt

\* "transient" stands for the messages defaultIsRetryable lists, "lost" for a
\* connection that broke or was reset, "ctx" for the error of a context that is done.
Error == {"transient", "fatal", "lost", "ctx"}

ASSUME TransactionAssumption ==
    /\ MaxAttempts \in Int /\ MaxScopes \in Nat
    /\ Policies \subseteq SUBSET Error \cup {{"nil"}}

VARIABLES stage,       \* where Run is
          policy,      \* its policy.IsRetryable
          attempt,     \* its loop counter
          ctxDone,     \* the context of Run is done
          frames,      \* the Tx of each Run under way, outermost first
          given,       \* what the innermost fn returned
          conn,        \* the server's transaction
          savepoints,  \* its savepoints, oldest first
          scopes,      \* history: the nested Runs of this attempt, oldest first
          undone,      \* history: the scopes the server rolled back
          commits,     \* history: the answers to the COMMITs the server applied
          outcome      \* what Run returns

txVars == <<frames, given, conn, savepoints, scopes, undone>>
vars == <<stage, policy, attempt, ctxDone, txVars, commits, outcome>>

attempts == IF MaxAttempts <= 0 THEN 1 ELSE MaxAttempts

\* Wrapping an error with %v and %w keeps its class.
RetriesConnectionLoss == {"transient", "lost"}  \* mutant: retried too
defaultIsRetryable == {"transient"}
Retryable(e) == e \in IF policy = {"nil"} THEN defaultIsRetryable ELSE policy

\* A Tx of depth d; a nested one remembers its savepoint's name and its scope.
FrameAtZero(d, i) ==  \* mutant: the nested Tx does not take over the depth
    [depth |-> 0, sp |-> d, scope |-> i, expired |-> FALSE]
Frame(d, i) == [depth |-> d, sp |-> d, scope |-> i, expired |-> FALSE]
Top == Len(frames)
Tx  == frames[Top]

\* The context the innermost Run was given is done: its own, or an enclosing one.
CtxOver == ctxDone \/ \E i \in DOMAIN frames : frames[i].expired

LeaveTx ==
    /\ frames' = <<>> /\ given' = "none"
    /\ savepoints' = <<>> /\ scopes' = <<>> /\ undone' = {}
NoTx == LeaveTx /\ conn' = "none"

Init ==
    /\ stage = "idle" /\ policy \in Policies /\ attempt = 0 /\ ctxDone = FALSE
    /\ frames = <<>> /\ given = "none" /\ conn = "none"
    /\ savepoints = <<>> /\ scopes = <<>> /\ undone = {}
    /\ commits = <<>> /\ outcome = "none"
-----------------------------------------------------------------------------
(* runWithRetry                                                            *)

Run ==
    /\ stage = "idle"
    /\ stage' = "begin" /\ policy' \in Policies
    /\ UNCHANGED <<attempt, ctxDone, txVars, commits, outcome>>

Returns(o) ==
    /\ stage' = "returned"
    /\ outcome' = o
    /\ UNCHANGED attempt

CounterStuck(n) == n  \* mutant: the loop counter is not incremented
NextAttempt(n) == n + 1

MoreAttemptsLax(n) == n <= attempts  \* mutant: <= for <
MoreAttempts(n) == n < attempts

AttemptFails(e) ==
    IF Retryable(e) /\ MoreAttempts(attempt + 1)
    THEN /\ stage' = "backoff"
         /\ attempt' = NextAttempt(attempt)
         /\ UNCHANGED outcome
    ELSE Returns(e)

AttemptSucceeds == Returns("ok")

\* The select between ctx.Done() and the timer; Go picks either when both are ready.
Backoff ==
    /\ stage = "backoff"
    /\ \/ ctxDone /\ Returns("ctx")
       \/ stage' = "begin" /\ UNCHANGED <<attempt, outcome>>
    /\ UNCHANGED <<ctxDone, txVars, commits>>

\* db.BeginTx; it takes no connection for a context that is done.
Begin ==
    /\ stage = "begin"
    /\ \/ /\ ~ctxDone
          /\ conn' = "open" /\ frames' = <<Frame(0, 0)>>
          /\ stage' = "fn"
          /\ UNCHANGED <<attempt, outcome, given, savepoints, scopes, undone>>
       \/ (\E e \in Error : (e = "ctx" <=> ctxDone) /\ AttemptFails(e)) /\ UNCHANGED txVars
    /\ UNCHANGED <<ctxDone, commits>>
-----------------------------------------------------------------------------
(* runNested: nextSavepoint, SAVEPOINT, then fn on a new Tx.               *)

OpenNested ==
    /\ stage = "fn" /\ conn = "open" /\ ~CtxOver
    /\ Len(scopes) < MaxScopes
    /\ LET d == Tx.depth + 1
           i == Len(scopes) + 1
       IN  /\ frames' = Append([frames EXCEPT ![Top].depth = d], Frame(d, i))
           /\ savepoints' = Append(savepoints, [name |-> d, scope |-> i])
           /\ scopes' = Append(scopes, [around |-> {frames[j].scope : j \in 2..Top}, fate |-> "open"])
    /\ UNCHANGED <<stage, attempt, ctxDone, given, conn, undone, commits, outcome>>

\* SAVEPOINT fails: releaseSavepoint takes the increment back and fn has an error.
NestedRefused ==
    /\ stage = "fn" /\ conn = "open" /\ ~CtxOver
    /\ conn' \in {"aborted", "lost"}
    /\ UNCHANGED <<stage, attempt, ctxDone, frames, given, savepoints, scopes,
                   undone, commits, outcome>>

\* The innermost fn returns or panics.
FnGives(o) ==
    /\ stage = "fn"
    /\ stage' = "end"
    /\ given' = o
    /\ UNCHANGED <<attempt, ctxDone, frames, conn, savepoints, scopes, undone,
                   commits, outcome>>

\* The newest savepoint with this Tx's name is the one the server takes.
Named == {i \in DOMAIN savepoints : savepoints[i].name = Tx.sp}
Target == Max(Named)

\* The nested Run returns to the enclosing fn, which goes on with its result.
Leave(fate) ==
    /\ frames' = SubSeq(frames, 1, Top - 1)
    /\ scopes' = [scopes EXCEPT ![Tx.scope].fate = fate]
    /\ stage' = "fn" /\ given' = "none"

\* A statement that is not executed: the context is over, or the transaction is,
\* or the server refuses it.
StatementFails ==
    \/ conn' = conn /\ (CtxOver \/ conn # "open")
    \/ conn = "open" /\ conn' = "aborted"
    \/ conn # "none" /\ conn' = "lost"

ReleaseSavepoint ==
    /\ stage = "end" /\ Top > 1 /\ given = "nil"
    /\ \/ /\ conn = "open" /\ ~CtxOver
          /\ savepoints' = SubSeq(savepoints, 1, Target - 1)
          /\ Leave("ok")
          /\ UNCHANGED conn
       \/ StatementFails /\ Leave("unsettled") /\ UNCHANGED savepoints
    /\ UNCHANGED <<attempt, ctxDone, undone, commits, outcome>>

RollbackToSavepoint ==
    /\ stage = "end" /\ Top > 1 /\ given \in Error
    /\ \/ /\ conn \in {"open", "aborted"} /\ ~CtxOver
          /\ conn' = "open"
          /\ savepoints' = SubSeq(savepoints, 1, Target)
          /\ undone' = undone \cup (savepoints[Target].scope .. Len(scopes))
          /\ Leave("failed")
       \/ StatementFails /\ Leave("kept") /\ UNCHANGED <<savepoints, undone>>
    /\ UNCHANGED <<attempt, ctxDone, commits, outcome>>

\* runNested recovers nothing: the enclosing fn either panics too or recovers.
NestedPanics ==
    /\ stage = "end" /\ Top > 1 /\ given = "panic"
    /\ frames' = SubSeq(frames, 1, Top - 1)
    /\ scopes' = [scopes EXCEPT ![Tx.scope].fate = "panicked"]
    /\ \/ UNCHANGED <<stage, given>>
       \/ stage' = "fn" /\ given' = "none"
    /\ UNCHANGED <<attempt, ctxDone, conn, savepoints, undone, commits, outcome>>
-----------------------------------------------------------------------------
(* runOnce, after fn.                                                      *)

PanicKeepsTx == LeaveTx /\ UNCHANGED conn  \* mutant: no deferred Rollback
PanicRollsBack == NoTx

Panics ==
    /\ stage = "end" /\ Top = 1 /\ given = "panic"
    /\ PanicRollsBack
    /\ Returns("panic")
    /\ UNCHANGED <<ctxDone, commits>>

\* fn's error: Rollback, then the error.  The error of a Rollback that fails is added
\* to it; the text is then that of both.
Rollback ==
    /\ stage = "end" /\ Top = 1 /\ given \in Error
    /\ \/ AttemptFails(given)
       \/ conn # "none" /\ ~Retryable(given) /\ AttemptFails("lost")
    /\ NoTx
    /\ UNCHANGED <<ctxDone, commits>>

\* The server has applied a COMMIT; a is what the client hears.
Applied(a) == commits' = Append(commits, a)

\* Commit refuses a context that is done and leaves the rollback to database/sql.
Commit ==
    /\ stage = "end" /\ Top = 1 /\ given = "nil"
    /\ \/ ctxDone /\ LeaveTx /\ AttemptFails("ctx") /\ UNCHANGED <<conn, commits>>
       \/ /\ ~ctxDone /\ conn = "open" /\ NoTx
          /\ \/ Applied("ok") /\ AttemptSucceeds
             \/ Applied("lost") /\ AttemptFails("lost")
             \/ (\E e \in Error \ {"ctx"} : AttemptFails(e)) /\ UNCHANGED commits
       \/ ~ctxDone /\ conn = "aborted" /\ NoTx /\ AttemptFails("fatal") /\ UNCHANGED commits
       \/ ~ctxDone /\ conn = "lost" /\ NoTx /\ AttemptFails("lost") /\ UNCHANGED commits
    /\ UNCHANGED ctxDone

\* Run's context, or the one of nested Run i and with it those inside it, is done.
Expire ==
    /\ stage \notin {"idle", "returned"} /\ ~ctxDone
    /\ ctxDone' = TRUE
    /\ UNCHANGED <<stage, attempt, txVars, commits, outcome>>

ExpireNested(i) ==
    /\ ~CtxOver
    /\ frames' = [frames EXCEPT ![i].expired = TRUE]
    /\ UNCHANGED <<stage, attempt, ctxDone, given, conn, savepoints, scopes, undone,
                   commits, outcome>>

\* database/sql rolls back a transaction whose context is done.
CtxRollback ==
    /\ ctxDone /\ conn # "none"
    /\ conn' = "none"
    /\ UNCHANGED <<stage, attempt, ctxDone, frames, given, savepoints, scopes, undone,
                   commits, outcome>>

\* The caller takes the result; the next Run starts afresh.
Take ==
    /\ stage = "returned" /\ conn = "none"
    /\ stage' = "idle" /\ attempt' = 0 /\ ctxDone' = FALSE
    /\ commits' = <<>> /\ outcome' = "none"
    /\ NoTx
-----------------------------------------------------------------------------
\* The steps of the package and of database/sql; fn's are OpenNested and FnGives.
RunStep ==
    /\ \/ Backoff \/ Begin
       \/ ReleaseSavepoint \/ RollbackToSavepoint \/ NestedPanics
       \/ Panics \/ Rollback \/ Commit \/ CtxRollback
    /\ UNCHANGED policy

FnEnds ==
    /\ \E o \in {"nil", "panic"} \cup Error : FnGives(o)
    /\ UNCHANGED policy

OtherStep ==
    /\ \/ OpenNested \/ NestedRefused
       \/ Expire \/ \E i \in 2..Top : ExpireNested(i)
       \/ Take
    /\ UNCHANGED policy

Next == Run \/ RunStep \/ FnEnds \/ OtherStep

Spec == Init /\ [][Next]_vars

\* The server answers, the timer fires, and fn does not run for ever.
FairSpec == Spec /\ WF_vars(RunStep) /\ WF_vars(FnEnds)
-----------------------------------------------------------------------------
(* Properties.                                                             *)

FrameType == [depth : Nat, sp : Nat, scope : Nat, expired : BOOLEAN]
MarkType  == [name : Nat, scope : Nat]
ScopeType == [around : SUBSET Nat,
              fate : {"open", "ok", "failed", "kept", "unsettled", "panicked"}]

\* Every variable has its type.
TypeOK ==
    /\ stage \in {"idle", "begin", "fn", "end", "backoff", "returned"} /\ policy \in Policies
    /\ attempt \in 0..(attempts - 1)
    /\ ctxDone \in BOOLEAN
    /\ frames \in Seq(FrameType)
    /\ given \in {"none", "nil", "panic"} \cup Error
    /\ conn \in {"none", "open", "aborted", "lost"}
    /\ savepoints \in Seq(MarkType)
    /\ scopes \in Seq(ScopeType)
    /\ undone \subseteq Nat
    /\ commits \in Seq({"ok", "lost"})
    /\ outcome \in {"none", "ok", "panic"} \cup Error

\* The savepoint counter (transaction.go:28) makes ROLLBACK TO and RELEASE hit the
\* savepoint of the Run that issues them, whatever older siblings, failed or
\* panicked Runs left on the server under the same name.
OwnSavepoint ==
    Top > 1 /\ conn # "none" =>
        Named # {} /\ savepoints[Target].scope = Tx.scope

\* What a live transaction has lost is exactly the scopes whose ROLLBACK TO was
\* executed, with those inside them, whatever names they share: no rollback takes
\* away a sibling's or an enclosing Run's work.  Those whose ROLLBACK TO failed are kept.
ScopedRollback ==
    conn = "open" =>
        undone = {s \in DOMAIN scopes :
                     \E r \in scopes[s].around \cup {s} : scopes[r].fate = "failed"}

\* However Run ends, by a commit, an error, a panic or its context, its transaction
\* is over, or database/sql is about to end it: no connection is leaked.
NoTxLeft == stage \in {"idle", "begin", "backoff", "returned"} => conn = "none" \/ ctxDone

\* Whatever the policy accepts, the loop ends with the first COMMIT that is answered,
\* Run returns nil for it and for nothing else, and no attempt commits twice: only
\* COMMITs whose answer was lost can have been applied besides.
CommitsAnswered ==
    /\ \A i \in DOMAIN commits : commits[i] = "ok" => i = Len(commits) /\ outcome = "ok"
    /\ outcome = "ok" => commits # <<>> /\ commits[Len(commits)] = "ok"
    /\ Len(commits) <= attempt + 1

\* The transaction is applied once if Run returns nil, at most once if it returns that
\* the connection was lost, and else not at all.
AppliedOnce ==
    /\ Len(commits) <= 1
    /\ outcome = "ok" => Len(commits) = 1
    /\ outcome \in {"transient", "fatal", "ctx", "panic"} => commits = <<>>

\* A retry never doubles a transaction that was answered (transaction.go:104), and none
\* at all unless the caller's own policy accepts a lost connection.  Such a policy, which
\* the comment on IsRetryable suggests ("connection reset", transaction.go:53), may apply
\* a transaction once in each attempt, as the answer to a COMMIT may be what is lost.
CommittedOnce == CommitsAnswered /\ ("lost" \in policy \/ AppliedOnce)

\* Run returns, however often it retries.
RunReturns == stage # "idle" ~> stage \in {"returned", "idle"}
=============================================================================
