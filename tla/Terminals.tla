----------------------------- MODULE Terminals ------------------------------
(***************************************************************************)
(* The terminal operations of pkg/orm/query.go, from Model to the last     *)
(* Close: the model's table comes from Metadata, compilation may fail, the *)
(* plugins observe the statement, and the rows of a query hold one of the  *)
(* pool's connections until they are closed, by the scanner, by reaching   *)
(* their end, by an error, or by the deadline of their context.  Module    *)
(* Executor has the retries of a statement and PlanCache the plans; here   *)
(* both are one step that may fail.  CreateBatch has a module of its own.  *)
(***************************************************************************)
EXTENDS Metadata, Integers, Sequences, FiniteSets

CONSTANTS MaxOpen,         \* the pool's MaxOpenConns
          DefaultTimeout,  \* of the executor
          MaxRows          \* bound: rows of one result

ASSUME TerminalsAssumption ==
    MaxOpen \in Nat \ {0} /\ DefaultTimeout \in Int /\ MaxRows \in Nat

VARIABLES phase,     \* where the call is
          op,        \* the terminal called
          expired,   \* its context has ended
          stmt,      \* what the executor returned for its statement
          observed,  \* history: what AfterExecute was told
          rows,      \* its *Rows: open, closed, or failed (ended by an error)
          left,      \* rows of the result not read yet
          decoded,   \* rows.Scan has filled a row
          result,    \* what the call returned
          leaked     \* rows left open by calls that panicked and are over

callVars == <<phase, op, expired, stmt, observed, rows, left, decoded, result>>
vars == <<metaVars, callVars, leaked>>

Queries == {"find", "first", "count"}
Writes  == {"create", "update"}  \* "update": UpdateAll or Delete, which have one shape

Init ==
    /\ MetaInit
    /\ phase = [p \in Proc |-> "idle"]
    /\ op = [p \in Proc |-> "none"]
    /\ expired = [p \in Proc |-> FALSE]
    /\ stmt = [p \in Proc |-> "none"]
    /\ observed = [p \in Proc |-> <<>>]
    /\ rows = [p \in Proc |-> "none"]
    /\ left = [p \in Proc |-> 0]
    /\ decoded = [p \in Proc |-> FALSE]
    /\ result = [p \in Proc |-> "none"]
    /\ leaked = 0
-----------------------------------------------------------------------------
Goto(p, at) == phase' = [phase EXCEPT ![p] = at]

End(p, r) ==
    /\ Goto(p, "done")
    /\ result' = [result EXCEPT ![p] = r]

\* withTimeout gives the context of a statement a deadline.
NoDeadline == FALSE  \* mutant: the caller's context as it is
HasDeadline == DefaultTimeout > 0

\* Model[T](db) and the terminal chained to it.
Call(p, o, t) ==
    /\ phase[p] = "idle"
    /\ Compile(p, t)
    /\ op' = [op EXCEPT ![p] = o]
    /\ Goto(p, "model")
    /\ UNCHANGED <<expired, stmt, observed, rows, left, decoded, result, leaked>>

Modelling(p) ==
    /\ MetaStep(p)
    /\ UNCHANGED <<callVars, leaked>>

\* A nil table with a nil error makes Model panic; a compile error makes every
\* terminal fail but UpdateAll and Delete, which go on with the table "<invalid>".
Modelled(p) ==
    /\ phase[p] = "model"
    /\ Leave(p)
    /\ \/ mpc[p] = "panicked" /\ End(p, "panic")
       \/ mpc[p] = "compiled" /\ table[entry[p]] = None /\ End(p, "panic")
       \/ mpc[p] = "refused" /\ op[p] # "update" /\ End(p, "err")
       \/ /\ \/ mpc[p] = "compiled" /\ table[entry[p]] # None
             \/ mpc[p] = "refused" /\ op[p] = "update"
          /\ Goto(p, "prepare") /\ UNCHANGED result
    /\ UNCHANGED <<op, expired, stmt, observed, rows, left, decoded, leaked>>

\* What comes before the executor: Create's BeforeCreate, compileCached,
\* ExtractArgsFromBuilder, Resolve and RunBeforeExecute.  Each may return an error,
\* and the hook and the plugins may panic; nobody else sees a state in between.
Prepare(p) ==
    /\ phase[p] = "prepare"
    /\ \/ Goto(p, "connect") /\ UNCHANGED result
       \/ \E r \in {"err", "panic"} : End(p, r)
    /\ UNCHANGED <<metaVars, op, expired, stmt, observed, rows, left, decoded, leaked>>
-----------------------------------------------------------------------------
InUse == Cardinality({p \in Proc : phase[p] = "execute" \/ rows[p] = "open"}) + leaked

\* executor.Query or Exec gets a connection, or waits until its context ends.
Connect(p) ==
    /\ phase[p] = "connect"
    /\ \/ InUse < MaxOpen /\ Goto(p, "execute") /\ UNCHANGED stmt
       \/ expired[p] /\ Goto(p, "after") /\ stmt' = [stmt EXCEPT ![p] = "err"]
    /\ UNCHANGED <<metaVars, op, expired, observed, rows, left, decoded, result, leaked>>

\* The server's answer; the connection stays with the rows of a query.
Execute(p) ==
    /\ phase[p] = "execute"
    /\ Goto(p, "after")
    /\ \/ /\ stmt' = [stmt EXCEPT ![p] = "ok"]
          /\ IF op[p] \in Queries
             THEN /\ rows' = [rows EXCEPT ![p] = "open"]
                  /\ \E n \in 0..MaxRows : left' = [left EXCEPT ![p] = n]
             ELSE UNCHANGED <<rows, left>>
       \/ stmt' = [stmt EXCEPT ![p] = "err"] /\ UNCHANGED <<rows, left>>
    /\ UNCHANGED <<metaVars, op, expired, observed, decoded, result, leaked>>

\* Whether the plugins hear of a statement that ended with outcome o.
HearsSuccess(o) == o = "ok"  \* mutant: AfterExecute behind the error return
Hears(o) == TRUE

\* RunAfterExecute, then the executor's error.  If a plugin panics here nobody has
\* deferred a Close of the rows yet.
AfterExecute(p) ==
    /\ phase[p] = "after"
    /\ observed' = [observed EXCEPT ![p] = IF Hears(stmt[p]) THEN Append(@, stmt[p]) ELSE @]
    /\ \/ stmt[p] = "err" /\ End(p, "err")
       \/ /\ stmt[p] = "ok" /\ op[p] # "update"
          /\ Goto(p, CASE op[p] \in {"find", "first"} -> "scanPlan"
                       [] op[p] = "count"            -> "scan"
                       [] op[p] = "create"           -> "afterCreate")
          /\ UNCHANGED result
       \/ /\ stmt[p] = "ok" /\ op[p] = "update"
          /\ \E r \in {"ok", "err"} : End(p, r)  \* res.RowsAffected
       \/ End(p, "panic")
    /\ UNCHANGED <<metaVars, op, expired, stmt, rows, left, decoded, leaked>>

AfterCreate(p) ==
    /\ phase[p] = "afterCreate"
    /\ \E r \in {"ok", "err", "panic"} : End(p, r)
    /\ UNCHANGED <<metaVars, op, expired, stmt, observed, rows, left, decoded, leaked>>
-----------------------------------------------------------------------------
\* Close; rows that have failed stay failed.
Close(p) == rows' = [rows EXCEPT ![p] = IF @ = "open" THEN "closed" ELSE @]

\* A cached scan plan, or a new one from rows.Columns, which fails on ended rows; then
\* LookupFastScan.  A generated scanner decodes as the plan does, but Find also calls
\* the all-rows function of one that was registered without it.
ScanPlan(p) ==
    /\ phase[p] = "scanPlan"
    /\ \/ Goto(p, "scan") /\ UNCHANGED <<rows, result>>
       \/ rows[p] = "failed" /\ Close(p) /\ End(p, "err")
       \/ op[p] = "find" /\ UNCHANGED rows /\ End(p, "panic")
    /\ UNCHANGED <<metaVars, op, expired, stmt, observed, left, decoded, leaked>>

\* The terminals that deferred a Close before they began to decode.
ClosesFindOnly(o) == o = "find"  \* mutant: no defer in Count
ClosesDeferred(o) == o \in {"find", "count"}

CloseDeferred(p) == IF ClosesDeferred(op[p]) THEN Close(p) ELSE UNCHANGED rows

\* First: rows.Next, rows.Scan into a new model, and Close, unless a Scanner of the
\* model panics.
ReadOne(p) ==
    /\ phase[p] = "scan" /\ op[p] = "first"
    /\ rows[p] = "open" /\ left[p] > 0
    /\ \/ /\ decoded' = [decoded EXCEPT ![p] = TRUE]
          /\ left' = [left EXCEPT ![p] = @ - 1]
          /\ Close(p)
          /\ \E r \in {"ok", "err"} : End(p, r)
       \/ Close(p) /\ End(p, "err") /\ UNCHANGED <<left, decoded>>
       \/ End(p, "panic") /\ UNCHANGED <<rows, left, decoded>>
    /\ UNCHANGED <<metaVars, op, expired, stmt, observed, leaked>>

\* Find: rows.Next and rows.Scan into the slice's next element; a Scanner of the model
\* may refuse the value or panic.  Count: once, into n.
ReadRow(p) ==
    /\ phase[p] = "scan" /\ op[p] # "first"
    /\ rows[p] = "open" /\ left[p] > 0
    /\ op[p] = "count" => ~decoded[p]
    /\ \/ /\ decoded' = [decoded EXCEPT ![p] = TRUE]
          /\ left' = [left EXCEPT ![p] = @ - 1]
          /\ UNCHANGED <<phase, rows, result>>
       \/ /\ CloseDeferred(p)
          /\ End(p, "err") \/ (op[p] = "find" /\ End(p, "panic"))
          /\ UNCHANGED <<left, decoded>>
    /\ UNCHANGED <<metaVars, op, expired, stmt, observed, leaked>>

\* rows.Err after the last Next.
ErrUnchecked(failed) == FALSE  \* mutant: return out, nil
RowsErr(failed) == failed

\* rows.Next finds no row left and closes, or Count wants no more, or the server, the
\* connection or the deadline ended the result before its end.
EndRows(p) ==
    /\ phase[p] = "scan"
    /\ \E failed \in BOOLEAN :
          /\ rows[p] = "failed" => failed
          /\ failed \/ left[p] = 0 \/ (op[p] = "count" /\ decoded[p])
          /\ IF failed THEN rows' = [rows EXCEPT ![p] = "failed"]
             ELSE IF op[p] = "count" /\ decoded[p] THEN CloseDeferred(p)
             ELSE Close(p)
          /\ End(p, IF RowsErr(failed) THEN "err"
                    ELSE IF op[p] = "first" THEN "norows" ELSE "ok")
    /\ UNCHANGED <<metaVars, op, expired, stmt, observed, left, decoded, leaked>>
-----------------------------------------------------------------------------
\* The deadline passes, or the caller cancels; nothing reads the context earlier or
\* later than that.
Expire(p) ==
    /\ ~expired[p]
    /\ phase[p] \in {"connect", "execute"} \/ rows[p] = "open"
    /\ expired' = [expired EXCEPT ![p] = TRUE]
    /\ UNCHANGED <<metaVars, phase, op, stmt, observed, rows, left, decoded, result, leaked>>

\* database/sql closes rows whose context has ended, in a goroutine of its own.
AwaitDone(p) ==
    /\ expired[p] /\ rows[p] = "open"
    /\ rows' = [rows EXCEPT ![p] = "failed"]
    /\ UNCHANGED <<metaVars, phase, op, expired, stmt, observed, left, decoded, result, leaked>>

AwaitDoneLeaked ==
    /\ leaked > 0
    /\ leaked' = leaked - 1
    /\ UNCHANGED <<metaVars, callVars>>

\* The caller has the result, or has recovered, and goes on.
Take(p) ==
    /\ phase[p] = "done"
    /\ Goto(p, "idle")
    /\ leaked' = IF rows[p] = "open" THEN leaked + 1 ELSE leaked
    /\ op' = [op EXCEPT ![p] = "none"]
    /\ expired' = [expired EXCEPT ![p] = FALSE]
    /\ stmt' = [stmt EXCEPT ![p] = "none"]
    /\ observed' = [observed EXCEPT ![p] = <<>>]
    /\ rows' = [rows EXCEPT ![p] = "none"]
    /\ left' = [left EXCEPT ![p] = 0]
    /\ decoded' = [decoded EXCEPT ![p] = FALSE]
    /\ result' = [result EXCEPT ![p] = "none"]
    /\ UNCHANGED metaVars
-----------------------------------------------------------------------------
CallStep(p) ==
    \/ Modelling(p) \/ Modelled(p) \/ Prepare(p)
    \/ Connect(p) \/ Execute(p) \/ AfterExecute(p) \/ AfterCreate(p)
    \/ ScanPlan(p) \/ ReadOne(p) \/ ReadRow(p) \/ EndRows(p)

Next ==
    \/ \E p \in Proc :
          \/ \E o \in Queries \cup Writes, t \in Type : Call(p, o, t)
          \/ CallStep(p) \/ Expire(p) \/ AwaitDone(p) \/ Take(p)
    \/ AwaitDoneLeaked

Spec == Init /\ [][Next]_vars

\* Goroutines run, the server answers, a context that is done is acted upon, and a
\* deadline passes where there is one: nobody need cancel, call, or take a result.
FairSpec ==
    /\ Spec
    /\ \A p \in Proc : WF_vars(CallStep(p)) /\ WF_vars(AwaitDone(p))
    /\ \A p \in Proc : WF_vars(HasDeadline /\ Expire(p))
    /\ WF_vars(HasDeadline /\ AwaitDoneLeaked)
-----------------------------------------------------------------------------
(* Properties.                                                             *)

Phase == {"idle", "model", "prepare", "connect", "execute", "after", "afterCreate",
          "scanPlan", "scan", "done"}

\* Every variable has its type, and the pool lends no more connections than it has.
TypeOK ==
    /\ MetaTypeOK
    /\ phase \in [Proc -> Phase]
    /\ op \in [Proc -> Queries \cup Writes \cup {"none"}]
    /\ expired \in [Proc -> BOOLEAN]
    /\ stmt \in [Proc -> {"none", "ok", "err"}]
    /\ \A p \in Proc : observed[p] \in Seq({"ok", "err"})
    /\ rows \in [Proc -> {"none", "open", "closed", "failed"}]
    /\ left \in [Proc -> 0..MaxRows]
    /\ decoded \in [Proc -> BOOLEAN]
    /\ result \in [Proc -> {"none", "ok", "err", "norows", "panic"}]
    /\ InUse <= MaxOpen

\* A call that returned, with whatever result, holds no connection (executor.go:253,
\* "Failing to close leaks both"); a panic leaves one to the deadline only where no
\* Close is deferred: in a plugin, in First, and before the scanner is called.
ConnsReturned ==
    \A p \in Proc :
        phase[p] = "done" /\ rows[p] = "open" =>
            /\ result[p] = "panic"
            /\ op[p] = "first" \/ ~decoded[p]

\* A nil error means all of it: Find has every row of the result although the
\* connection or the deadline may end it at any row, First has a row, and "no rows"
\* is reported only of an empty result.
WholeResult ==
    \A p \in Proc :
        /\ result[p] = "ok" /\ op[p] = "find" => left[p] = 0
        /\ result[p] = "ok" /\ op[p] = "first" => decoded[p]
        /\ result[p] = "ok" /\ op[p] = "count" => decoded[p] \/ left[p] = 0
        /\ result[p] = "norows" => left[p] = 0 /\ ~decoded[p]

\* "BeforeExecute fires before the DB round trip and AfterExecute fires after it"
\* (query.go:165): a call that returned told the plugins once about each statement
\* it gave the executor, with its outcome, and of nothing else.
HooksPaired ==
    \A p \in Proc :
        result[p] \in {"ok", "err", "norows"} =>
            observed[p] = IF stmt[p] = "none" THEN <<>> ELSE <<stmt[p]>>

\* Every call ends, also on a pool whose connections were all leaked by calls that
\* panicked.
CallsEnd == \A p \in Proc : phase[p] # "idle" ~> phase[p] \in {"done", "idle"}
=============================================================================
