--------------------------- MODULE ExecutorProofs ---------------------------
(***************************************************************************)
(* Theorems about Executor for every set of goroutines, SQL texts and      *)
(* statements, every capacity of the cache and every number of attempts.   *)
(***************************************************************************)
EXTENDS Executor, LRUProofs

\* The retry loop runs at least once.
LEMMA AttemptsPositive == attempts \in Nat /\ attempts >= 1
BY ExecutorAssumption DEF attempts

\* Where a call stands in the executor says where it stands in the cache, and what
\* it holds there is of its own text.
Linked(p) ==
    /\ phase[p] = "prepare" => /\ text[p] \in Key /\ pc[p] \notin {"read", "slow"}
                               /\ pc[p] # "idle" => key[p] = text[p]
    /\ phase[p] \in {"use", "backoff"} => text[p] \in Key
    /\ phase[p] \in {"idle", "use", "backoff", "ended"} => pc[p] = "idle"
    /\ phase[p] = "closing" => pc[p] \in {"evicting", "returned"}
    /\ phase[p] = "use" => stmt[p] \in Val /\ born[stmt[p]] = text[p]
    /\ res[p].st = "err" => res[p].val \in DriverErr

\* What the server did for a call is settled once the call has ended; until then it
\* did nothing.
Settled(p) ==
    /\ phase[p] # "ended" => applied[p] = 0 /\ outcome[p] = "none"
    /\ phase[p] = "ended" => applied[p] \in {0, 1}
    /\ mode[p] = "exec" /\ outcome[p] = "ok" => applied[p] = 1

\* A statement was prepared from the text it is cached under.
Origins == \A v \in Val : prepared[v] = born[v]

CallInv == ExTypeOK /\ (\A p \in Proc : Linked(p) /\ Settled(p)) /\ Origins

ExInv == RInv /\ CallInv

\* Nobody's statement changes its origin.
BornStays == \A v \in Val : born[v] # None => born'[v] = born[v]

\* A goroutine the step does not concern stays linked.
LEMMA OthersLinked ==
  ASSUME NEW q \in Proc, Linked(q), BornStays,
         pc'[q] = pc[q], key'[q] = key[q], res'[q] = res[q],
         phase'[q] = phase[q], text'[q] = text[q], stmt'[q] = stmt[q]
  PROVE  Linked(q)'
BY LRUAssumption DEF Linked, BornStays
-----------------------------------------------------------------------------
(* Steps of the cache under a call.                                        *)

\* p's lookup in the cache.
LEMMA PrepareLinked ==
  ASSUME ExInv, NEW p \in Proc, Prepare(p)
  PROVE  Next /\ CallInv'
<1>. USE DEF ExInv, CallInv
<1>1. /\ phase[p] = "prepare" /\ text[p] \in Key /\ GetOrCompute(p, text[p])
      /\ UNCHANGED <<callVars, prepared, closing>>
  BY DEF Prepare, StmtKey, Linked
<1>2. Next
  BY <1>1 DEF Next, Call
<1>3. /\ pc[p] = "idle" /\ key' = [key EXCEPT ![p] = text[p]]
      /\ UNCHANGED born
      /\ \/ \E s \in {"waiting", "computing"} : pc' = [pc EXCEPT ![p] = s] /\ res' = res
         \/ \E v : pc' = [pc EXCEPT ![p] = "returned"] /\ res' = [res EXCEPT ![p] = Ok(v)]
  BY <1>1 DEF GetOrCompute, Begin, HitTouch, Join, Lead, Finish, history
<1>4. ASSUME NEW q \in Proc PROVE Linked(q)'
  <2>1. CASE q = p
    BY <1>1, <1>3, <2>1 DEF RInv, IInv, CallTypes, Linked, callVars, Ok
  <2>2. CASE q # p
    <3>1. pc'[q] = pc[q] /\ key'[q] = key[q] /\ res'[q] = res[q]
      BY <1>3, <2>2 DEF RInv, IInv, CallTypes
    <3> QED BY <1>1, <1>3, <3>1, OthersLinked DEF BornStays, callVars
  <2> QED BY <2>1, <2>2
<1>5. ExTypeOK' /\ Origins' /\ \A q \in Proc : Settled(q)'
  BY <1>1, <1>3 DEF ExTypeOK, Origins, Settled, callVars
<1> QED BY <1>2, <1>4, <1>5

\* The driver prepares, for whoever leads the flight.
LEMMA PrepareContextLinked ==
  ASSUME ExInv, NEW p \in Proc, PrepareContext(p)
  PROVE  Next /\ CallInv'
<1>. USE DEF ExInv, CallInv
<1>1. UNCHANGED <<callVars, closing>>
  BY DEF PrepareContext
<1>2. CASE \E v \in Val : ComputeOk(p, v) /\ prepared' = [prepared EXCEPT ![v] = text[p]]
  <2>1. PICK v \in Val : ComputeOk(p, v) /\ prepared' = [prepared EXCEPT ![v] = text[p]]
    BY <1>2
  <2>2. Next
    BY <2>1 DEF Next, Work
  <2>3. /\ pc[p] = "computing" /\ born[v] = None /\ born' = [born EXCEPT ![v] = key[p]]
        /\ pc' = [pc EXCEPT ![p] = "computed"] /\ res' = [res EXCEPT ![p] = Ok(v)]
        /\ UNCHANGED key
    BY <2>1 DEF ComputeOk, Fresh
  <2>4. phase[p] = "prepare" /\ key[p] = text[p] /\ text[p] \in Key
    BY <2>3 DEF Linked, ExTypeOK
  <2>5. BornStays
    BY <2>3 DEF BornStays, RInv, IInv, CallTypes
  <2>6. ASSUME NEW q \in Proc PROVE Linked(q)'
    <3>1. CASE q = p
      BY <1>1, <2>3, <2>4, <3>1 DEF RInv, IInv, CallTypes, Linked, callVars, Ok
    <3>2. CASE q # p
      <4>1. pc'[q] = pc[q] /\ key'[q] = key[q] /\ res'[q] = res[q]
        BY <2>3, <3>2 DEF RInv, IInv, CallTypes
      <4> QED BY <1>1, <2>5, <4>1, OthersLinked DEF callVars
    <3> QED BY <3>1, <3>2
  <2>7. Origins'
    BY <2>1, <2>3, <2>4 DEF Origins, ExTypeOK, RInv, IInv, CallTypes
  <2>8. ExTypeOK' /\ \A q \in Proc : Settled(q)'
    BY <1>1, <2>1, <2>4 DEF ExTypeOK, Settled, callVars
  <2> QED BY <2>2, <2>6, <2>7, <2>8
<1>3. CASE ~\E v \in Val : ComputeOk(p, v) /\ prepared' = [prepared EXCEPT ![v] = text[p]]
  <2>1. PICK r \in {Failed(e) : e \in DriverErr} \cup {Panicked} :
           ComputeFails(p, r) /\ UNCHANGED prepared
    BY <1>3 DEF PrepareContext, DriverErr
  <2>2. Next
    BY <2>1, ExecutorAssumption DEF Next, Work
  <2>3. /\ pc[p] = "computing" /\ UNCHANGED <<key, born>>
        /\ pc' = [pc EXCEPT ![p] = "computed"] /\ res' = [res EXCEPT ![p] = r]
    BY <2>1 DEF ComputeFails, history
  <2>4. r.st = "err" => r.val \in DriverErr
    BY DEF Failed, Panicked
  <2>5. ASSUME NEW q \in Proc PROVE Linked(q)'
    <3>1. CASE q = p
      BY <1>1, <2>3, <2>4, <3>1 DEF RInv, IInv, CallTypes, Linked, callVars
    <3>2. CASE q # p
      <4>1. pc'[q] = pc[q] /\ key'[q] = key[q] /\ res'[q] = res[q]
        BY <2>3, <3>2 DEF RInv, IInv, CallTypes
      <4> QED BY <1>1, <2>3, <4>1, OthersLinked DEF BornStays, callVars
    <3> QED BY <3>1, <3>2
  <2>6. ExTypeOK' /\ Origins' /\ \A q \in Proc : Settled(q)'
    BY <1>1, <2>1, <2>3 DEF ExTypeOK, Origins, Settled, callVars
  <2> QED BY <2>2, <2>5, <2>6
<1> QED BY <1>2, <1>3

\* The leader's second critical section, and the closing of evicted statements.
LEMMA CacheWorkLinked ==
  ASSUME ExInv, NEW p \in Proc, CacheWork(p)
  PROVE  Next /\ CallInv'
<1>. USE DEF ExInv, CallInv
<1>1. (Install(p) \/ Evict(p)) /\ UNCHANGED <<callVars, prepared, closing>>
  BY DEF CacheWork
<1>2. Next
  BY <1>1 DEF Next, Work
<1>3. /\ pc[p] \in {"computed", "evicting"} /\ UNCHANGED <<key, born>>
      /\ pc'[p] \in {"evicting", "returned"}
      /\ \A q \in Proc \ {p} : pc'[q] = pc[q] \/ (pc[q] = "waiting" /\ pc'[q] = "returned")
      /\ \A q \in Proc : \E r \in Proc : res'[q] = res[r] \/ res'[q] = Shared(res[r])
  <2>1. CASE Install(p)
    <3>1. /\ pc[p] = "computed" /\ UNCHANGED <<key, born>>
          /\ \E s \in {"evicting", "returned"} :
                pc' = [q \in Proc |-> IF q = p THEN s
                                      ELSE IF q \in Waiters(p) THEN "returned" ELSE pc[q]]
          /\ res' = [q \in Proc |-> IF q \in Waiters(p) THEN Shared(res[p]) ELSE res[q]]
      BY <2>1 DEF Install
    <3> QED BY <3>1 DEF Waiters, RInv, IInv, CallTypes, Status
  <2>2. CASE Evict(p)
    <3>1. /\ pc[p] = "evicting" /\ UNCHANGED <<key, born, res>>
          /\ \E s \in {"evicting", "returned"} : pc' = [pc EXCEPT ![p] = s]
      BY <2>2 DEF Evict
    <3> QED BY <3>1 DEF RInv, IInv, CallTypes, Status
  <2> QED BY <1>1, <2>1, <2>2
<1>4. ASSUME NEW q \in Proc PROVE Linked(q)'
  <2>1. res'[q].st = "err" => res'[q].val \in DriverErr
    <3>1. PICK r \in Proc : res'[q] = res[r] \/ res'[q] = Shared(res[r])
      BY <1>3
    <3> QED BY <3>1 DEF Shared, Ok, Panicked, Linked
  <2>2. /\ phase'[q] = phase[q] /\ text'[q] = text[q] /\ stmt'[q] = stmt[q]
        /\ key'[q] = key[q] /\ born' = born
    BY <1>1, <1>3 DEF callVars
  <2>3. \/ pc[q] \in {"computed", "evicting"} /\ pc'[q] \in {"evicting", "returned"}
        \/ pc'[q] = pc[q]
        \/ pc[q] = "waiting" /\ pc'[q] = "returned"
    BY <1>3
  <2> QED BY <2>1, <2>2, <2>3 DEF Linked
<1>5. ExTypeOK' /\ Origins' /\ \A q \in Proc : Settled(q)'
  BY <1>1, <1>3 DEF ExTypeOK, Origins, Settled, callVars
<1> QED BY <1>2, <1>4, <1>5
-----------------------------------------------------------------------------
(* Steps of a call outside the cache.                                      *)

\* The caller takes what the cache returned.
LEMMA ReturnSteps ==
  ASSUME RInv, NEW p \in Proc, Return(p)
  PROVE  /\ Next /\ UNCHANGED born
         /\ pc'[p] = "idle" /\ key'[p] = None /\ res'[p] = NoResult
         /\ \A q \in Proc \ {p} : pc'[q] = pc[q] /\ key'[q] = key[q] /\ res'[q] = res[q]
BY DEF Return, Next, RInv, IInv, CallTypes

\* What a call that fails, or ends, does to the executor's own variables.
Moves(p, s) ==
    /\ phase' = [phase EXCEPT ![p] = s]
    /\ \/ s # "ended" /\ outcome' = outcome
       \/ s = "ended" /\ \E o \in {"ok", "panic", "closed"} \cup DriverErr :
             outcome' = [outcome EXCEPT ![p] = o]
    /\ attempt' \in [Proc -> 0..(attempts - 1)]

LEMMA EndMoves ==
  ASSUME ExTypeOK, NEW p \in Proc,
         NEW o \in {"ok", "panic", "closed"} \cup DriverErr, End(p, o)
  PROVE  Moves(p, "ended")
BY DEF End, Moves, ExTypeOK

LEMMA AttemptMoves ==
  ASSUME ExTypeOK, NEW p \in Proc, NEW e \in {"closed"} \cup DriverErr, AttemptFails(p, e)
  PROVE  \/ e = "transient" /\ Moves(p, "backoff") /\ UNCHANGED outcome
         \/ Moves(p, "ended") /\ outcome' = [outcome EXCEPT ![p] = e]
<1>1. CASE Retryable(e) /\ MoreAttempts(attempt[p] + 1)
  <2>1. /\ phase' = [phase EXCEPT ![p] = "backoff"] /\ UNCHANGED outcome
        /\ attempt' = [attempt EXCEPT ![p] = @ + 1] /\ e = "transient"
        /\ attempt[p] + 1 < attempts
    BY <1>1 DEF AttemptFails, Retryable, MoreAttempts
  <2>2. attempt' \in [Proc -> 0..(attempts - 1)]
    BY <2>1, AttemptsPositive DEF ExTypeOK
  <2> QED BY <2>1, <2>2 DEF Moves
<1>2. CASE ~(Retryable(e) /\ MoreAttempts(attempt[p] + 1))
  <2>1. End(p, e)
    BY <1>2 DEF AttemptFails
  <2> QED BY <2>1, EndMoves DEF End
<1> QED BY <1>1, <1>2

\* A step of p's call that leaves the others, and every origin, alone.
OwnCall(p) ==
    /\ UNCHANGED <<born, prepared>>
    /\ \A q \in Proc \ {p} :
          /\ pc'[q] = pc[q] /\ key'[q] = key[q] /\ res'[q] = res[q]
          /\ phase'[q] = phase[q] /\ text'[q] = text[q] /\ stmt'[q] = stmt[q]
          /\ mode'[q] = mode[q] /\ applied'[q] = applied[q] /\ outcome'[q] = outcome[q]

LEMMA OwnCallKeeps ==
  ASSUME CallInv, NEW p \in Proc, OwnCall(p), ExTypeOK', Linked(p)', Settled(p)'
  PROVE  CallInv'
<1>1. ASSUME NEW q \in Proc \ {p} PROVE Linked(q)' /\ Settled(q)'
  <2>1. Linked(q) /\ Settled(q)
    BY DEF CallInv
  <2>2. Linked(q)'
    BY <2>1, OthersLinked DEF OwnCall, BornStays
  <2> QED BY <2>1, <2>2 DEF OwnCall, Settled
<1>2. Origins'
  BY DEF CallInv, OwnCall, Origins
<1> QED BY <1>1, <1>2 DEF CallInv

\* The cache gave p its statement, or the leader's error.
LEMMA PreparedLinked ==
  ASSUME ExInv, NEW p \in Proc, Prepared(p)
  PROVE  Next /\ CallInv'
<1>. DEFINE r == res[p]
<1>1. /\ phase[p] = "prepare" /\ pc[p] = "returned" /\ Return(p)
      /\ UNCHANGED <<mode, text, ctxDone, applied, prepared, closing>>
  BY DEF Prepared
<1>2. /\ Next /\ UNCHANGED born
      /\ pc'[p] = "idle" /\ key'[p] = None /\ res'[p] = NoResult
      /\ \A q \in Proc \ {p} : pc'[q] = pc[q] /\ key'[q] = key[q] /\ res'[q] = res[q]
  BY <1>1, ReturnSteps DEF ExInv
<1>3. /\ ExTypeOK /\ Linked(p) /\ Settled(p) /\ CallInv /\ CallTrue(p)
      /\ text[p] \in Key /\ key[p] = text[p] /\ applied[p] = 0 /\ outcome[p] = "none"
  BY <1>1 DEF ExInv, CallInv, RInv, CallsTrue, Linked, Settled
<1>4. \/ /\ stmt' = [stmt EXCEPT ![p] = r.val] /\ Moves(p, "use")
         /\ r.val \in Val /\ born[r.val] = text[p]
      \/ /\ \E s \in {"backoff", "ended"} : Moves(p, s)
         /\ UNCHANGED stmt /\ outcome'[p] # "ok"
  <2>1. CASE /\ r.st = "ok" /\ r.val # None /\ stmt' = [stmt EXCEPT ![p] = r.val]
             /\ phase' = [phase EXCEPT ![p] = "use"] /\ UNCHANGED <<attempt, outcome>>
    BY <1>1, <1>3, <2>1 DEF CallTrue, Moves, ExTypeOK
  <2>2. CASE r.st = "err" /\ AttemptFails(p, r.val) /\ UNCHANGED stmt
    <3>1. r.val \in DriverErr
      BY <1>3, <2>2 DEF Linked
    <3>2. \/ Moves(p, "backoff") /\ UNCHANGED outcome
          \/ Moves(p, "ended") /\ outcome' = [outcome EXCEPT ![p] = r.val]
      BY <1>3, <2>2, <3>1, AttemptMoves
    <3>3. outcome'[p] # "ok"
      BY <1>3, <3>1, <3>2 DEF ExTypeOK, DriverErr
    <3> QED BY <2>2, <3>2, <3>3
  <2>3. CASE (r.st = "panic" \/ r = Ok(None)) /\ End(p, "panic") /\ UNCHANGED stmt
    BY <1>3, <2>3, EndMoves DEF End, ExTypeOK
  <2> QED BY <2>1, <2>2, <2>3 DEF Prepared
<1>5. ExTypeOK'
  BY <1>1, <1>3, <1>4 DEF ExTypeOK, Moves
<1>6. OwnCall(p)
  BY <1>1, <1>2, <1>3, <1>4 DEF OwnCall, ExTypeOK, Moves
<1>7. Linked(p)' /\ Settled(p)'
  <2>1. /\ text'[p] = text[p] /\ applied'[p] = 0 /\ mode'[p] = mode[p]
        /\ pc'[p] = "idle" /\ res'[p].st # "err" /\ UNCHANGED born
    BY <1>1, <1>2, <1>3 DEF NoResult
  <2>2. \/ phase'[p] = "use" /\ outcome'[p] = "none" /\ stmt'[p] \in Val
           /\ born[stmt'[p]] = text[p]
        \/ phase'[p] = "backoff" /\ outcome'[p] = "none"
        \/ phase'[p] = "ended" /\ outcome'[p] # "ok"
    BY <1>3, <1>4 DEF Moves, ExTypeOK
  <2> QED BY <1>3, <2>1, <2>2 DEF Linked, Settled
<1> QED BY <1>2, <1>3, <1>5, <1>6, <1>7, OwnCallKeeps

\* The statement is used: only an attempt the server did nothing for is repeated.
LEMMA UseLinked ==
  ASSUME ExInv, NEW p \in Proc, UseStmt(p)
  PROVE  UNCHANGED vars /\ CallInv'
<1>1. /\ phase[p] = "use" /\ stmt' = [stmt EXCEPT ![p] = None]
      /\ UNCHANGED <<vars, mode, text, ctxDone, prepared, closing>>
  BY DEF UseStmt
<1>2. /\ ExTypeOK /\ Linked(p) /\ Settled(p) /\ CallInv
      /\ text[p] \in Key /\ applied[p] = 0 /\ outcome[p] = "none" /\ pc[p] = "idle"
  BY <1>1 DEF ExInv, CallInv, Linked, Settled
<1>a. PICK o \in {"ok", "closed"} \cup DriverErr :
         /\ \E n \in Effects(p, o) : applied' = [applied EXCEPT ![p] = @ + n]
         /\ IF o = "ok" THEN End(p, "ok") ELSE AttemptFails(p, o)
  BY DEF UseStmt
<1>3. PICK n \in Effects(p, o) :
         /\ applied' = [applied EXCEPT ![p] = @ + n]
         /\ IF o = "ok" THEN End(p, "ok") ELSE AttemptFails(p, o)
  BY <1>a
<1>4. n \in {0, 1} /\ (o = "transient" => n = 0) /\ (mode[p] = "exec" /\ o = "ok" => n = 1)
  BY <1>3 DEF Effects
<1>5. \/ o = "transient" /\ Moves(p, "backoff") /\ UNCHANGED outcome
      \/ Moves(p, "ended") /\ outcome' = [outcome EXCEPT ![p] = o]
  <2>1. CASE o = "ok"
    BY <1>2, <1>3, <2>1, EndMoves DEF End
  <2>2. CASE o # "ok"
    BY <1>2, <1>3, <2>2, AttemptMoves
  <2> QED BY <2>1, <2>2
<1>6. applied' \in [Proc -> Nat] /\ applied'[p] = n
  BY <1>2, <1>3, <1>4 DEF ExTypeOK
<1>7. ExTypeOK'
  BY <1>1, <1>2, <1>5, <1>6 DEF ExTypeOK, Moves
<1>8. OwnCall(p)
  BY <1>1, <1>2, <1>3, <1>5 DEF OwnCall, ExTypeOK, Moves, vars
<1>9. Linked(p)' /\ Settled(p)'
  <2>1. /\ text'[p] = text[p] /\ mode'[p] = mode[p] /\ UNCHANGED <<pc, key, res, born>>
    BY <1>1 DEF vars
  <2>2. \/ phase'[p] = "backoff" /\ outcome'[p] = "none" /\ applied'[p] = 0
        \/ phase'[p] = "ended" /\ outcome'[p] = o
    BY <1>2, <1>4, <1>5, <1>6 DEF Moves, ExTypeOK
  <2> QED BY <1>2, <1>4, <1>6, <2>1, <2>2 DEF Linked, Settled
<1> QED BY <1>1, <1>2, <1>7, <1>8, <1>9, OwnCallKeeps

\* The wait before another attempt.
LEMMA BackoffLinked ==
  ASSUME ExInv, NEW p \in Proc, Backoff(p)
  PROVE  UNCHANGED vars /\ CallInv'
<1>1. /\ phase[p] = "backoff"
      /\ UNCHANGED <<vars, mode, text, ctxDone, stmt, applied, prepared, closing>>
  BY DEF Backoff
<1>2. /\ ExTypeOK /\ Linked(p) /\ Settled(p) /\ CallInv
      /\ text[p] \in Key /\ applied[p] = 0 /\ outcome[p] = "none" /\ pc[p] = "idle"
  BY <1>1 DEF ExInv, CallInv, Linked, Settled
<1>3. \/ Moves(p, "ended") /\ outcome' = [outcome EXCEPT ![p] = "ctx"]
      \/ Moves(p, "prepare") /\ UNCHANGED outcome
  <2>1. CASE End(p, "ctx")
    BY <1>2, <2>1, EndMoves DEF End, DriverErr
  <2>2. CASE /\ phase' = [phase EXCEPT ![p] = "prepare"]
             /\ UNCHANGED <<attempt, outcome>>
    BY <1>2, <2>2 DEF Moves, ExTypeOK
  <2> QED BY <2>1, <2>2 DEF Backoff
<1>4. ExTypeOK'
  BY <1>1, <1>2, <1>3 DEF ExTypeOK, Moves
<1>5. OwnCall(p)
  BY <1>1, <1>2, <1>3 DEF OwnCall, ExTypeOK, Moves, vars
<1>6. Linked(p)' /\ Settled(p)'
  <2>1. UNCHANGED <<text, mode, applied, pc, key, res, born>>
    BY <1>1 DEF vars
  <2>2. \/ phase'[p] = "prepare" /\ outcome'[p] = "none"
        \/ phase'[p] = "ended" /\ outcome'[p] = "ctx"
    BY <1>2, <1>3 DEF Moves, ExTypeOK
  <2> QED BY <1>2, <2>1, <2>2 DEF Linked, Settled
<1> QED BY <1>1, <1>2, <1>4, <1>5, <1>6, OwnCallKeeps

\* A call starts, its context ends, and its result is taken.
LEMMA StartLinked ==
  ASSUME ExInv, NEW p \in Proc, NEW k \in Key, NEW m \in {"query", "exec"}, Start(p, k, m)
  PROVE  UNCHANGED vars /\ CallInv'
<1>1. /\ phase[p] = "idle" /\ phase' = [phase EXCEPT ![p] = "prepare"]
      /\ mode' = [mode EXCEPT ![p] = m] /\ text' = [text EXCEPT ![p] = k]
      /\ UNCHANGED <<vars, ctxDone, attempt, stmt, applied, outcome, prepared, closing>>
  BY DEF Start
<1>2. ExTypeOK /\ Linked(p) /\ Settled(p) /\ CallInv
  BY DEF ExInv, CallInv
<1>3. ExTypeOK'
  BY <1>1, <1>2 DEF ExTypeOK
<1>4. OwnCall(p)
  BY <1>1, <1>2 DEF OwnCall, ExTypeOK, vars
<1>5. Linked(p)' /\ Settled(p)'
  BY <1>1, <1>2 DEF Linked, Settled, ExTypeOK, vars
<1> QED BY <1>1, <1>2, <1>3, <1>4, <1>5, OwnCallKeeps

LEMMA ExpireLinked ==
  ASSUME ExInv, NEW p \in Proc, Expire(p)
  PROVE  UNCHANGED vars /\ CallInv'
<1>1. /\ ctxDone' = [ctxDone EXCEPT ![p] = TRUE]
      /\ UNCHANGED <<vars, phase, mode, text, attempt, stmt, applied, outcome, prepared, closing>>
  BY DEF Expire
<1>2. ExTypeOK'
  BY <1>1 DEF ExTypeOK, ExInv, CallInv
<1> QED BY <1>1, <1>2 DEF ExInv, CallInv, Linked, Settled, Origins, vars

LEMMA TakeLinked ==
  ASSUME ExInv, NEW p \in Proc, Take(p)
  PROVE  UNCHANGED vars /\ CallInv'
<1>1. /\ phase[p] = "ended" /\ phase' = [phase EXCEPT ![p] = "idle"]
      /\ mode' = [mode EXCEPT ![p] = "none"] /\ text' = [text EXCEPT ![p] = None]
      /\ ctxDone' = [ctxDone EXCEPT ![p] = FALSE]
      /\ attempt' = [attempt EXCEPT ![p] = 0] /\ applied' = [applied EXCEPT ![p] = 0]
      /\ outcome' = [outcome EXCEPT ![p] = "none"]
      /\ UNCHANGED <<vars, stmt, prepared, closing>>
  BY DEF Take
<1>2. ExTypeOK /\ Linked(p) /\ Settled(p) /\ CallInv
  BY DEF ExInv, CallInv
<1>3. ExTypeOK'
  BY <1>1, <1>2, AttemptsPositive DEF ExTypeOK
<1>4. OwnCall(p)
  BY <1>1, <1>2 DEF OwnCall, ExTypeOK, vars
<1>5. Linked(p)' /\ Settled(p)'
  BY <1>1, <1>2 DEF Linked, Settled, ExTypeOK, vars
<1> QED BY <1>1, <1>2, <1>3, <1>4, <1>5, OwnCallKeeps

\* Close purges the cache and returns.
LEMMA CloseLinked ==
  ASSUME ExInv, NEW p \in Proc, Close(p)
  PROVE  Next /\ CallInv'
<1>1. /\ phase[p] = "idle" /\ phase' = [phase EXCEPT ![p] = "closing"] /\ closing' = TRUE
      /\ Purge(p)
      /\ UNCHANGED <<mode, text, ctxDone, attempt, stmt, applied, outcome, prepared>>
  BY DEF Close
<1>2. ExTypeOK /\ Linked(p) /\ Settled(p) /\ CallInv
  BY DEF ExInv, CallInv
<1>3. Next
  BY <1>1 DEF Next, Call
<1>4. /\ UNCHANGED <<born, key>> /\ res' = [res EXCEPT ![p] = NoResult]
      /\ \E s \in {"evicting", "returned"} : pc' = [pc EXCEPT ![p] = s]
  BY <1>1 DEF Purge, FinishEvicting, history
<1>5. ExTypeOK'
  BY <1>1, <1>2 DEF ExTypeOK
<1>6. OwnCall(p)
  BY <1>1, <1>2, <1>4 DEF OwnCall, ExTypeOK, ExInv, RInv, IInv, CallTypes
<1>7. pc'[p] \in {"evicting", "returned"} /\ res'[p] = NoResult
  BY <1>4 DEF ExInv, RInv, IInv, CallTypes
<1>8. Linked(p)' /\ Settled(p)'
  BY <1>1, <1>2, <1>4, <1>7 DEF Linked, Settled, ExTypeOK, NoResult
<1> QED BY <1>2, <1>3, <1>5, <1>6, <1>8, OwnCallKeeps

LEMMA CloseReturnsLinked ==
  ASSUME ExInv, NEW p \in Proc, CloseReturns(p)
  PROVE  Next /\ CallInv'
<1>1. /\ phase[p] = "closing" /\ phase' = [phase EXCEPT ![p] = "idle"] /\ Return(p)
      /\ UNCHANGED <<mode, text, ctxDone, attempt, stmt, applied, outcome, prepared, closing>>
  BY DEF CloseReturns
<1>2. ExTypeOK /\ Linked(p) /\ Settled(p) /\ CallInv
  BY DEF ExInv, CallInv
<1>3. /\ Next /\ UNCHANGED born
      /\ pc'[p] = "idle" /\ key'[p] = None /\ res'[p] = NoResult
      /\ \A q \in Proc \ {p} : pc'[q] = pc[q] /\ key'[q] = key[q] /\ res'[q] = res[q]
  BY <1>1, ReturnSteps DEF ExInv
<1>4. ExTypeOK'
  BY <1>1, <1>2 DEF ExTypeOK
<1>5. OwnCall(p)
  BY <1>1, <1>2, <1>3 DEF OwnCall, ExTypeOK
<1>6. Linked(p)' /\ Settled(p)'
  BY <1>1, <1>2, <1>3 DEF Linked, Settled, ExTypeOK, NoResult
<1> QED BY <1>2, <1>3, <1>4, <1>5, <1>6, OwnCallKeeps
-----------------------------------------------------------------------------
(* The invariant and what follows from it.                                 *)

LEMMA ExInitInv == ExInit => ExInv
<1>. SUFFICES ASSUME ExInit PROVE ExInv
  OBVIOUS
<1>1. RInv
  BY InitR DEF ExInit
<1>2. /\ pc = [p \in Proc |-> "idle"] /\ res = [p \in Proc |-> NoResult]
      /\ born = [v \in Val |-> None]
  BY DEF ExInit, Init
<1>3. ExTypeOK
  <2>1. 0 \in 0..(attempts - 1)
    BY AttemptsPositive
  <2>2. attempt \in [Proc -> 0..(attempts - 1)] /\ applied \in [Proc -> Nat]
    BY <2>1 DEF ExInit
  <2>3. outcome \in [Proc -> {"none", "ok", "panic", "closed"} \cup DriverErr]
    BY DEF ExInit
  <2> QED BY <2>2, <2>3 DEF ExInit, ExTypeOK
<1>4. \A p \in Proc : Linked(p) /\ Settled(p)
  BY <1>2 DEF ExInit, Linked, Settled, NoResult
<1>5. Origins
  BY <1>2 DEF ExInit, Origins
<1> QED BY <1>1, <1>3, <1>4, <1>5 DEF ExInv, CallInv

\* Each step of the executor is a step of the cache, or leaves the cache alone.
LEMMA ExStep == ExInv /\ [ExNext]_exVars => [Next]_vars /\ CallInv'
<1>. SUFFICES ASSUME ExInv, [ExNext]_exVars PROVE [Next]_vars /\ CallInv'
  OBVIOUS
<1>1. ASSUME NEW p \in Proc, CallStep(p) PROVE [Next]_vars /\ CallInv'
  BY <1>1, PrepareLinked, PrepareContextLinked, CacheWorkLinked, PreparedLinked, UseLinked,
     BackoffLinked, CloseReturnsLinked DEF CallStep
<1>2. ASSUME NEW p \in Proc, NEW k \in Key, NEW m \in {"query", "exec"}, Start(p, k, m)
      PROVE  [Next]_vars /\ CallInv'
  BY <1>2, StartLinked
<1>3. ASSUME NEW p \in Proc, Expire(p) \/ Take(p) \/ Close(p) PROVE [Next]_vars /\ CallInv'
  BY <1>3, ExpireLinked, TakeLinked, CloseLinked
<1>4. CASE UNCHANGED exVars
  BY <1>4 DEF exVars, callVars, vars, ExInv, CallInv, ExTypeOK, Linked, Settled, Origins
<1> QED BY <1>1, <1>2, <1>3, <1>4 DEF ExNext

LEMMA ExNextInv == ExInv /\ [ExNext]_exVars => ExInv'
BY ExStep, NextR DEF ExInv

\* The executor uses the cache as the cache's specification allows, and its calls,
\* the cache's and the statements' origins agree in every reachable state.
THEOREM CallsAgree == ExSpec => []ExInv
BY ExInitInv, ExNextInv, PTL DEF ExSpec

\* The executor's variables always have their types: attempts never exceed the
\* policy's (executor.go, withRetryGeneric).
THEOREM ExTypesCorrect == ExSpec => []ExTypeOK
<1>1. ExInv => ExTypeOK
  BY DEF ExInv, CallInv
<1> QED BY <1>1, CallsAgree, PTL

\* Retrying a transient error never applies an Exec twice, and a reported success
\* is one application.
THEOREM AppliedOnceCorrect == ExSpec => []AppliedOnce
<1>1. ExInv => AppliedOnce
  BY DEF ExInv, CallInv, Settled, AppliedOnce
<1> QED BY <1>1, CallsAgree, PTL

\* The statement a call executes was prepared from its own SQL text, whoever led
\* the flight (executor.go:83).
THEOREM RightStatementCorrect == ExSpec => []RightStatement
<1>1. ExInv => RightStatement
  BY DEF ExInv, CallInv, Linked, Origins, RightStatement
<1> QED BY <1>1, CallsAgree, PTL
-----------------------------------------------------------------------------
(* The statements on the server.                                           *)

Busy == {p \in Proc : pc[p] # "idle"}

\* The executor never overwrites a statement: whoever leads a flight finds its key
\* still absent.  Of the goroutines only finitely many are at work, and before Close
\* each has at most one evicted statement to close.
Roomy ==
    /\ dropped = {}
    /\ \A p \in Proc : Leading(p) => items[key[p]] = None
    /\ IsFiniteSet(Busy)
    /\ closing \/ \A p \in Proc : \A v, w \in todo[p] : v = w

\* A push evicts one element at the most: the last of a full list.
LEMMA OneVictim ==
  ASSUME CacheInv, NEW v \in Val
  PROVE  \A e, f \in Victims(v) : e = f
<1>. DEFINE c == Cons(v, ll)
            t == Kept(c)
<1>1. ll \in Seq(Val) /\ Len(ll) <= capacity /\ capacity \in Nat /\ capacity >= 1
  BY CapacityPositive DEF CacheInv, CacheTypes, Bounded
<1>2. CASE Len(ll) < capacity
  BY <1>1, <1>2, PushLength
<1>3. CASE Len(ll) = capacity
  <2>1. /\ c \in Seq(Val) /\ Len(c) = capacity + 1
        /\ \A j \in 1..Len(c) : c[j] = IF j = 1 THEN v ELSE ll[j - 1]
    BY <1>1, <1>3 DEF Cons
  <2>2. Len(t) = capacity /\ \A j \in 1..Len(t) : t[j] = IF j = 1 THEN v ELSE ll[j - 1]
    BY <1>1, <1>3, PushLength
  <2>3. t \in Seq(Val)
    BY <1>1, <2>1 DEF Kept
  <2>. HIDE DEF c, t
  <2>4. \A e \in ToSet(c) \ ToSet(t) : e = c[capacity + 1]
    <3>1. SUFFICES ASSUME NEW e \in ToSet(c) \ ToSet(t) PROVE e = c[capacity + 1]
      OBVIOUS
    <3>2. PICK i \in 1..Len(c) : c[i] = e
      BY <2>1, InToSet
    <3>3. CASE i \in 1..capacity
      <4>1. t[i] = e /\ i \in 1..Len(t)
        BY <1>1, <2>1, <2>2, <3>2, <3>3
      <4> QED BY <2>3, <4>1, InToSet
    <3> QED BY <1>1, <2>1, <3>2, <3>3
  <2> QED BY <2>4 DEF Victims, Overflow, c, t
<1> QED BY <1>1, <1>2, <1>3

LEMMA BusyFinite ==
  ASSUME IsFiniteSet(Busy), NEW p \in Proc,
         \A q \in Proc \ {p} : pc[q] = "idle" => pc'[q] = "idle"
  PROVE  IsFiniteSet(Busy')
<1>1. Busy' \in SUBSET (Busy \cup {p})
  BY DEF Busy
<1> QED BY <1>1, FS_AddElement, FS_Subset

\* A step of p outside the second critical section and outside Close.
LEMMA QuietRoomy ==
  ASSUME ExInv, Roomy, NEW p \in Proc, UNCHANGED <<items, dropped, closing>>,
         \A q \in Proc \ {p} : pc'[q] = pc[q] /\ key'[q] = key[q] /\ todo'[q] = todo[q],
         todo'[p] \subseteq todo[p],
         Leading(p)' => items[key'[p]] = None
  PROVE  Roomy'
<1>1. IsFiniteSet(Busy)'
  BY BusyFinite DEF Roomy
<1> QED BY <1>1 DEF Roomy, Leading

LEMMA InstallRoomy ==
  ASSUME ExInv, Roomy, NEW p \in Proc, Install(p), UNCHANGED closing
  PROVE  Roomy'
<1>. DEFINE k == key[p]
            v == res[p].val
            s == IF todo'[p] = {} THEN "returned" ELSE "evicting"
<1>1. /\ pc[p] = "computed" /\ UNCHANGED key
      /\ pc' = [q \in Proc |-> IF q = p THEN s
                               ELSE IF q \in Waiters(p) THEN "returned" ELSE pc[q]]
  BY DEF Install, ExInv, RInv, IInv, CallTypes
<1>2. k \in Key /\ items[k] = None
  BY <1>1 DEF ExInv, RInv, IInv, CallArgs, Roomy, Leading
<1>3. \A q \in Proc : Leading(q)' => q # p /\ Leading(q)
  BY <1>1 DEF Leading
<1>4. dropped' = dropped /\ \A j \in Key : j # k => items'[j] \in {items[j], None}
  BY <1>2 DEF Install, SetLocked, Insert, Mapped, ExInv, RInv, IInv, CacheInv, CacheTypes
<1>5. \A q \in Proc : Leading(q)' => items'[key'[q]] = None
  <2>1. SUFFICES ASSUME NEW q \in Proc, Leading(q)' PROVE items'[key[q]] = None
    BY <1>1
  <2>2. q # p /\ Leading(q) /\ Leading(p) /\ items[key[q]] = None
    BY <1>1, <1>3, <2>1 DEF Roomy, Leading
  <2>3. key[q] \in Key
    BY <2>2 DEF ExInv, RInv, IInv, CallArgs, Leading
  <2>4. inflight[key[q]] = q /\ inflight[k] = p
    BY <1>2, <2>2, <2>3 DEF ExInv, RInv, IInv, SingleFlight
  <2>5. key[q] # k
    BY <2>2, <2>4
  <2> QED BY <1>4, <2>2, <2>3, <2>5
<1>6. IsFiniteSet(Busy)'
  <2>1. \A q \in Proc \ {p} : pc[q] = "idle" => pc'[q] = "idle"
    BY <1>1 DEF Waiters
  <2> QED BY <2>1, BusyFinite DEF Roomy
<1>7. \A q \in Proc : \A x, y \in todo'[q] : closing \/ x = y
  <2>1. \/ todo' = [todo EXCEPT ![p] = {}]
        \/ v \in Val /\ todo' = [todo EXCEPT ![p] = {ent[e].val : e \in Victims(v)}]
    <3>1. CASE Installs(res[p])
      <4>1. v \in Val
        BY <1>1, <3>1 DEF Installs, ExInv, RInv, IInv, CallArgs
      <4> QED BY <1>2, <3>1, <4>1 DEF Install, Evicted
    <3>2. CASE ~Installs(res[p])
      BY <3>2 DEF Install
    <3> QED BY <3>1, <3>2
  <2>2. todo \in [Proc -> SUBSET Val] /\ CacheInv
    BY DEF ExInv, RInv, IInv, CallTypes
  <2>3. CASE todo' = [todo EXCEPT ![p] = {}]
    BY <2>2, <2>3 DEF Roomy
  <2>4. CASE v \in Val /\ todo' = [todo EXCEPT ![p] = {ent[e].val : e \in Victims(v)}]
    <3>1. \A e, f \in Victims(v) : e = f
      BY <2>2, <2>4, OneVictim
    <3> QED BY <2>2, <2>4, <3>1 DEF Roomy
  <2> QED BY <2>1, <2>3, <2>4
<1> QED BY <1>4, <1>5, <1>6, <1>7 DEF Roomy

LEMMA RoomyStep == ExInv /\ Roomy /\ [ExNext]_exVars => Roomy'
<1>. SUFFICES ASSUME ExInv, Roomy, [ExNext]_exVars PROVE Roomy'
  OBVIOUS
<1>1. ASSUME UNCHANGED <<vars, closing>> PROVE Roomy'
  BY <1>1 DEF Roomy, Leading, Busy, vars
<1>2. ASSUME NEW p \in Proc, Prepare(p) PROVE Roomy'
  <2>1. /\ UNCHANGED <<closing, items, dropped, todo>>
        /\ key' = [key EXCEPT ![p] = text[p]]
        /\ \/ pc' = [pc EXCEPT ![p] = "returned"]
           \/ pc' = [pc EXCEPT ![p] = "waiting"]
           \/ pc' = [pc EXCEPT ![p] = "computing"] /\ items[text[p]] = None
    BY <1>2 DEF Prepare, StmtKey, GetOrCompute, Begin, HitTouch, Join, Lead, Finish, history
  <2>2. /\ \A q \in Proc \ {p} : pc'[q] = pc[q] /\ key'[q] = key[q] /\ todo'[q] = todo[q]
        /\ Leading(p)' => items[key'[p]] = None
    BY <2>1 DEF Leading, ExInv, RInv, IInv, CallTypes
  <2> QED BY <2>1, <2>2, QuietRoomy
<1>3. ASSUME NEW p \in Proc, PrepareContext(p) PROVE Roomy'
  <2>1. /\ UNCHANGED <<closing, items, dropped, todo, key>>
        /\ pc[p] = "computing" /\ pc' = [pc EXCEPT ![p] = "computed"]
    BY <1>3 DEF PrepareContext, ComputeOk, ComputeFails, history
  <2>2. /\ \A q \in Proc \ {p} : pc'[q] = pc[q]
        /\ items[key[p]] = None
    BY <2>1 DEF Leading, Roomy, ExInv, RInv, IInv, CallTypes
  <2> QED BY <2>1, <2>2, QuietRoomy
<1>4. ASSUME NEW p \in Proc, CacheWork(p) PROVE Roomy'
  <2>1. CASE Install(p)
    BY <1>4, <2>1, InstallRoomy DEF CacheWork
  <2>2. CASE Evict(p)
    <3>1. /\ UNCHANGED <<closing, items, dropped, key>>
          /\ \E v : todo' = [todo EXCEPT ![p] = @ \ {v}]
          /\ \E s \in {"returned", "evicting"} : pc' = [pc EXCEPT ![p] = s]
      BY <1>4, <2>2 DEF CacheWork, Evict
    <3>2. /\ \A q \in Proc \ {p} : pc'[q] = pc[q] /\ todo'[q] = todo[q]
          /\ todo'[p] \subseteq todo[p] /\ ~Leading(p)'
      BY <3>1 DEF Leading, ExInv, RInv, IInv, CallTypes
    <3> QED BY <3>1, <3>2, QuietRoomy
  <2> QED BY <1>4, <2>1, <2>2 DEF CacheWork
<1>5. ASSUME NEW p \in Proc, Return(p), UNCHANGED closing PROVE Roomy'
  <2>1. /\ UNCHANGED <<closing, items, dropped, todo>>
        /\ pc' = [pc EXCEPT ![p] = "idle"] /\ key' = [key EXCEPT ![p] = None]
    BY <1>5 DEF Return
  <2>2. /\ \A q \in Proc \ {p} : pc'[q] = pc[q] /\ key'[q] = key[q]
        /\ ~Leading(p)'
    BY <2>1 DEF Leading, ExInv, RInv, IInv, CallTypes
  <2> QED BY <2>1, <2>2, QuietRoomy
<1>6. ASSUME NEW p \in Proc, Close(p) PROVE Roomy'
  <2>1. /\ closing' /\ UNCHANGED <<dropped, key>> /\ items' = [k \in Key |-> None]
        /\ \E s \in {"returned", "evicting"} : pc' = [pc EXCEPT ![p] = s]
    BY <1>6 DEF Close, Purge, FinishEvicting, history
  <2>2. \A q \in Proc \ {p} : pc'[q] = pc[q]
    BY <2>1 DEF ExInv, RInv, IInv, CallTypes
  <2>3. IsFiniteSet(Busy)'
    BY <2>2, BusyFinite DEF Roomy
  <2>4. \A q \in Proc : Leading(q)' => q # p /\ Leading(q) /\ key'[q] \in Key
    BY <2>1, <2>2 DEF Leading, ExInv, RInv, IInv, CallTypes, CallArgs
  <2> QED BY <2>1, <2>3, <2>4 DEF Roomy
<1>7. ASSUME NEW p \in Proc, CallStep(p) PROVE Roomy'
  <2>1. CASE Prepared(p) \/ CloseReturns(p)
    BY <2>1, <1>5 DEF Prepared, CloseReturns
  <2>2. CASE UseStmt(p) \/ Backoff(p)
    BY <2>2, <1>1 DEF UseStmt, Backoff
  <2> QED BY <1>2, <1>3, <1>4, <1>7, <2>1, <2>2 DEF CallStep
<1>8. ASSUME NEW p \in Proc, (\E k \in Key, m \in {"query", "exec"} : Start(p, k, m))
                             \/ Expire(p) \/ Take(p)
      PROVE  Roomy'
  BY <1>1, <1>8 DEF Start, Expire, Take
<1>9. CASE UNCHANGED exVars
  BY <1>1, <1>9 DEF exVars
<1> QED BY <1>6, <1>7, <1>8, <1>9 DEF ExNext

LEMMA RoomyInit == ExInit => Roomy
<1>. SUFFICES ASSUME ExInit PROVE Roomy
  OBVIOUS
<1>1. /\ pc = [p \in Proc |-> "idle"] /\ todo = [p \in Proc |-> {}] /\ dropped = {}
  BY DEF ExInit, Init
<1>2. Busy = {}
  BY <1>1 DEF Busy
<1> QED BY <1>1, <1>2, FS_EmptySet DEF Roomy, Leading

\* No statement is dropped, every leader of a flight finds its key absent, and until
\* Close a goroutine has at most one statement to close: what is open at the server is
\* what the cache and the calls under way account for (executor.go:189).
THEOREM ServerBooks == ExSpec => [](ExInv /\ Roomy)
<1>1. ExInit => ExInv /\ Roomy
  BY ExInitInv, RoomyInit
<1>2. ExInv /\ Roomy /\ [ExNext]_exVars => (ExInv /\ Roomy)'
  BY ExNextInv, RoomyStep
<1> QED BY <1>1, <1>2, PTL DEF ExSpec

\* A statement that is open on the server is cached, or in the hands of a goroutine
\* that has just prepared it or is about to close it.
LEMMA OpenPlaces ==
  ASSUME ExInv, Roomy
  PROVE  Open = CachedVals \cup HeldVals \cup PendingVals
<1>1. PlaceTypes /\ Accounted /\ Gone = released \cup PendingVals
  BY HavePlaceTypes DEF ExInv, RInv, Gone, Roomy
<1>2. CachedVals \subseteq Val /\ HeldVals \subseteq Val /\ PendingVals \subseteq Val
  BY <1>1 DEF PlaceTypes, HeldVals, PendingVals
<1>3. /\ released \cap (CachedVals \cup HeldVals \cup PendingVals) = {}
      /\ \A v \in Val : born[v] # None <=> v \in released \cup PendingVals \cup CachedVals \cup HeldVals
  BY <1>1 DEF Accounted
<1> QED BY <1>2, <1>3 DEF Open, Closed

\* When no call is under way, every open statement can be found through the cache.
THEOREM NoOrphanCorrect == ExSpec => []NoOrphanStatement
<1>1. ExInv /\ Roomy => NoOrphanStatement
  <2>1. SUFFICES ASSUME ExInv, Roomy, \A p \in Proc : phase[p] \in {"idle", "ended"}
                 PROVE  Open \subseteq CachedVals
    BY DEF NoOrphanStatement
  <2>2. \A p \in Proc : pc[p] = "idle"
    BY <2>1 DEF ExInv, CallInv, Linked
  <2>3. HeldVals = {} /\ PendingVals = {}
    BY <2>1, <2>2 DEF HeldVals, Holds, PendingVals, ExInv, RInv, CallsTrue, CallTrue
  <2> QED BY <2>1, <2>3, OpenPlaces
<1> QED BY <1>1, ServerBooks, PTL

\* Before Close, the open statements are at most a full cache's and one for each
\* goroutine that has just prepared one or is about to close one.
THEOREM OpenBoundedCorrect == ExSpec => []OpenBounded
<1>. DEFINE Hands == {p \in Proc : pc[p] \in {"computed", "evicting"}}
            InHand == HeldVals \cup PendingVals
            f == [v \in InHand |-> CHOOSE p \in Hands : Holds(p, v) \/ v \in todo[p]]
<1>1. ExInv /\ Roomy => OpenBounded
  <2>1. SUFFICES ASSUME ExInv, Roomy, ~closing
                 PROVE  Cardinality(Open) <= capacity + Cardinality(Hands)
    BY DEF OpenBounded
  <2>2. \A p \in Proc : todo[p] # {} <=> pc[p] = "evicting"
    BY <2>1 DEF ExInv, RInv, CallsTrue, CallTrue
  <2>3. \A v \in InHand : f[v] \in Hands /\ (Holds(f[v], v) \/ v \in todo[f[v]])
    <3>1. \A v \in InHand : \E p \in Hands : Holds(p, v) \/ v \in todo[p]
      BY <2>2 DEF HeldVals, PendingVals, Holds
    <3> QED BY <3>1
  <2>4. ASSUME NEW v \in InHand, NEW w \in InHand, f[v] = f[w] PROVE v = w
    <3>1. PICK p \in Hands : p = f[v] /\ p = f[w]
      BY <2>3, <2>4
    <3>2. (Holds(p, v) \/ v \in todo[p]) /\ (Holds(p, w) \/ w \in todo[p])
      BY <2>3, <3>1
    <3> QED BY <2>1, <2>2, <3>2 DEF Holds, Roomy
  <2>5. IsFiniteSet(Hands)
    <3>1. Hands \in SUBSET Busy
      BY DEF Busy
    <3> QED BY <2>1, <3>1, FS_Subset DEF Roomy
  <2>. f \in [InHand -> Hands]
    BY <2>3
  <2>6. f \in Injection(InHand, Hands)
    BY <2>4 DEF Injection, IsInjective
  <2>. HIDE DEF f
  <2>7. IsFiniteSet(InHand) /\ Cardinality(InHand) <= Cardinality(Hands)
    BY <2>5, <2>6, FS_Injection
  <2>8. IsFiniteSet(CachedVals) /\ Cardinality(CachedVals) <= capacity
    BY <2>1, CachedCount DEF ExInv, RInv, IInv, CacheInv, Bounded
  <2>9. Open = CachedVals \cup InHand
    BY <2>1, OpenPlaces
  <2>10. Cardinality(Open) = Cardinality(CachedVals) + Cardinality(InHand)
                             - Cardinality(CachedVals \cap InHand)
    BY <2>7, <2>8, <2>9, FS_Union
  <2>11. /\ Cardinality(CachedVals) \in Nat /\ Cardinality(InHand) \in Nat
         /\ Cardinality(CachedVals \cap InHand) \in Nat /\ Cardinality(Hands) \in Nat
    BY <2>5, <2>7, <2>8, FS_Subset, FS_CardinalityType
  <2> QED BY <2>7, <2>8, <2>10, <2>11, CapacityPositive
<1> QED BY <1>1, ServerBooks, PTL
=============================================================================
