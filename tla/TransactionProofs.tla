------------------------- MODULE TransactionProofs -------------------------
(***************************************************************************)
(* Theorems about Transaction for every number of attempts, whatever       *)
(* errors the policy of each Run accepts, and any number of nested Runs.   *)
(***************************************************************************)
EXTENDS Transaction, TLAPS

\* A Tx exists while fn runs or is being ended, and only then.
Stages ==
    /\ stage \in {"fn", "end"} <=> Top >= 1
    /\ stage = "end" <=> given # "none"
    /\ NoTxLeft

\* Before Run returns only COMMITs that were not answered have been applied, one in an
\* attempt that failed, and none if the policy does not retry a lost connection.
Settled ==
    /\ stage # "returned" => /\ outcome = "none" /\ commits \in Seq({"lost"})
                             /\ Len(commits) <= attempt
    /\ CommitsAnswered
    /\ stage = "idle" => commits = <<>>
    /\ ~Retryable("lost") => AppliedOnce /\ (stage # "returned" => commits = <<>>)

\* Savepoint names and scopes grow inwards, and no Tx's counter is behind its own
\* name: the next name is new to every Run under way.
Nested ==
    /\ \A j \in 1..Top : frames[j].sp <= frames[j].depth /\ frames[j].scope <= Len(scopes)
    /\ \A j, k \in 1..Top : j < k => /\ frames[j].sp < frames[k].sp
                                     /\ frames[j].scope < frames[k].scope

\* Mark i is Tx j's own savepoint, and everything younger has a greater name.
Owns(j, i) ==
    /\ savepoints[i].name = frames[j].sp
    /\ savepoints[i].scope = frames[j].scope
    /\ \A k \in 1..Len(savepoints) : k > i => savepoints[k].name > frames[j].sp

Marked ==
    /\ \A i \in 1..Len(savepoints) : savepoints[i].scope <= Len(scopes)
    /\ \A i, k \in 1..Len(savepoints) : i < k => savepoints[i].scope < savepoints[k].scope
    /\ \A j \in 2..Top : \E i \in 1..Len(savepoints) : Owns(j, i)

IInv == TypeOK /\ Stages /\ Settled /\ Nested /\ Marked
-----------------------------------------------------------------------------
\* There is at least one attempt.
LEMMA AttemptsPositive == attempts \in Nat /\ attempts >= 1
  BY TransactionAssumption DEF attempts

\* A prefix of a sequence: its type, its length, its elements.
LEMMA Prefix ==
  ASSUME NEW S, NEW s \in Seq(S), NEW n \in 0..Len(s)
  PROVE  /\ SubSeq(s, 1, n) \in Seq(S)
         /\ Len(SubSeq(s, 1, n)) = n
         /\ \A i \in 1..n : SubSeq(s, 1, n)[i] = s[i]
  OBVIOUS

\* Appending to a sequence: its type, its length, its elements.
LEMMA Appended ==
  ASSUME NEW S, NEW s \in Seq(S), NEW e \in S
  PROVE  /\ Append(s, e) \in Seq(S)
         /\ Len(Append(s, e)) = Len(s) + 1
         /\ Append(s, e)[Len(s) + 1] = e
         /\ \A i \in 1..Len(s) : Append(s, e)[i] = s[i]
  OBVIOUS

\* Replacing one element keeps a sequence a sequence of the same length.
LEMMA Replaced ==
  ASSUME NEW S, NEW s \in Seq(S), NEW i, NEW e, i \in 1..Len(s) => e \in S
  PROVE  /\ [s EXCEPT ![i] = e] \in Seq(S)
         /\ Len([s EXCEPT ![i] = e]) = Len(s)
<1>1. Len(s) \in Nat /\ s \in [1..Len(s) -> S]
  OBVIOUS
<1>2. PICK n : n = Len(s)
  OBVIOUS
<1>3. ASSUME NEW f \in [1..n -> S] PROVE [f EXCEPT ![i] = e] \in [1..n -> S]
  BY <1>2
<1>4. ASSUME NEW t \in [1..n -> S] PROVE t \in Seq(S) /\ Len(t) = n
  BY <1>1, <1>2
<1> QED
  BY <1>1, <1>2, <1>3, <1>4

\* What TypeOK says of the elements of the three sequences.
LEMMA Elements ==
  ASSUME TypeOK
  PROVE  /\ frames \in Seq(FrameType) /\ Top \in Nat
         /\ \A j \in 1..Top : frames[j] \in FrameType
         /\ savepoints \in Seq(MarkType) /\ Len(savepoints) \in Nat
         /\ \A i \in 1..Len(savepoints) : savepoints[i] \in MarkType
         /\ scopes \in Seq(ScopeType) /\ Len(scopes) \in Nat
         /\ \A i \in 1..Len(scopes) : scopes[i] \in ScopeType
  BY DEF TypeOK, Top

\* The savepoint the server takes for the innermost nested Tx is its own.
LEMMA TargetIsOwn ==
  ASSUME TypeOK, NEW i \in 1..Len(savepoints), Top >= 1, Owns(Top, i)
  PROVE  Named # {} /\ Target = i
<1>1. i \in Named
  BY DEF Named, Owns, Tx
<1>2. ASSUME NEW k \in Named PROVE i >= k
  <2>1. Len(savepoints) \in Nat /\ DOMAIN savepoints = 1..Len(savepoints)
    BY Elements
  <2>2. k \in 1..Len(savepoints) /\ savepoints[k].name = frames[Top].sp
    BY <2>1 DEF Named, Tx
  <2>3. savepoints[k].name \in Nat
    BY <2>2, Elements DEF MarkType
  <2> QED
    BY <2>1, <2>2, <2>3 DEF Owns
<1>3. \A k \in Named : (\A y \in Named : k >= y) => k = i
  BY <1>1, <1>2 DEF Named
<1> QED
  BY <1>1, <1>2, <1>3 DEF Target, Max

\* The first part of OwnSavepoint's proof: the invariant gives the property.
LEMMA OwnFromInvariant == TypeOK /\ Marked => OwnSavepoint
<1> SUFFICES ASSUME TypeOK, Marked, Top > 1
             PROVE  Named # {} /\ savepoints[Target].scope = Tx.scope
  BY DEF OwnSavepoint
<1>1. Top \in Nat
  BY DEF TypeOK, Top
<1>2. PICK i \in 1..Len(savepoints) : Owns(Top, i)
  BY <1>1 DEF Marked
<1>3. Named # {} /\ Target = i
  BY <1>1, <1>2, TargetIsOwn
<1> QED
  BY <1>2, <1>3 DEF Owns, Tx
-----------------------------------------------------------------------------
(* Steps that end Run or leave its transaction.                            *)

\* The invariant holds initially.
LEMMA InitInv == Init => IInv
<1>. SUFFICES ASSUME Init PROVE IInv
  OBVIOUS
<1>1. TypeOK
  <2>1. attempt \in 0..(attempts - 1)
    BY AttemptsPositive DEF Init
  <2>2. /\ frames \in Seq(FrameType) /\ savepoints \in Seq(MarkType)
        /\ scopes \in Seq(ScopeType) /\ commits \in Seq({"ok", "lost"})
    BY DEF Init
  <2> QED
    BY <2>1, <2>2 DEF Init, TypeOK
<1>2. Stages
  BY DEF Init, Stages, NoTxLeft, Top
<1>3. Settled
  BY DEF Init, Settled, AppliedOnce, CommitsAnswered
<1>4. Nested /\ Marked
  BY DEF Init, Nested, Marked, Top
<1> QED
  BY <1>1, <1>2, <1>3, <1>4 DEF IInv

\* A Run keeps its policy until it returns.
LEMMA SamePolicy ==
  ASSUME UNCHANGED policy
  PROVE  Retryable("lost")' <=> Retryable("lost")
  BY DEF Retryable

\* A step inside an attempt, or one that starts the next attempt.
LEMMA StaysSettled ==
  ASSUME Settled, UNCHANGED <<policy, attempt, commits, outcome>>,
         stage = "returned" => stage' = "returned", stage' = "idle" => stage = "idle"
  PROVE  Settled'
<1>1. CommitsAnswered'
  BY DEF Settled, CommitsAnswered
<1>2. ASSUME ~Retryable("lost")
      PROVE  AppliedOnce' /\ (stage' # "returned" => commits' = <<>>)
  BY <1>2 DEF Settled, AppliedOnce
<1>3. stage' # "returned" => /\ outcome' = "none" /\ commits' \in Seq({"lost"})
                             /\ Len(commits') <= attempt'
  BY DEF Settled
<1> QED
  BY SamePolicy, <1>1, <1>2, <1>3 DEF Settled

\* Run returns o without a COMMIT in this attempt that was applied.
LEMMA ReturnsSettled ==
  ASSUME TypeOK, Settled, stage # "returned", NEW o \in {"panic"} \cup Error,
         Returns(o), UNCHANGED <<policy, commits>>
  PROVE  Settled'
<1>1. /\ Len(commits) \in Nat /\ attempt \in Int /\ Len(commits) <= attempt
      /\ \A i \in DOMAIN commits : commits[i] = "lost"
  BY DEF TypeOK, Settled
<1>2. o # "ok" /\ o # "none" /\ stage' = "returned" /\ outcome' = o /\ UNCHANGED <<attempt, commits>>
  BY DEF Returns, Error
<1>3. CommitsAnswered'
  BY <1>1, <1>2 DEF CommitsAnswered
<1>4. ~Retryable("lost") => AppliedOnce'
  BY <1>2 DEF Settled, AppliedOnce
<1> QED
  BY SamePolicy, <1>2, <1>3, <1>4 DEF Settled

\* What an attempt that fails leaves: another attempt, or the result of Run.
LEMMA FailedAttempt ==
  ASSUME TypeOK, Settled, stage # "returned", NEW e \in Error, AttemptFails(e),
         UNCHANGED policy, UNCHANGED commits \/ (e = "lost" /\ Applied("lost"))
  PROVE  /\ attempt' \in 0..(attempts - 1) /\ stage' \in {"backoff", "returned"}
         /\ outcome' \in {"none"} \cup Error /\ commits' \in Seq({"ok", "lost"})
         /\ Settled'
<1>1. /\ outcome = "none" /\ commits \in Seq({"lost"}) /\ Len(commits) <= attempt
      /\ attempt \in 0..(attempts - 1) /\ attempts \in Nat /\ Len(commits) \in Nat
      /\ commits \in Seq({"ok", "lost"})
  BY AttemptsPositive DEF TypeOK, Settled
<1>2. /\ commits' \in Seq({"lost"}) /\ commits' \in Seq({"ok", "lost"})
      /\ Len(commits') \in Nat /\ Len(commits') <= attempt + 1
      /\ \A i \in DOMAIN commits' : commits'[i] = "lost"
      /\ commits' # commits => e = "lost" /\ Len(commits') = Len(commits) + 1
  <2>1. commits' = commits \/ (e = "lost" /\ commits' = Append(commits, "lost"))
    BY DEF Applied
  <2>2. commits' \in Seq({"lost"}) /\ Len(commits') \in {Len(commits), Len(commits) + 1}
    BY <1>1, <2>1
  <2>3. commits' \in Seq({"ok", "lost"})
    BY <2>2
  <2> QED
    BY <1>1, <2>1, <2>2, <2>3
<1>3. CASE Retryable(e) /\ MoreAttempts(attempt + 1)
  <2>1. stage' = "backoff" /\ attempt' = attempt + 1 /\ outcome' = outcome
    BY <1>3 DEF AttemptFails, NextAttempt
  <2>2. attempt' \in 0..(attempts - 1)
    BY <1>1, <1>3, <2>1 DEF MoreAttempts
  <2>3. CommitsAnswered'
    BY <1>1, <1>2, <2>1 DEF CommitsAnswered
  <2>4. ~Retryable("lost") => commits' = <<>>
    BY <1>2, <1>3 DEF Settled
  <2>5. ~Retryable("lost") => AppliedOnce'
    BY <1>1, <2>1, <2>4 DEF AppliedOnce
  <2> QED
    BY SamePolicy, <1>1, <1>2, <2>1, <2>2, <2>3, <2>4, <2>5 DEF Settled
<1>4. CASE ~(Retryable(e) /\ MoreAttempts(attempt + 1))
  <2>1. stage' = "returned" /\ attempt' = attempt /\ outcome' = e
    BY <1>4 DEF AttemptFails, Returns
  <2>2. CommitsAnswered'
    BY <1>1, <1>2, <2>1 DEF CommitsAnswered, Error
  <2>3. ~Retryable("lost") => AppliedOnce'
    <3>1. ASSUME ~Retryable("lost")
          PROVE  Len(commits') <= 1 /\ (e # "lost" => commits' = <<>>)
      <4>1. commits = <<>>
        BY <3>1 DEF Settled
      <4>2. Len(commits) = 0
        BY <4>1
      <4>3. CASE commits' = commits
        BY <4>1, <4>2, <4>3
      <4>4. CASE commits' # commits
        <5>1. e = "lost" /\ Len(commits') = Len(commits) + 1
          BY <1>2, <4>4
        <5> QED
          BY <4>2, <5>1
      <4> QED
        BY <4>3, <4>4
    <3> QED
      BY <2>1, <3>1 DEF AppliedOnce, Error
  <2> QED
    BY SamePolicy, <1>1, <1>2, <2>1, <2>2, <2>3 DEF Settled
<1> QED
  BY <1>3, <1>4

\* Leaving the transaction settles everything that is said about frames and marks.
LEMMA LeftTx ==
  ASSUME LeaveTx
  PROVE  /\ Nested' /\ Marked' /\ ~(Top >= 1)' /\ given' = "none"
         /\ frames' \in Seq(FrameType) /\ savepoints' \in Seq(MarkType)
         /\ scopes' \in Seq(ScopeType) /\ undone' \subseteq Nat
  BY DEF LeaveTx, Nested, Marked, Top

\* Nothing of the transaction itself changes.
LEMMA SameTx ==
  ASSUME Nested, Marked, UNCHANGED <<frames, savepoints, scopes>>
  PROVE  Nested' /\ Marked'
  BY DEF Nested, Marked, Owns, Top

\* A Run starts with nothing committed, whatever its policy and that of the Run before.
LEMMA RunKeeps ==
  ASSUME IInv, Run
  PROVE  IInv'
<1>. USE DEF IInv
<1>1. /\ stage = "idle" /\ stage' = "begin" /\ policy' \in Policies
      /\ UNCHANGED <<attempt, ctxDone, txVars, commits, outcome>>
  BY DEF Run
<1>2. Nested' /\ Marked'
  BY <1>1, SameTx DEF txVars
<1>3. Settled'
  <2>1. commits' = <<>> /\ outcome' = "none" /\ Len(commits') <= attempt'
    BY <1>1 DEF Settled
  <2>2. CommitsAnswered'
    BY <1>1 DEF Settled, CommitsAnswered
  <2>3. AppliedOnce'
    BY <2>1 DEF AppliedOnce
  <2> QED
    BY <1>1, <2>1, <2>2, <2>3 DEF Settled
<1> QED
  BY <1>1, <1>2, <1>3 DEF txVars, TypeOK, Stages, NoTxLeft, Top

\* Backoff, Begin and Take keep the invariant.
LEMMA LoopKeeps ==
  ASSUME IInv, UNCHANGED policy, Backoff \/ Begin \/ Take
  PROVE  IInv'
<1>. USE DEF IInv
<1>2. CASE Backoff
  <2>1. Nested' /\ Marked' /\ Settled'
    <3>1. CASE Returns("ctx")
      BY <1>2, <3>1, SameTx, ReturnsSettled DEF Backoff, txVars, Error
    <3>2. CASE stage' = "begin" /\ UNCHANGED <<attempt, outcome>>
      BY <1>2, <3>2, SameTx, StaysSettled DEF Backoff, txVars
    <3> QED
      BY <1>2, <3>1, <3>2 DEF Backoff
  <2> QED
    BY <1>2, <2>1 DEF Backoff, Returns, txVars, TypeOK, Stages, NoTxLeft, Top, Error
<1>3. CASE Begin
  <2>. USE DEF Begin
  <2>1. CASE UNCHANGED txVars /\ \E e \in Error : AttemptFails(e)
    <3>1. Nested' /\ Marked'
      BY <2>1, SameTx DEF txVars
    <3>2. PICK e \in Error : AttemptFails(e)
      BY <2>1
    <3>3. /\ attempt' \in 0..(attempts - 1) /\ stage' \in {"backoff", "returned"}
          /\ outcome' \in {"none"} \cup Error /\ Settled'
      BY <1>3, <3>2, FailedAttempt
    <3> QED
      BY <1>3, <2>1, <3>1, <3>3 DEF txVars, TypeOK, Stages, NoTxLeft, Top
  <2>2. CASE /\ ~ctxDone
             /\ conn' = "open" /\ frames' = <<Frame(0, 0)>>
             /\ stage' = "fn"
             /\ UNCHANGED <<attempt, outcome, given, savepoints, scopes, undone>>
    <3>1. /\ frames' \in Seq(FrameType) /\ Top' = 1
          /\ frames'[1].sp = 0 /\ frames'[1].depth = 0 /\ frames'[1].scope = 0
      BY <2>2 DEF Frame, FrameType, Top
    <3>2. Nested'
      BY <2>2, <3>1, Elements DEF Nested
    <3>3. Marked'
      <4>1. \A j \in 2..Top' : FALSE
        BY <3>1
      <4> QED
        BY <2>2, <4>1 DEF Marked
    <3>4. Settled'
      BY <1>3, <2>2, StaysSettled
    <3> QED
      BY <1>3, <2>2, <3>1, <3>2, <3>3, <3>4 DEF TypeOK, Stages, NoTxLeft
  <2> QED
    BY <1>3, <2>1, <2>2
<1>4. CASE Take
  <2>1. LeaveTx
    BY <1>4 DEF Take, NoTx
  <2>2. TypeOK'
    <3>1. attempt' \in 0..(attempts - 1) /\ commits' \in Seq({"ok", "lost"})
      BY <1>4, AttemptsPositive DEF Take
    <3> QED
      BY <1>4, <2>1, <3>1, LeftTx DEF Take, NoTx, TypeOK
  <2>3. Stages'
    BY <1>4, <2>1, LeftTx DEF Take, NoTx, Stages, NoTxLeft
  <2>4. Settled'
    BY <1>4 DEF Take, Settled, AppliedOnce, CommitsAnswered
  <2> QED
    BY <2>1, <2>2, <2>3, <2>4, LeftTx
<1> QED
  BY <1>2, <1>3, <1>4

\* An attempt that fails and leaves its transaction keeps the invariant.
LEMMA FailureKeeps ==
  ASSUME IInv, stage # "returned", NEW e \in Error, AttemptFails(e), LeaveTx,
         conn' = "none" \/ (conn' = conn /\ ctxDone), UNCHANGED <<policy, ctxDone>>,
         UNCHANGED commits \/ (e = "lost" /\ Applied("lost"))
  PROVE  IInv'
<1>1. /\ attempt' \in 0..(attempts - 1) /\ stage' \in {"backoff", "returned"}
      /\ outcome' \in {"none"} \cup Error /\ commits' \in Seq({"ok", "lost"})
      /\ Settled'
  BY FailedAttempt DEF IInv
<1>2. TypeOK'
  BY <1>1, LeftTx DEF IInv, TypeOK
<1>3. Stages'
  BY <1>1, LeftTx DEF Stages, NoTxLeft
<1> QED
  BY <1>1, <1>2, <1>3, LeftTx DEF IInv

\* A COMMIT that is answered ends Run with success.
LEMMA SuccessKeeps ==
  ASSUME IInv, stage = "end", Applied("ok"), AttemptSucceeds, NoTx,
         UNCHANGED <<policy, ctxDone>>
  PROVE  IInv'
<1>1. /\ LeaveTx /\ conn' = "none" /\ stage' = "returned" /\ outcome' = "ok"
      /\ attempt' = attempt /\ commits' = Append(commits, "ok")
  BY DEF NoTx, AttemptSucceeds, Returns, Applied
<1>2. /\ commits \in Seq({"lost"}) /\ Len(commits) <= attempt /\ attempt \in Int
      /\ ~Retryable("lost") => commits = <<>>
  BY DEF IInv, TypeOK, Settled
<1>3. /\ Len(commits) \in Nat /\ Len(commits') = Len(commits) + 1 /\ commits' # <<>>
      /\ commits' \in Seq({"ok", "lost"}) /\ commits'[Len(commits')] = "ok"
      /\ DOMAIN commits' = 1..(Len(commits) + 1)
      /\ \A i \in 1..Len(commits) : commits'[i] = "lost"
  <2>1. commits \in Seq({"ok", "lost"}) /\ "ok" \in {"ok", "lost"}
    BY DEF IInv, TypeOK
  <2> QED
    BY <1>1, <1>2, <2>1
<1>4. CommitsAnswered'
  BY <1>1, <1>2, <1>3 DEF CommitsAnswered
<1>5. ~Retryable("lost") => AppliedOnce'
  BY <1>1, <1>2, <1>3 DEF AppliedOnce
<1>6. Settled'
  BY SamePolicy, <1>1, <1>4, <1>5 DEF Settled
<1>7. TypeOK'
  BY <1>1, <1>3, LeftTx DEF IInv, TypeOK
<1>8. Stages'
  BY <1>1, LeftTx DEF Stages, NoTxLeft
<1> QED
  BY <1>1, <1>6, <1>7, <1>8, LeftTx DEF IInv

\* The steps of runOnce after fn, and those of database/sql, keep the invariant.
LEMMA EndsKeep ==
  ASSUME IInv, UNCHANGED policy, Panics \/ Rollback \/ Commit \/ CtxRollback \/ Expire
  PROVE  IInv'
<1>. USE DEF IInv
<1>1. CASE Panics
  <2>1. LeaveTx /\ stage # "returned" /\ Returns("panic")
    BY <1>1 DEF Panics, PanicRollsBack, NoTx
  <2>2. Settled'
    BY <1>1, <2>1, ReturnsSettled DEF Panics
  <2> QED
    BY <1>1, <2>1, <2>2, LeftTx DEF Panics, PanicRollsBack, NoTx, Returns, TypeOK, Stages, NoTxLeft
<1>2. CASE Rollback
  <2>1. /\ LeaveTx /\ conn' = "none" /\ stage # "returned" /\ UNCHANGED <<ctxDone, commits>>
        /\ AttemptFails(given) \/ AttemptFails("lost")
        /\ given \in Error /\ "lost" \in Error
    BY <1>2 DEF Rollback, NoTx, Error
  <2> QED
    BY <2>1, FailureKeeps
<1>3. CASE Commit
  <2>1. stage = "end" /\ UNCHANGED ctxDone /\ LeaveTx
    BY <1>3 DEF Commit, NoTx
  <2>2. CASE ctxDone /\ AttemptFails("ctx") /\ UNCHANGED <<conn, commits>>
    BY <2>1, <2>2, FailureKeeps DEF Error
  <2>3. CASE NoTx /\ Applied("ok") /\ AttemptSucceeds
    BY <2>1, <2>3, SuccessKeeps
  <2>4. CASE NoTx /\ Applied("lost") /\ AttemptFails("lost")
    BY <2>1, <2>4, FailureKeeps DEF NoTx, Error
  <2>5. CASE NoTx /\ (\E e \in Error : AttemptFails(e)) /\ UNCHANGED commits
    BY <2>1, <2>5, FailureKeeps DEF NoTx
  <2> QED
    BY <1>3, <2>2, <2>3, <2>4, <2>5 DEF Commit, Error
<1>4. CASE CtxRollback
  <2>1. Nested' /\ Marked' /\ Settled'
    BY <1>4, SameTx, StaysSettled DEF CtxRollback
  <2> QED
    BY <1>4, <2>1 DEF CtxRollback, TypeOK, Stages, NoTxLeft, Top
<1>5. CASE Expire
  <2>1. Nested' /\ Marked' /\ Settled'
    BY <1>5, SameTx, StaysSettled DEF Expire, txVars
  <2> QED
    BY <1>5, <2>1 DEF Expire, txVars, TypeOK, Stages, NoTxLeft, Top
<1> QED
  BY <1>1, <1>2, <1>3, <1>4, <1>5
-----------------------------------------------------------------------------
(* Steps of fn and of nested Runs.                                         *)

\* What fn does, short of opening a nested Run, keeps the invariant.
LEMMA FnKeeps ==
  ASSUME IInv, UNCHANGED policy,
         NestedRefused \/ FnEnds \/ \E i \in 2..Top : ExpireNested(i)
  PROVE  IInv'
<1>. USE DEF IInv
<1>1. CASE NestedRefused
  <2>1. Nested' /\ Marked' /\ Settled'
    BY <1>1, SameTx, StaysSettled DEF NestedRefused
  <2> QED
    BY <1>1, <2>1 DEF NestedRefused, TypeOK, Stages, NoTxLeft, Top
<1>2. CASE FnEnds
  <2>1. Nested' /\ Marked' /\ Settled'
    BY <1>2, SameTx, StaysSettled DEF FnEnds, FnGives
  <2> QED
    BY <1>2, <2>1 DEF FnEnds, FnGives, TypeOK, Stages, NoTxLeft, Top, Error
<1>3. ASSUME NEW i \in 2..Top, ExpireNested(i) PROVE IInv'
  <2>1. i \in 1..Top /\ frames[i] \in FrameType
    BY Elements
  <2>2. [frames[i] EXCEPT !.expired = TRUE] \in FrameType
    BY <2>1 DEF FrameType
  <2>3. frames' = [frames EXCEPT ![i] = [frames[i] EXCEPT !.expired = TRUE]]
    BY <1>3, <2>1 DEF ExpireNested
  <2>4. frames' \in Seq(FrameType) /\ Top' = Top
    BY <2>2, <2>3, Elements, Replaced DEF Top
  <2>5. \A j \in 1..Top : /\ frames'[j].sp = frames[j].sp
                           /\ frames'[j].depth = frames[j].depth
                           /\ frames'[j].scope = frames[j].scope
    <3>1. \A j \in 1..Top : frames'[j] =
                 IF j = i THEN [frames[i] EXCEPT !.expired = TRUE] ELSE frames[j]
      BY <2>1, <2>3, Elements DEF Top
    <3>2. /\ [frames[i] EXCEPT !.expired = TRUE].sp = frames[i].sp
          /\ [frames[i] EXCEPT !.expired = TRUE].depth = frames[i].depth
          /\ [frames[i] EXCEPT !.expired = TRUE].scope = frames[i].scope
      BY <2>1 DEF FrameType
    <3> QED
      BY <3>1, <3>2
  <2>6. UNCHANGED <<stage, attempt, ctxDone, given, conn, savepoints, scopes, undone,
                    commits, outcome>>
    BY <1>3 DEF ExpireNested
  <2>7. Nested'
    BY <2>4, <2>5, <2>6 DEF Nested
  <2>8. Marked'
    <3>1. \A j \in 2..Top, m \in 1..Len(savepoints) : Owns(j, m) => Owns(j, m)'
      BY <2>5, <2>6, Elements DEF Owns
    <3> QED
      BY <2>4, <2>6, <3>1 DEF Marked
  <2>9. Settled'
    BY <2>6, StaysSettled
  <2> QED
    BY <2>4, <2>6, <2>7, <2>8, <2>9 DEF TypeOK, Stages, NoTxLeft
<1> QED
  BY <1>1, <1>2, <1>3
\* Opening a nested Run keeps the invariant: its name is greater than the name of
\* every Run around it.
LEMMA OpenKeeps ==
  ASSUME IInv, UNCHANGED policy, OpenNested
  PROVE  IInv'
<1>. USE DEF IInv
<1>. DEFINE d == Tx.depth + 1
            i == Len(scopes) + 1
            t == [frames[Top] EXCEPT !.depth = d]
            f == [frames EXCEPT ![Top] = t]
            mark == [name |-> d, scope |-> i]
            scope == [around |-> {frames[j].scope : j \in 2..Top}, fate |-> "open"]
<1>1. /\ stage = "fn" /\ Top >= 1 /\ Top \in 1..Top
      /\ frames' = Append(f, Frame(d, i))
      /\ savepoints' = Append(savepoints, mark)
      /\ scopes' = Append(scopes, scope)
      /\ UNCHANGED <<stage, attempt, ctxDone, given, conn, undone, commits, outcome>>
  BY Elements DEF OpenNested, Stages, Tx, Top
<1>2. /\ \A j \in 1..Top : /\ frames[j].depth \in Nat /\ frames[j].sp \in Nat
                           /\ frames[j].scope \in Nat
      /\ \A j \in 1..Len(savepoints) : savepoints[j].name \in Nat /\ savepoints[j].scope \in Nat
  BY Elements DEF FrameType, MarkType
<1>3. d \in Nat /\ i \in Nat /\ d = frames[Top].depth + 1
  BY <1>1, <1>2, Elements DEF Tx
<1>4. t \in FrameType /\ t.sp = frames[Top].sp /\ t.scope = frames[Top].scope /\ t.depth = d
  BY <1>1, <1>3, Elements DEF FrameType
<1>. HIDE DEF t
<1>5. /\ f \in Seq(FrameType) /\ Len(f) = Top
      /\ \A j \in 1..Top : f[j] = IF j = Top THEN t ELSE frames[j]
  BY <1>1, <1>4, Elements, Replaced DEF Top
<1>6. Frame(d, i) \in FrameType /\ mark \in MarkType /\ scope \in ScopeType
  <2>1. Frame(d, i) \in FrameType /\ mark \in MarkType
    BY <1>3 DEF Frame, FrameType, MarkType
  <2>2. {frames[j].scope : j \in 2..Top} \in SUBSET Nat
    BY <1>2, Elements
  <2> QED
    BY <2>1, <2>2 DEF ScopeType
<1>. HIDE DEF d, i, f, mark, scope
<1>7. /\ frames' \in Seq(FrameType) /\ Top' = Top + 1
      /\ frames'[Top + 1] = Frame(d, i)
      /\ \A j \in 1..Top : frames'[j] = f[j]
  BY <1>1, <1>5, <1>6, Elements, Appended DEF Top
<1>8. /\ savepoints' \in Seq(MarkType) /\ Len(savepoints') = Len(savepoints) + 1
      /\ savepoints'[Len(savepoints) + 1] = mark
      /\ \A j \in 1..Len(savepoints) : savepoints'[j] = savepoints[j]
      /\ scopes' \in Seq(ScopeType) /\ Len(scopes') = i
  BY <1>1, <1>6, Elements, Appended DEF i
<1>9. /\ \A j \in 1..Top : /\ frames'[j].sp = frames[j].sp
                           /\ frames'[j].scope = frames[j].scope
                           /\ frames'[j].sp <= frames'[j].depth
      /\ frames'[Top + 1].sp = d /\ frames'[Top + 1].depth = d
      /\ frames'[Top + 1].scope = i
      /\ mark.name = d /\ mark.scope = i
  <2>1. ASSUME NEW j \in 1..Top
        PROVE  /\ frames'[j].sp = frames[j].sp
               /\ frames'[j].scope = frames[j].scope
               /\ frames'[j].sp <= frames'[j].depth
    <3>1. CASE j = Top
      <4>1. frames'[j] = t /\ frames[j].sp <= frames[j].depth
        BY <1>5, <1>7, <3>1 DEF Nested
      <4> QED
        BY <1>2, <1>3, <1>4, <3>1, <4>1
    <3>2. CASE j # Top
      BY <1>5, <1>7, <3>2 DEF Nested
    <3> QED
      BY <3>1, <3>2
  <2> QED
    BY <1>7, <2>1 DEF Frame, mark
<1>10. \A j \in 1..Top : frames[j].sp < d /\ frames[j].scope < i
  <2>1. ASSUME NEW j \in 1..Top PROVE frames[j].sp <= frames[Top].sp
    <3>1. CASE j = Top
      BY <1>1, <1>2, <3>1
    <3>2. CASE j # Top
      <4>1. j < Top
        BY <3>2, Elements
      <4>2. frames[j].sp < frames[Top].sp
        BY <1>1, <4>1 DEF Nested
      <4> QED
        BY <1>1, <1>2, <4>2
    <3> QED
      BY <3>1, <3>2
  <2>2. frames[Top].sp <= frames[Top].depth
    BY <1>1 DEF Nested
  <2>3. \A j \in 1..Top : frames[j].scope <= Len(scopes)
    BY DEF Nested
  <2>4. ASSUME NEW j \in 1..Top PROVE frames[j].sp < d
    <3>1. frames[j].sp \in Nat /\ frames[Top].sp \in Nat /\ frames[Top].depth \in Nat
      BY <1>1, <1>2
    <3> QED
      BY <1>3, <2>1, <2>2, <3>1
  <2>5. ASSUME NEW j \in 1..Top PROVE frames[j].scope < i
    BY <1>2, <2>3, Elements DEF i
  <2> QED
    BY <2>4, <2>5
<1>11. Nested'
  <2>1. ASSUME NEW j \in 1..(Top + 1)
        PROVE  frames'[j].sp <= frames'[j].depth /\ frames'[j].scope <= i
    <3>1. CASE j = Top + 1
      BY <1>3, <1>9, <3>1
    <3>2. CASE j # Top + 1
      <4>1. j \in 1..Top
        BY <3>2, Elements
      <4> QED
        BY <1>2, <1>3, <1>9, <1>10, <4>1
    <3> QED
      BY <3>1, <3>2
  <2>2. ASSUME NEW j \in 1..(Top + 1), NEW k \in 1..(Top + 1), j < k
        PROVE  frames'[j].sp < frames'[k].sp /\ frames'[j].scope < frames'[k].scope
    <3>1. j \in 1..Top
      BY <2>2, Elements
    <3>2. CASE k = Top + 1
      BY <1>9, <1>10, <3>1, <3>2
    <3>3. CASE k # Top + 1
      <4>1. k \in 1..Top
        BY <3>3, Elements
      <4> QED
        BY <2>2, <1>9, <3>1, <4>1 DEF Nested
    <3> QED
      BY <3>2, <3>3
  <2> QED
    BY <1>7, <1>8, <2>1, <2>2 DEF Nested
<1>12. Marked'
  <2>. DEFINE n == Len(savepoints)
  <2>1. n \in Nat /\ Top \in Nat
    BY Elements
  <2>2. ASSUME NEW m \in 1..(n + 1) PROVE savepoints'[m].scope <= i
    <3>1. CASE m = n + 1
      BY <1>3, <1>8, <1>9, <3>1
    <3>2. CASE m # n + 1
      <4>1. m \in 1..n /\ savepoints[m].scope <= Len(scopes)
        BY <2>1, <3>2 DEF Marked
      <4> QED
        BY <1>2, <1>8, <4>1, Elements DEF i
    <3> QED
      BY <3>1, <3>2
  <2>3. ASSUME NEW m \in 1..(n + 1), NEW k \in 1..(n + 1), m < k
        PROVE  savepoints'[m].scope < savepoints'[k].scope
    <3>1. m \in 1..n /\ savepoints[m].scope <= Len(scopes)
      BY <2>1, <2>3 DEF Marked
    <3>2. CASE k = n + 1
      BY <1>2, <1>8, <1>9, <3>1, <3>2, Elements DEF i
    <3>3. CASE k # n + 1
      <4>1. k \in 1..n
        BY <2>1, <3>3
      <4> QED
        BY <1>8, <2>3, <3>1, <4>1 DEF Marked
    <3> QED
      BY <3>2, <3>3
  <2>4. ASSUME NEW j \in 2..(Top + 1)
        PROVE  \E m \in 1..(n + 1) : Owns(j, m)'
    <3>1. CASE j = Top + 1
      <4>1. n + 1 \in 1..(n + 1) /\ ~ \E k \in 1..(n + 1) : k > n + 1
        BY <2>1
      <4>2. /\ savepoints'[n + 1].name = d /\ savepoints'[n + 1].scope = i
            /\ frames'[j].sp = d /\ frames'[j].scope = i
        BY <1>8, <1>9, <3>1
      <4>3. \A k \in 1..Len(savepoints') : ~(k > n + 1)
        BY <1>8, <4>1
      <4> QED
        BY <4>1, <4>2, <4>3 DEF Owns
    <3>2. CASE j # Top + 1
      <4>1. j \in 2..Top /\ j \in 1..Top
        BY <2>1, <3>2
      <4>2. PICK m \in 1..n : Owns(j, m)
        BY <4>1 DEF Marked
      <4>3. ASSUME NEW k \in 1..(n + 1), k > m
            PROVE  savepoints'[k].name > frames'[j].sp
        <5>1. CASE k = n + 1
          BY <1>2, <1>3, <1>8, <1>9, <1>10, <4>1, <5>1
        <5>2. CASE k # n + 1
          <6>1. k \in 1..n
            BY <2>1, <5>2
          <6> QED
            BY <1>8, <1>9, <4>1, <4>2, <4>3, <6>1 DEF Owns
        <5> QED
          BY <5>1, <5>2
      <4>4. m \in 1..(n + 1)
        BY <2>1
      <4>5. Owns(j, m)'
        BY <1>8, <1>9, <4>1, <4>2, <4>3, <4>4 DEF Owns
      <4> QED
        BY <4>4, <4>5
    <3> QED
      BY <3>1, <3>2
  <2> QED
    BY <1>7, <1>8, <2>2, <2>3, <2>4 DEF Marked
<1>13. TypeOK'
  BY <1>1, <1>7, <1>8 DEF TypeOK
<1>14. Stages' /\ Settled'
  BY <1>1, <1>7, Elements, StaysSettled DEF Stages, NoTxLeft
<1> QED
  BY <1>11, <1>12, <1>13, <1>14
\* Leaving the innermost nested Run, with any prefix of the savepoints that still has
\* those of the Runs around it.
LEMMA Popped ==
  ASSUME IInv, Top > 1, NEW n \in 0..Len(savepoints),
         frames' = SubSeq(frames, 1, Top - 1),
         savepoints' = SubSeq(savepoints, 1, n),
         Len(scopes') = Len(scopes),
         \A j \in 2..(Top - 1), i \in 1..Len(savepoints) : Owns(j, i) => i <= n
  PROVE  /\ Nested' /\ Marked' /\ Top' = Top - 1
         /\ frames' \in Seq(FrameType) /\ savepoints' \in Seq(MarkType)
<1>. USE DEF IInv
<1>1. /\ frames' \in Seq(FrameType) /\ Top' = Top - 1 /\ Top - 1 \in 0..Top
      /\ \A j \in 1..(Top - 1) : frames'[j] = frames[j] /\ j \in 1..Top
  BY Elements, Prefix DEF Top
<1>2. /\ savepoints' \in Seq(MarkType) /\ Len(savepoints') = n
      /\ \A i \in 1..n : savepoints'[i] = savepoints[i] /\ i \in 1..Len(savepoints)
  BY Elements, Prefix
<1>3. Nested'
  BY <1>1 DEF Nested
<1>4. ASSUME NEW j \in 2..(Top - 1)
      PROVE  \E i \in 1..n : Owns(j, i)'
  <2>1. j \in 2..Top /\ j \in 1..(Top - 1)
    BY Elements
  <2>2. PICK i \in 1..Len(savepoints) : Owns(j, i)
    BY <2>1 DEF Marked
  <2>3. i \in 1..n
    BY <2>2, Elements
  <2>4. /\ savepoints'[i].name = frames'[j].sp
        /\ savepoints'[i].scope = frames'[j].scope
        /\ \A k \in 1..Len(savepoints') : k > i => savepoints'[k].name > frames'[j].sp
    BY <1>1, <1>2, <2>1, <2>2, <2>3 DEF Owns
  <2> QED
    BY <2>3, <2>4 DEF Owns
<1>5. Marked'
  BY <1>1, <1>2, <1>4 DEF Marked
<1> QED
  BY <1>1, <1>2, <1>3, <1>5

\* The own savepoint of the innermost Run is younger than those of the Runs around it.
LEMMA OwnIsYoungest ==
  ASSUME IInv, Top > 1
  PROVE  /\ Target \in 1..Len(savepoints) /\ savepoints[Target].scope \in Nat
         /\ \A j \in 2..(Top - 1), i \in 1..Len(savepoints) : Owns(j, i) => i <= Target - 1
<1>. USE DEF IInv
<1>1. PICK t \in 1..Len(savepoints) : Owns(Top, t)
  BY Elements DEF Marked
<1>2. Target = t
  <2>1. Top >= 1
    BY Elements
  <2> QED
    BY <1>1, <2>1, TargetIsOwn
<1>3. savepoints[t].scope \in Nat
  BY Elements DEF MarkType
<1>4. ASSUME NEW j \in 2..(Top - 1), NEW i \in 1..Len(savepoints), Owns(j, i)
      PROVE  i <= t - 1
  <2>1. frames[j].scope < frames[Top].scope
    <3>1. j \in 1..Top /\ Top \in 1..Top /\ j < Top
      BY Elements
    <3> QED
      BY <3>1 DEF Nested
  <2>2. savepoints[i].scope < savepoints[t].scope
    BY <1>1, <1>4, <2>1 DEF Owns
  <2>3. savepoints[i].scope \in Nat
    BY Elements DEF MarkType
  <2>4. ~(t < i) /\ t # i
    BY <1>3, <2>2, <2>3 DEF Marked
  <2> QED
    BY <2>4, Elements
<1> QED
  BY <1>1, <1>2, <1>3, <1>4

\* Noting how a scope ended changes neither the number of scopes nor their type.
LEMMA FateNoted ==
  ASSUME TypeOK, NEW x,
         NEW fate \in {"ok", "failed", "kept", "unsettled", "panicked"},
         scopes' = [scopes EXCEPT ![x].fate = fate]
  PROVE  scopes' \in Seq(ScopeType) /\ Len(scopes') = Len(scopes)
<1>1. x \in 1..Len(scopes) => [scopes[x] EXCEPT !.fate = fate] \in ScopeType
  BY Elements DEF ScopeType
<1>2. scopes' = [scopes EXCEPT ![x] = [scopes[x] EXCEPT !.fate = fate]]
  OBVIOUS
<1> QED
  BY <1>1, <1>2, Elements, Replaced

\* However a nested Run ends, the invariant holds for the Runs around it.
LEMMA NestedEndKeeps ==
  ASSUME IInv, UNCHANGED policy, ReleaseSavepoint \/ RollbackToSavepoint \/ NestedPanics
  PROVE  IInv'
<1>. USE DEF IInv
<1>. DEFINE n == Len(savepoints)
<1>1. /\ stage = "end" /\ Top > 1 /\ given # "none"
      /\ frames' = SubSeq(frames, 1, Top - 1)
      /\ \/ stage' = "fn" /\ given' = "none"
         \/ UNCHANGED <<stage, given>>
      /\ UNCHANGED <<attempt, ctxDone, commits, outcome>>
  BY DEF ReleaseSavepoint, RollbackToSavepoint, NestedPanics, Leave, Error
<1>2. conn' \in {"none", "open", "aborted", "lost"}
  BY DEF ReleaseSavepoint, RollbackToSavepoint, NestedPanics, StatementFails, TypeOK
<1>3. scopes' \in Seq(ScopeType) /\ Len(scopes') = Len(scopes)
  <2>1. PICK fate \in {"ok", "failed", "kept", "unsettled", "panicked"} :
            scopes' = [scopes EXCEPT ![Tx.scope].fate = fate]
    BY DEF ReleaseSavepoint, RollbackToSavepoint, NestedPanics, Leave
  <2> QED
    BY <2>1, FateNoted
<1>4. PICK m \in (Target - 1)..n : savepoints' = SubSeq(savepoints, 1, m)
  <2>1. Target \in 1..n /\ n \in Nat
    BY <1>1, OwnIsYoungest, Elements
  <2>2. SubSeq(savepoints, 1, n) = savepoints
    BY Elements
  <2>3. \/ savepoints' = savepoints
        \/ savepoints' = SubSeq(savepoints, 1, Target - 1)
        \/ savepoints' = SubSeq(savepoints, 1, Target)
    BY DEF ReleaseSavepoint, RollbackToSavepoint, NestedPanics
  <2> QED
    BY <2>1, <2>2, <2>3
<1>5. undone' \subseteq Nat
  <2>1. savepoints[Target].scope \in Nat
    BY <1>1, OwnIsYoungest
  <2>2. (savepoints[Target].scope .. Len(scopes)) \subseteq Nat
    BY <2>1, Elements
  <2>3. undone' = undone \/ undone' = undone \cup (savepoints[Target].scope .. Len(scopes))
    BY DEF ReleaseSavepoint, RollbackToSavepoint, NestedPanics
  <2> QED
    BY <2>2, <2>3 DEF TypeOK
<1>6. /\ Nested' /\ Marked' /\ Top' = Top - 1
      /\ frames' \in Seq(FrameType) /\ savepoints' \in Seq(MarkType)
  <2>1. m \in 0..n
    BY <1>1, <1>4, OwnIsYoungest, Elements
  <2>2. \A j \in 2..(Top - 1), i \in 1..n : Owns(j, i) => i <= m
    BY <1>1, <1>4, OwnIsYoungest, Elements
  <2> QED
    BY <1>1, <1>3, <1>4, <2>1, <2>2, Popped
<1>7. TypeOK'
  BY <1>1, <1>2, <1>3, <1>5, <1>6 DEF TypeOK
<1>8. Stages' /\ Settled'
  BY <1>1, <1>6, Elements, StaysSettled DEF Stages, NoTxLeft
<1> QED
  BY <1>6, <1>7, <1>8
-----------------------------------------------------------------------------
\* The invariant is inductive: Transaction's steps all keep it.
THEOREM Invariance == Spec => []IInv
<1>1. ASSUME IInv, UNCHANGED vars PROVE IInv'
  <2>1. Nested' /\ Marked' /\ Settled'
    BY <1>1, SameTx, StaysSettled DEF IInv, vars, txVars
  <2> QED
    BY <1>1, <2>1 DEF IInv, vars, txVars, TypeOK, Stages, NoTxLeft, Top
<1>2. ASSUME IInv, Next PROVE IInv'
  BY <1>2, RunKeeps, LoopKeeps, EndsKeep, FnKeeps, OpenKeeps, NestedEndKeeps
     DEF Next, RunStep, FnEnds, OtherStep
<1>3. IInv /\ [Next]_vars => IInv'
  BY <1>1, <1>2
<1> QED
  BY InitInv, <1>3, PTL DEF Spec

\* Every variable keeps its type, whatever the policy and the number of scopes.
THEOREM TypeCorrect == Spec => []TypeOK
<1>1. IInv => TypeOK
  BY DEF IInv
<1> QED
  BY Invariance, <1>1, PTL

\* ROLLBACK TO and RELEASE always reach the savepoint of the Run that issues them
\* (transaction.go:28), however many siblings failed or panicked before.
THEOREM OwnSavepointAlways == Spec => []OwnSavepoint
<1>1. IInv => OwnSavepoint
  BY OwnFromInvariant DEF IInv
<1> QED
  BY Invariance, <1>1, PTL

\* Run leaves no transaction behind, in whatever way it ends (transaction.go:143).
THEOREM NoTransactionLeft == Spec => []NoTxLeft
<1>1. IInv => NoTxLeft
  BY DEF IInv, Stages, NoTxLeft
<1> QED
  BY Invariance, <1>1, PTL

\* Whatever policy a Run is given, it commits nothing after a COMMIT that was answered and
\* returns nil for that one only; the transaction is applied at most once, and its result
\* says whether it was, unless the caller's policy accepts a lost connection
\* (transaction.go:104, 128).
THEOREM AtMostOneCommit == Spec => []CommittedOnce
<1>1. IInv => CommittedOnce
  <2>1. SUFFICES ASSUME IInv PROVE CommittedOnce
    OBVIOUS
  <2>2. CommitsAnswered /\ (~Retryable("lost") => AppliedOnce)
    BY <2>1 DEF IInv, Settled
  <2>3. "lost" \notin policy => ~Retryable("lost")
    BY DEF Retryable, defaultIsRetryable
  <2> QED
    BY <2>2, <2>3 DEF CommittedOnce
<1> QED
  BY Invariance, <1>1, PTL
-----------------------------------------------------------------------------
(* What a transaction has lost.                                            *)

\* Scope s failed, or lies inside one that did.
Lost(s) == \E r \in scopes[s].around \cup {s} : scopes[r].fate = "failed"

\* A scope lies inside older ones only.  The scopes of the Runs under way are open,
\* and every younger scope lies inside them: a ROLLBACK TO to the innermost one's
\* savepoint undoes that scope and those inside it, and no other.
Around == \A s \in 1..Len(scopes) : scopes[s].around \subseteq 1..(s - 1)
UnderWay(j) ==
    /\ scopes[frames[j].scope].fate = "open"
    /\ \A s \in 1..Len(scopes) : s > frames[j].scope => frames[j].scope \in scopes[s].around
Undone == undone = {s \in 1..Len(scopes) : Lost(s)}

Fates == Around /\ (\A j \in 2..Top : UnderWay(j)) /\ Undone

\* A nested Run's scope is one of the attempt's.
LEMMA ScopeOf ==
  ASSUME IInv, NEW j \in 2..Top
  PROVE  frames[j].scope \in 1..Len(scopes)
<1>1. j \in 1..Top /\ 1 \in 1..Top /\ 1 < j
  BY Elements DEF IInv
<1>2. frames[j].scope \in Nat /\ frames[1].scope \in Nat
  BY <1>1, Elements DEF IInv, FrameType
<1>3. frames[1].scope < frames[j].scope /\ frames[j].scope <= Len(scopes)
  BY <1>1 DEF IInv, Nested
<1> QED BY <1>2, <1>3, Elements DEF IInv

LEMMA SameFates ==
  ASSUME Fates, UNCHANGED <<scopes, undone>>,
         \A j \in 2..Top' : j \in 2..Top /\ frames'[j].scope = frames[j].scope
  PROVE  Fates'
BY DEF Fates, Around, UnderWay, Undone, Lost

LEMMA LeftFates == ASSUME LeaveTx PROVE Fates'
BY DEF LeaveTx, Fates, Around, UnderWay, Undone, Top

LEMMA OpenFates ==
  ASSUME IInv, Fates, OpenNested
  PROVE  Fates'
<1>. PICK i \in Nat : i = Len(scopes) + 1
  BY Elements DEF IInv
<1>. DEFINE scope == [around |-> {frames[j].scope : j \in 2..Top}, fate |-> "open"]
            f == [frames EXCEPT ![Top].depth = Tx.depth + 1]
<1>1. /\ scopes' = Append(scopes, scope) /\ undone' = undone
      /\ frames' = Append(f, Frame(Tx.depth + 1, i)) /\ Top >= 1
  BY DEF OpenNested, IInv, Stages, Tx
<1>2. /\ scope \in ScopeType /\ scope.fate = "open"
      /\ scope.around = {frames[j].scope : j \in 2..Top}
      /\ scope.around \subseteq 1..Len(scopes)
  <2>1. {frames[j].scope : j \in 2..Top} \subseteq 1..Len(scopes)
    BY ScopeOf
  <2>2. {frames[j].scope : j \in 2..Top} \in SUBSET Nat
    BY <2>1
  <2> QED BY <2>1, <2>2 DEF ScopeType
<1>. HIDE DEF scope
<1>3. /\ Len(scopes') = i /\ scopes'[i] = scope /\ Len(scopes) \in Nat
      /\ \A s \in 1..Len(scopes) : scopes'[s] = scopes[s]
  BY <1>1, <1>2, Elements, Appended DEF IInv
<1>4. /\ Top' = Top + 1 /\ frames'[Top + 1].scope = i /\ Top \in Nat
      /\ \A j \in 1..Top : frames'[j].scope = frames[j].scope
  <2>1. /\ Top \in Nat /\ frames \in Seq(FrameType) /\ frames[Top] \in FrameType
        /\ Tx.depth + 1 \in Nat
    BY <1>1, Elements DEF IInv, Tx, FrameType
  <2>. DEFINE t == [frames[Top] EXCEPT !.depth = Tx.depth + 1]
  <2>2. t \in FrameType /\ t.scope = frames[Top].scope /\ f = [frames EXCEPT ![Top] = t]
    BY <2>1 DEF FrameType
  <2>3. f \in Seq(FrameType) /\ Len(f) = Top
    BY <2>1, <2>2, Replaced DEF Top
  <2>4. Frame(Tx.depth + 1, i) \in FrameType /\ Frame(Tx.depth + 1, i).scope = i
    BY <1>3, <2>1 DEF Frame, FrameType
  <2>5. \A j \in 1..Top : f[j].scope = frames[j].scope
    BY <2>1, <2>2 DEF Top
  <2>. HIDE DEF f, t
  <2> QED BY <1>1, <2>1, <2>3, <2>4, <2>5, Appended DEF Top
<1>5. Around'
  BY <1>2, <1>3 DEF Fates, Around
<1>6. ASSUME NEW j \in 2..Top' PROVE UnderWay(j)'
  <2>1. CASE j = Top + 1
    <3>1. \A s \in 1..i : ~(s > i)
      BY <1>3
    <3> QED BY <1>2, <1>3, <1>4, <2>1, <3>1 DEF UnderWay
  <2>2. CASE j # Top + 1
    <3>1. j \in 2..Top /\ j \in 1..Top
      BY <1>4, <2>2
    <3>2. frames[j].scope \in 1..Len(scopes) /\ UnderWay(j)
      BY <3>1, ScopeOf DEF Fates
    <3>3. frames[j].scope \in scope.around
      BY <1>2, <3>1
    <3>4. ASSUME NEW s \in 1..i, s > frames[j].scope
          PROVE  frames[j].scope \in scopes'[s].around
      <4>1. CASE s = i
        BY <1>3, <3>3, <4>1
      <4>2. CASE s # i
        BY <1>3, <3>2, <3>4, <4>2 DEF UnderWay
      <4> QED BY <4>1, <4>2
    <3> QED BY <1>3, <1>4, <3>1, <3>2, <3>4 DEF UnderWay
  <2> QED BY <2>1, <2>2
<1>7. Undone'
  <2>1. ASSUME NEW s \in 1..Len(scopes) PROVE Lost(s)' <=> Lost(s)
    <3>1. scopes[s].around \cup {s} \subseteq 1..Len(scopes) /\ scopes'[s] = scopes[s]
      BY <1>3 DEF Fates, Around
    <3> QED BY <1>3, <3>1 DEF Lost
  <2>2. ~Lost(i)'
    <3>1. ASSUME NEW r \in scope.around PROVE scopes'[r].fate = "open"
      <4>1. PICK j \in 2..Top : r = frames[j].scope
        BY <1>2, <3>1
      <4>2. r \in 1..Len(scopes) /\ UnderWay(j)
        BY <4>1, ScopeOf DEF Fates
      <4> QED BY <1>3, <4>1, <4>2 DEF UnderWay
    <3> QED BY <1>2, <1>3, <3>1 DEF Lost
  <2>3. \A s \in 1..i : s \in 1..Len(scopes) \/ s = i
    BY <1>3
  <2>4. undone = {s \in 1..Len(scopes) : Lost(s)} /\ 1..Len(scopes) \subseteq 1..i
    BY <1>3 DEF Fates, Undone
  <2>5. {s \in 1..i : Lost(s)'} = {s \in 1..Len(scopes) : Lost(s)}
    BY <2>1, <2>2, <2>3, <2>4
  <2> QED BY <1>1, <1>3, <2>4, <2>5 DEF Undone
<1> QED BY <1>5, <1>6, <1>7 DEF Fates

\* The innermost Run's scope is settled.
Notes(fate) == scopes' = [scopes EXCEPT ![Tx.scope].fate = fate]

\* A nested Run ends: only if it failed does the server undo anything, and then its
\* scope and all younger ones.
LEMMA EndFates ==
  ASSUME IInv, Fates, Top > 1,
         NEW fate \in {"ok", "failed", "kept", "unsettled", "panicked"},
         frames' = SubSeq(frames, 1, Top - 1),
         Notes(fate),
         undone' = IF fate = "failed" THEN undone \cup (Tx.scope .. Len(scopes)) ELSE undone
  PROVE  Fates'
<1>1. PICK x \in 1..Len(scopes) : x = Tx.scope /\ x = frames[Top].scope
  <2>1. Top \in 2..Top
    BY Elements DEF IInv
  <2> QED BY <2>1, ScopeOf DEF Tx
<1>2. UnderWay(Top) /\ Len(scopes) \in Nat /\ Top \in Nat
  BY Elements DEF IInv, Fates
<1>3. /\ Len(scopes') = Len(scopes)
      /\ \A s \in 1..Len(scopes) : /\ scopes'[s].around = scopes[s].around
                                   /\ scopes'[s].fate = IF s = x THEN fate ELSE scopes[s].fate
  <2>1. Len(scopes') = Len(scopes)
    BY FateNoted DEF IInv, Notes
  <2>. DEFINE t == [scopes[x] EXCEPT !.fate = fate]
  <2>2. scopes' = [scopes EXCEPT ![x] = t]
    BY <1>1 DEF Notes
  <2>3. t.around = scopes[x].around /\ t.fate = fate
    BY <1>1, Elements DEF IInv, ScopeType
  <2>. HIDE DEF t
  <2>4. \A s \in 1..Len(scopes) : scopes'[s] = IF s = x THEN t ELSE scopes[s]
    <3>1. scopes \in Seq(ScopeType) /\ DOMAIN scopes = 1..Len(scopes)
      BY Elements DEF IInv
    <3> QED BY <2>2, <3>1
  <2>5. scopes'[x] = t /\ \A s \in 1..Len(scopes) : s # x => scopes'[s] = scopes[s]
    BY <2>4
  <2>6. scopes'[x].around = scopes[x].around /\ scopes'[x].fate = fate
    BY <2>3, <2>5
  <2> QED BY <2>1, <2>5, <2>6
<1>4. Top' = Top - 1 /\ \A j \in 1..(Top - 1) : frames'[j] = frames[j]
  BY <1>2, Elements, Prefix DEF Top, IInv
<1>5. Around'
  BY <1>3 DEF Fates, Around
<1>6. ASSUME NEW j \in 2..(Top - 1) PROVE UnderWay(j)'
  <2>1. j \in 1..Top /\ Top \in 1..Top /\ j < Top /\ j \in 2..Top /\ j \in 1..(Top - 1)
    BY <1>2
  <2>2. frames[j].scope < x /\ frames[j].scope \in 1..Len(scopes) /\ UnderWay(j)
    BY <1>1, <2>1, ScopeOf DEF IInv, Nested, Fates
  <2> QED BY <1>3, <1>4, <2>1, <2>2 DEF UnderWay
<1>7. ASSUME NEW s \in 1..Len(scopes)
      PROVE  Lost(s)' <=> Lost(s) \/ (fate = "failed" /\ x <= s)
  <2>1. scopes[s].around \subseteq 1..(s - 1) /\ scopes[s].around \cup {s} \subseteq 1..Len(scopes)
    BY DEF Fates, Around
  <2>2. scopes[x].fate = "open"
    BY <1>1, <1>2 DEF UnderWay
  <2>3. Lost(s)' <=> Lost(s) \/ (fate = "failed" /\ x \in scopes[s].around \cup {s})
    BY <1>3, <2>1, <2>2 DEF Lost
  <2>4. x \in scopes[s].around \cup {s} <=> x <= s
    <3>1. x < s => x \in scopes[s].around
      BY <1>1, <1>2 DEF UnderWay
    <3> QED BY <1>1, <2>1, <3>1
  <2> QED BY <2>3, <2>4
<1>8. Undone'
  <2>1. undone = {s \in 1..Len(scopes) : Lost(s)}
    BY DEF Fates, Undone
  <2>2. undone' = {s \in 1..Len(scopes) : Lost(s) \/ (fate = "failed" /\ x <= s)}
    <3>1. x..Len(scopes) = {s \in 1..Len(scopes) : x <= s}
      BY <1>1, <1>2
    <3> QED BY <1>1, <2>1, <3>1
  <2>3. undone' = {s \in 1..Len(scopes) : Lost(s)'}
    BY <1>7, <2>2
  <2> QED BY <1>3, <2>3 DEF Undone
<1> QED BY <1>4, <1>5, <1>6, <1>8 DEF Fates

LEMMA NestedEndFates ==
  ASSUME IInv, Fates, ReleaseSavepoint \/ RollbackToSavepoint \/ NestedPanics
  PROVE  Fates'
<1>1. Top > 1 /\ frames' = SubSeq(frames, 1, Top - 1)
  BY DEF ReleaseSavepoint, RollbackToSavepoint, NestedPanics, Leave
<1>2. conn # "none" => savepoints[Target].scope = Tx.scope
  BY <1>1, OwnFromInvariant DEF IInv, OwnSavepoint
<1>3. CASE ReleaseSavepoint \/ NestedPanics
  <2>1. PICK fate \in {"ok", "unsettled", "panicked"} :
           Notes(fate) /\ undone' = undone
    BY <1>3 DEF ReleaseSavepoint, NestedPanics, Leave, Notes
  <2> QED BY <1>1, <2>1, EndFates
<1>4. CASE RollbackToSavepoint
  <2>1. \/ /\ conn # "none" /\ Notes("failed")
           /\ undone' = undone \cup (savepoints[Target].scope .. Len(scopes))
        \/ Notes("kept") /\ undone' = undone
    BY <1>4 DEF RollbackToSavepoint, Leave, Notes
  <2>2. CASE /\ conn # "none" /\ Notes("failed")
             /\ undone' = undone \cup (savepoints[Target].scope .. Len(scopes))
    BY <1>1, <1>2, <2>2, EndFates
  <2>3. CASE Notes("kept") /\ undone' = undone
    BY <1>1, <2>3, EndFates
  <2> QED BY <2>1, <2>2, <2>3
<1> QED BY <1>3, <1>4

LEMMA FatesStep == IInv /\ Fates /\ [Next]_vars => Fates'
<1>. SUFFICES ASSUME IInv, Fates, [Next]_vars PROVE Fates'
  OBVIOUS
<1>1. CASE Take \/ Panics \/ Rollback \/ Commit
  BY <1>1, LeftFates DEF Take, Panics, PanicRollsBack, Rollback, Commit, NoTx
<1>2. CASE UNCHANGED <<frames, scopes, undone>>
  <2>1. Top' = Top
    BY <1>2 DEF Top
  <2> QED BY <1>2, <2>1, SameFates
<1>3. CASE Begin
  <2>1. CASE UNCHANGED txVars
    BY <2>1, <1>2 DEF txVars
  <2>2. CASE frames' = <<Frame(0, 0)>> /\ UNCHANGED <<scopes, undone>>
    <3>1. Top' = 1
      BY <2>2 DEF Top
    <3> QED BY <2>2, <3>1, SameFates
  <2> QED BY <1>3, <2>1, <2>2 DEF Begin
<1>4. ASSUME NEW i \in 2..Top, ExpireNested(i) PROVE Fates'
  <2>1. /\ frames' = [frames EXCEPT ![i].expired = TRUE] /\ UNCHANGED <<scopes, undone>>
        /\ i \in 1..Top
    BY <1>4, Elements DEF ExpireNested, IInv
  <2>2. Top' = Top
    <3>1. [frames[i] EXCEPT !.expired = TRUE] \in FrameType
      BY <2>1, Elements DEF IInv, FrameType
    <3>2. frames' = [frames EXCEPT ![i] = [frames[i] EXCEPT !.expired = TRUE]]
      BY <2>1
    <3> QED BY <3>1, <3>2, Elements, Replaced DEF IInv, Top
  <2>3. \A j \in 1..Top : frames'[j].scope = frames[j].scope
    <3>1. \A j \in 1..Top : frames[j] \in FrameType
      BY Elements DEF IInv
    <3>2. \A j \in 1..Top :
             frames'[j] = IF j = i THEN [frames[i] EXCEPT !.expired = TRUE] ELSE frames[j]
      BY <2>1, Elements DEF IInv, Top
    <3> QED BY <2>1, <3>1, <3>2 DEF FrameType
  <2>4. \A j \in 2..Top' : j \in 2..Top /\ j \in 1..Top
    BY <2>2, Elements DEF IInv
  <2> QED BY <2>1, <2>3, <2>4, SameFates
<1>5. CASE Run \/ Backoff \/ CtxRollback \/ NestedRefused \/ FnEnds \/ Expire \/ UNCHANGED vars
  BY <1>5, <1>2 DEF Run, Backoff, CtxRollback, NestedRefused, FnEnds, FnGives, Expire,
     vars, txVars
<1> QED BY <1>1, <1>3, <1>4, <1>5, OpenFates, NestedEndFates DEF Next, RunStep, FnEnds, OtherStep

\* A nested Run that fails takes back its own work and that of the Runs inside it, and
\* nothing else ("committing/rolling back only that savepoint", transaction.go:93).
THEOREM ScopedRollbackCorrect == Spec => []ScopedRollback
<1>1. Init => Fates
  BY DEF Init, Fates, Around, UnderWay, Undone, Top
<1>2. Fates /\ IInv => ScopedRollback
  <2>1. SUFFICES ASSUME Fates, IInv PROVE ScopedRollback
    OBVIOUS
  <2>2. DOMAIN scopes = 1..Len(scopes)
    BY <2>1, Elements DEF IInv
  <2> QED BY <2>1, <2>2 DEF Fates, Undone, Lost, ScopedRollback
<1>3. Spec => []Fates
  BY <1>1, FatesStep, Invariance, PTL DEF Spec
<1> QED BY <1>2, <1>3, Invariance, PTL
=============================================================================
