-------------------------- MODULE TerminalsProofs --------------------------
(***************************************************************************)
(* Theorems about Terminals, and the registry of Metadata below it, for    *)
(* any goroutines, model types, size of the pool and length of results.    *)
(***************************************************************************)
EXTENDS Terminals, FiniteSetTheorems, TLAPS

-----------------------------------------------------------------------------
(* The registry.                                                           *)

\* An entry belongs to one type, and only entries without an owner are unused.
Entries ==
    /\ \A t \in Type : snapshot[t] # None => /\ once[snapshot[t]] # "unused"
                                             /\ table[snapshot[t]] \in {None, t}
    /\ \A t, u \in Type : snapshot[t] = snapshot[u] /\ snapshot[t] # None => t = u
    /\ \A e \in Entry : once[e] = "unused" => table[e] = None

\* A type is reflected on when its Once starts, and not before.
Reflections ==
    \A t \in Type :
        /\ reflected[t] \in {0, 1}
        /\ snapshot[t] = None => reflected[t] = 0
        /\ snapshot[t] # None /\ once[snapshot[t]] = "new" => reflected[t] = 0

\* What a goroutine in Compile has at hand: the holder of the lock the current map,
\* without its type, and whoever got an entry the one its type is registered with.
AtHand ==
    \A p \in Proc :
        /\ mpc[p] # "out" => mtype[p] \in Type
        /\ mpc[p] = "publish" => loaded[p] = snapshot /\ snapshot[mtype[p]] = None
        /\ mpc[p] \in {"once", "reflect", "compiled"} =>
              entry[p] # None /\ snapshot[mtype[p]] = entry[p]

MetaInv == MetaTypeOK /\ Entries /\ Reflections /\ AtHand

MetaMoves(p) == (\E t \in Type : Compile(p, t)) \/ MetaStep(p) \/ Leave(p)

LEMMA MetaInitInv == MetaInit => MetaInv
  BY MetadataAssumption DEF MetaInit, EmptyMap, MetaInv, MetaTypeOK, Entries, Reflections, AtHand

\* The invariant gives the property.
LEMMA CompiledFromInvariant == MetaInv => CompiledOnce
  BY DEF MetaInv, MetaTypeOK, Entries, Reflections, AtHand, CompiledOnce

LEMMA MetaNextInv ==
  ASSUME MetaInv, NEW p \in Proc, MetaMoves(p)
  PROVE  MetaInv'
<1>. USE MetadataAssumption DEF MetaInv
<1>1. CASE \E t \in Type : Compile(p, t)
  <2>. PICK t \in Type : Compile(p, t)
    BY <1>1
  <2>1. MetaTypeOK'
    BY DEF Compile, registry, MetaTypeOK
  <2>2. Entries' /\ Reflections'
    BY DEF Compile, registry, Entries, Reflections
  <2>3. AtHand'
    BY DEF Compile, registry, MetaTypeOK, AtHand
  <2> QED
    BY <2>1, <2>2, <2>3
<1>2. CASE LockAndRecheck(p)
  <2>1. MetaTypeOK'
    <3>1. CASE Registered(mtype[p])
      <4>1. /\ mpc[p] = "slow" /\ mpc' = [mpc EXCEPT ![p] = "once"]
            /\ entry' = [entry EXCEPT ![p] = snapshot[mtype[p]]]
            /\ UNCHANGED <<writeMu, loaded, snapshot, once, table, reflected, mtype>>
        BY <1>2, <3>1 DEF LockAndRecheck
      <4>2. snapshot[mtype[p]] \in Entry \cup {None}
        BY <4>1 DEF MetaTypeOK, AtHand
      <4>3. \A q \in Proc : mpc'[q] = "publish" <=> writeMu' = q
        BY <4>1 DEF MetaTypeOK
      <4> QED
        BY <4>1, <4>2, <4>3 DEF MetaTypeOK
    <3>2. CASE ~Registered(mtype[p])
      <4>1. writeMu' = p /\ writeMu = None /\ mpc' = [mpc EXCEPT ![p] = "publish"]
        BY <1>2, <3>2 DEF LockAndRecheck, Unlocked
      <4>2. \A q \in Proc : mpc'[q] = "publish" <=> writeMu' = q
        BY <4>1 DEF MetaTypeOK
      <4> QED
        BY <1>2, <3>2, <4>2 DEF LockAndRecheck, MetaTypeOK
    <3> QED
      BY <3>1, <3>2
  <2>2. Entries' /\ Reflections'
    BY <1>2 DEF LockAndRecheck, Entries, Reflections
  <2>3. AtHand'
    BY <1>2 DEF LockAndRecheck, Unlocked, Registered, MetaTypeOK, AtHand
  <2> QED
    BY <2>1, <2>2, <2>3
<1>3. CASE Publish(p)
  <2>1. PICK e \in Entry : /\ once[e] = "unused"
                           /\ once' = [once EXCEPT ![e] = "new"]
                           /\ snapshot' = [loaded[p] EXCEPT ![mtype[p]] = e]
                           /\ entry' = [entry EXCEPT ![p] = e]
    BY <1>3 DEF Publish
  <2>2. mtype[p] \in Type /\ loaded[p] = snapshot /\ snapshot[mtype[p]] = None
    BY <1>3 DEF Publish, AtHand
  <2>3. \A t \in Type : snapshot'[t] = IF t = mtype[p] THEN e ELSE snapshot[t]
    BY <2>1, <2>2 DEF MetaTypeOK
  <2>4. \A t \in Type : snapshot[t] # e
    BY <2>1 DEF Entries
  <2>5. MetaTypeOK'
    BY <1>3, <2>1, <2>2 DEF Publish, MetaTypeOK, EmptyMap
  <2>6. Entries'
    BY <1>3, <2>1, <2>2, <2>3, <2>4 DEF Publish, MetaTypeOK, Entries
  <2>7. Reflections'
    BY <1>3, <2>1, <2>2, <2>3, <2>4 DEF Publish, MetaTypeOK, Entries, Reflections
  <2>8. AtHand'
    BY <1>3, <2>1, <2>2, <2>3, <2>4 DEF Publish, MetaTypeOK, AtHand
  <2> QED
    BY <2>5, <2>6, <2>7, <2>8
<1>4. CASE OnceDo(p)
  <2>1. mtype[p] \in Type /\ entry[p] \in Entry /\ snapshot[mtype[p]] = entry[p]
    BY <1>4 DEF OnceDo, AtHand, MetaTypeOK
  <2>2. MetaTypeOK'
    <3>1. reflected' \in [Type -> Nat]
      BY <1>4, <2>1 DEF OnceDo, MetaTypeOK
    <3>2. once' \in [Entry -> {"unused", "new", "running", "done"}]
      BY <1>4, <2>1 DEF OnceDo, MetaTypeOK
    <3>3. \A q \in Proc : mpc'[q] = "publish" <=> writeMu' = q
      BY <1>4, <2>1 DEF OnceDo, MetaTypeOK
    <3> QED
      BY <1>4, <3>1, <3>2, <3>3 DEF OnceDo, MetaTypeOK
  <2>3. Entries'
    BY <1>4, <2>1 DEF OnceDo, MetaTypeOK, Entries
  <2>4. Reflections'
    BY <1>4, <2>1 DEF OnceDo, MetaTypeOK, Entries, Reflections
  <2>5. AtHand'
    BY <1>4, <2>1 DEF OnceDo, MetaTypeOK, AtHand
  <2> QED
    BY <2>2, <2>3, <2>4, <2>5
<1>5. CASE CompileStruct(p)
  <2>1. mtype[p] \in Type /\ entry[p] \in Entry /\ snapshot[mtype[p]] = entry[p]
    BY <1>5 DEF CompileStruct, AtHand, MetaTypeOK
  <2>2. MetaTypeOK'
    BY <1>5, <2>1 DEF CompileStruct, MetaTypeOK
  <2>3. Entries'
    BY <1>5, <2>1 DEF CompileStruct, MetaTypeOK, Entries
  <2>4. Reflections'
    BY <1>5, <2>1 DEF CompileStruct, MetaTypeOK, Reflections
  <2>5. AtHand'
    BY <1>5, <2>1 DEF CompileStruct, MetaTypeOK, AtHand
  <2> QED
    BY <2>2, <2>3, <2>4, <2>5
<1>6. CASE Leave(p)
  <2>1. MetaTypeOK'
    BY <1>6 DEF Leave, registry, MetaTypeOK
  <2>2. Entries' /\ Reflections'
    BY <1>6 DEF Leave, registry, Entries, Reflections
  <2>3. AtHand'
    BY <1>6 DEF Leave, registry, MetaTypeOK, AtHand
  <2> QED
    BY <2>1, <2>2, <2>3
<1> QED
  BY <1>1, <1>2, <1>3, <1>4, <1>5, <1>6 DEF MetaMoves, MetaStep

\* Terminals moves the registry through Metadata's actions only.
LEMMA MetaSteps == [Next]_vars => (\E p \in Proc : MetaMoves(p)) \/ UNCHANGED metaVars
<1> SUFFICES ASSUME Next PROVE (\E p \in Proc : MetaMoves(p)) \/ UNCHANGED metaVars
  BY DEF vars
<1>1. CASE AwaitDoneLeaked
  BY <1>1 DEF AwaitDoneLeaked
<1>2. ASSUME NEW p \in Proc, NEW o \in Queries \cup Writes, NEW t \in Type, Call(p, o, t)
      PROVE  MetaMoves(p)
  BY <1>2 DEF Call, MetaMoves
<1>3. ASSUME NEW p \in Proc, CallStep(p)
      PROVE  MetaMoves(p) \/ UNCHANGED metaVars
  BY <1>3 DEF CallStep, Modelling, Modelled, Prepare, Connect, Execute, AfterExecute,
              AfterCreate, ScanPlan, ReadOne, ReadRow, EndRows, MetaMoves
<1>4. ASSUME NEW p \in Proc, Expire(p) \/ AwaitDone(p) \/ Take(p)
      PROVE  UNCHANGED metaVars
  BY <1>4 DEF Expire, AwaitDone, Take
<1> QED
  BY <1>1, <1>2, <1>3, <1>4 DEF Next

\* Reflection happens at most once per model type, and every goroutine that gets past
\* the registry has the one entry its type is registered with (metadata.go:4).
THEOREM OneTablePerType == Spec => []CompiledOnce
<1>1. Init => MetaInv
  BY MetaInitInv DEF Init
<1>2. MetaInv /\ UNCHANGED metaVars => MetaInv'
  BY DEF metaVars, registry, MetaInv, MetaTypeOK, Entries, Reflections, AtHand
<1>3. MetaInv /\ [Next]_vars => MetaInv'
  BY <1>2, MetaSteps, MetaNextInv
<1> QED
  BY <1>1, <1>3, CompiledFromInvariant, PTL DEF Spec
-----------------------------------------------------------------------------
(* The calls.                                                              *)

Outcome == {"ok", "err", "norows", "panic"}

CallType ==
    /\ phase \in [Proc -> Phase]
    /\ op \in [Proc -> Queries \cup Writes \cup {"none"}]
    /\ stmt \in [Proc -> {"none", "ok", "err"}]
    /\ observed \in [Proc -> {<<>>, <<"ok">>, <<"err">>}]
    /\ rows \in [Proc -> {"none", "open", "closed", "failed"}]
    /\ left \in [Proc -> Nat]
    /\ decoded \in [Proc -> BOOLEAN]
    /\ result \in [Proc -> Outcome \cup {"none"}]

\* What has happened to p's statement, and what the plugins know of it.
Heard(p) ==
    /\ phase[p] \in {"idle", "model", "prepare", "connect", "execute"} =>
          stmt[p] = "none" /\ observed[p] = <<>>
    /\ phase[p] = "after" => stmt[p] # "none" /\ observed[p] = <<>>
    /\ phase[p] \in {"afterCreate", "scanPlan", "scan"} =>
          stmt[p] = "ok" /\ observed[p] = <<"ok">>
    /\ phase[p] = "done" /\ result[p] # "panic" =>
          observed[p] = IF stmt[p] = "none" THEN <<>> ELSE <<stmt[p]>>

\* When rows are open, and what has been read of them.
Reading(p) ==
    /\ phase[p] # "idle" => op[p] # "none"
    /\ phase[p] = "afterCreate" => op[p] = "create"
    /\ phase[p] = "scanPlan" => op[p] \in {"find", "first"}
    /\ phase[p] = "scan" => op[p] \in Queries
    /\ rows[p] = "open" =>
          op[p] \in Queries /\ stmt[p] = "ok"
          /\ phase[p] \in {"after", "scanPlan", "scan", "done"}
    /\ phase[p] \notin {"scan", "done"} => ~decoded[p]
    /\ phase[p] = "scan" /\ op[p] = "first" => ~decoded[p]

\* What holds of a call that has returned.
Returned(p) ==
    /\ result[p] # "none" <=> phase[p] = "done"
    /\ phase[p] = "done" /\ rows[p] = "open" =>
          result[p] = "panic" /\ (op[p] = "first" \/ ~decoded[p])
    /\ result[p] = "ok" /\ op[p] = "find" => left[p] = 0
    /\ result[p] = "ok" /\ op[p] = "first" => decoded[p]
    /\ result[p] = "ok" /\ op[p] = "count" => decoded[p] \/ left[p] = 0
    /\ result[p] = "norows" => left[p] = 0 /\ ~decoded[p]

CallOK(p) == Heard(p) /\ Reading(p) /\ Returned(p)
CallInv == CallType /\ \A p \in Proc : CallOK(p)

LEMMA CallInitInv == Init => CallInv
  BY DEF Init, CallInv, CallType, CallOK, Heard, Reading, Returned, Phase, Outcome

\* The invariant gives the properties.
LEMMA PropertiesFromInvariant == CallInv => ConnsReturned /\ WholeResult /\ HooksPaired
<1> SUFFICES ASSUME CallInv PROVE ConnsReturned /\ WholeResult /\ HooksPaired
  OBVIOUS
<1>1. ConnsReturned /\ WholeResult
  BY DEF CallInv, CallOK, Returned, ConnsReturned, WholeResult
<1>2. HooksPaired
  BY DEF CallInv, CallOK, Heard, Returned, HooksPaired
<1> QED
  BY <1>1, <1>2

\* A step that changes the variables of p's call at p only concerns nobody else.
Others(p) ==
    \A q \in Proc \ {p} :
        /\ phase'[q] = phase[q] /\ op'[q] = op[q] /\ stmt'[q] = stmt[q]
        /\ observed'[q] = observed[q] /\ rows'[q] = rows[q] /\ left'[q] = left[q]
        /\ decoded'[q] = decoded[q] /\ result'[q] = result[q]

LEMMA OnlyOwn ==
  ASSUME CallInv, NEW p \in Proc, Others(p), CallType', CallOK(p)'
  PROVE  CallInv'
  BY DEF CallInv, Others, CallOK, Heard, Reading, Returned

\* Every action of a call keeps the invariant.
LEMMA CallNextInv ==
  ASSUME CallInv, NEW p \in Proc,
         \/ \E o \in Queries \cup Writes, t \in Type : Call(p, o, t)
         \/ CallStep(p) \/ Expire(p) \/ AwaitDone(p) \/ Take(p)
  PROVE  CallInv'
<1>. USE DEF Queries, Writes
<1>1. CallType /\ CallOK(p)
  BY DEF CallInv
<1>2. CASE \E o \in Queries \cup Writes, t \in Type : Call(p, o, t)
  <2>1. CallType'
    BY <1>1, <1>2, TerminalsAssumption DEF Call, Goto, CallType, CallOK, Heard, Phase, Outcome
  <2>2. CallOK(p)'
    BY <1>1, <1>2 DEF Call, Goto, CallType, CallOK, Heard, Reading, Returned
  <2>3. Others(p)
    BY <1>1, <1>2 DEF Call, Goto, CallType, Others
  <2> QED
    BY <2>1, <2>2, <2>3, OnlyOwn
<1>3. CASE Modelled(p)
  <2>1. CallType'
    BY <1>1, <1>3, TerminalsAssumption DEF Modelled, End, Goto, CallType, CallOK, Heard, Phase, Outcome
  <2>2. CallOK(p)'
    BY <1>1, <1>3 DEF Modelled, End, Goto, CallType, CallOK, Heard, Reading, Returned
  <2>3. Others(p)
    BY <1>1, <1>3 DEF Modelled, End, Goto, CallType, Others
  <2> QED
    BY <2>1, <2>2, <2>3, OnlyOwn
<1>4. CASE Prepare(p)
  <2>1. CallType'
    <3>1. phase' \in [Proc -> Phase]
      BY <1>1, <1>4 DEF Prepare, End, Goto, CallType, Phase
    <3>2. result' \in [Proc -> Outcome \cup {"none"}]
      BY <1>1, <1>4 DEF Prepare, End, Goto, CallType, Outcome
    <3> QED
      BY <1>1, <1>4, <3>1, <3>2 DEF Prepare, End, Goto, CallType
  <2>2. CallOK(p)'
    BY <1>1, <1>4 DEF Prepare, End, Goto, CallType, CallOK, Heard, Reading, Returned
  <2>3. Others(p)
    BY <1>1, <1>4 DEF Prepare, End, Goto, CallType, Others
  <2> QED
    BY <2>1, <2>2, <2>3, OnlyOwn
<1>5. CASE Connect(p)
  <2>1. CallType'
    BY <1>1, <1>5, TerminalsAssumption DEF Connect, Goto, CallType, CallOK, Heard, Phase, Outcome
  <2>2. CallOK(p)'
    BY <1>1, <1>5 DEF Connect, Goto, CallType, CallOK, Heard, Reading, Returned
  <2>3. Others(p)
    BY <1>1, <1>5 DEF Connect, Goto, CallType, Others
  <2> QED
    BY <2>1, <2>2, <2>3, OnlyOwn
<1>6. CASE Execute(p)
  <2>1. CallType'
    <3>1. phase' \in [Proc -> Phase]
      BY <1>1, <1>6 DEF Execute, Goto, CallType, Phase
    <3>2. stmt' \in [Proc -> {"none", "ok", "err"}]
      BY <1>1, <1>6 DEF Execute, Goto, CallType
    <3>3. rows' \in [Proc -> {"none", "open", "closed", "failed"}]
      BY <1>1, <1>6 DEF Execute, Goto, CallType
    <3>4. left' \in [Proc -> Nat]
      BY <1>1, <1>6, TerminalsAssumption DEF Execute, Goto, CallType
    <3> QED
      BY <1>1, <1>6, <3>1, <3>2, <3>3, <3>4 DEF Execute, Goto, CallType
  <2>2. CallOK(p)'
    BY <1>1, <1>6 DEF Execute, Goto, CallType, CallOK, Heard, Reading, Returned
  <2>3. Others(p)
    BY <1>1, <1>6 DEF Execute, Goto, CallType, Others
  <2> QED
    BY <2>1, <2>2, <2>3, OnlyOwn
<1>7. CASE AfterExecute(p)
  <2>1. CallType'
    <3>1. phase' \in [Proc -> Phase]
      <4>1. op[p] \in Queries \cup Writes
        BY <1>1, <1>7 DEF AfterExecute, CallType, CallOK, Reading
      <4>2. \E at \in Phase : phase' = [phase EXCEPT ![p] = at]
        BY <1>7, <4>1 DEF AfterExecute, End, Goto, Phase
      <4> QED
        BY <1>1, <4>2 DEF CallType
    <3>2. observed' \in [Proc -> {<<>>, <<"ok">>, <<"err">>}]
      <4>1. observed[p] = <<>> /\ stmt[p] \in {"ok", "err"}
        BY <1>1, <1>7 DEF AfterExecute, CallType, CallOK, Heard
      <4>2. Append(observed[p], stmt[p]) \in {<<"ok">>, <<"err">>}
        BY <4>1
      <4>3. observed' = [observed EXCEPT ![p] = Append(observed[p], stmt[p])]
        BY <1>7 DEF AfterExecute, Hears
      <4> QED
        BY <1>1, <4>2, <4>3 DEF CallType
    <3>3. result' \in [Proc -> Outcome \cup {"none"}]
      BY <1>1, <1>7 DEF AfterExecute, Hears, End, Goto, CallType, Outcome
    <3> QED
      BY <1>1, <1>7, <3>1, <3>2, <3>3 DEF AfterExecute, Hears, End, Goto, CallType
  <2>2. CallOK(p)'
    BY <1>1, <1>7 DEF AfterExecute, Hears, End, Goto, CallType, CallOK, Heard, Reading, Returned
  <2>3. Others(p)
    BY <1>1, <1>7 DEF AfterExecute, Hears, End, Goto, CallType, Others
  <2> QED
    BY <2>1, <2>2, <2>3, OnlyOwn
<1>8. CASE AfterCreate(p)
  <2>1. CallType'
    BY <1>1, <1>8, TerminalsAssumption DEF AfterCreate, End, Goto, CallType, CallOK, Heard, Phase, Outcome
  <2>2. CallOK(p)'
    BY <1>1, <1>8 DEF AfterCreate, End, Goto, CallType, CallOK, Heard, Reading, Returned
  <2>3. Others(p)
    BY <1>1, <1>8 DEF AfterCreate, End, Goto, CallType, Others
  <2> QED
    BY <2>1, <2>2, <2>3, OnlyOwn
<1>9. CASE ScanPlan(p)
  <2>1. CallType'
    BY <1>1, <1>9, TerminalsAssumption DEF ScanPlan, Close, End, Goto, CallType, CallOK, Heard, Phase, Outcome
  <2>2. CallOK(p)'
    BY <1>1, <1>9 DEF ScanPlan, Close, End, Goto, CallType, CallOK, Heard, Reading, Returned
  <2>3. Others(p)
    BY <1>1, <1>9 DEF ScanPlan, Close, End, Goto, CallType, Others
  <2> QED
    BY <2>1, <2>2, <2>3, OnlyOwn
<1>10. CASE ReadOne(p)
  <2>1. CallType'
    <3>1. phase' \in [Proc -> Phase]
      BY <1>1, <1>10 DEF ReadOne, Close, End, Goto, CallType, Phase
    <3>2. rows' \in [Proc -> {"none", "open", "closed", "failed"}]
      BY <1>1, <1>10 DEF ReadOne, Close, End, Goto, CallType
    <3>3. left' \in [Proc -> Nat]
      BY <1>1, <1>10, TerminalsAssumption DEF ReadOne, Close, End, Goto, CallType
    <3>4. decoded' \in [Proc -> BOOLEAN]
      BY <1>1, <1>10 DEF ReadOne, Close, End, Goto, CallType
    <3>5. result' \in [Proc -> Outcome \cup {"none"}]
      BY <1>1, <1>10 DEF ReadOne, Close, End, Goto, CallType, Outcome
    <3> QED
      BY <1>1, <1>10, <3>1, <3>2, <3>3, <3>4, <3>5 DEF ReadOne, Close, End, Goto, CallType
  <2>2. CallOK(p)'
    BY <1>1, <1>10 DEF ReadOne, Close, End, Goto, CallType, CallOK, Heard, Reading, Returned
  <2>3. Others(p)
    BY <1>1, <1>10 DEF ReadOne, Close, End, Goto, CallType, Others
  <2> QED
    BY <2>1, <2>2, <2>3, OnlyOwn
<1>11. CASE ReadRow(p)
  <2>1. CallType'
    <3>1. phase' \in [Proc -> Phase]
      <4>1. phase' = phase \/ phase' = [phase EXCEPT ![p] = "done"]
        BY <1>11 DEF ReadRow, End, Goto
      <4> QED
        BY <1>1, <4>1 DEF CallType, Phase
    <3>2. rows' \in [Proc -> {"none", "open", "closed", "failed"}]
      BY <1>1, <1>11 DEF ReadRow, CloseDeferred, ClosesDeferred, Close, End, Goto, CallType
    <3>3. left' \in [Proc -> Nat]
      BY <1>1, <1>11, TerminalsAssumption DEF ReadRow, CloseDeferred, ClosesDeferred, Close, End, Goto, CallType
    <3>4. decoded' \in [Proc -> BOOLEAN]
      BY <1>1, <1>11 DEF ReadRow, CloseDeferred, ClosesDeferred, Close, End, Goto, CallType
    <3>5. result' \in [Proc -> Outcome \cup {"none"}]
      BY <1>1, <1>11 DEF ReadRow, CloseDeferred, ClosesDeferred, Close, End, Goto, CallType, Outcome
    <3> QED
      BY <1>1, <1>11, <3>1, <3>2, <3>3, <3>4, <3>5 DEF ReadRow, CloseDeferred, ClosesDeferred, Close, End, Goto, CallType
  <2>2. CallOK(p)'
    BY <1>1, <1>11 DEF ReadRow, CloseDeferred, ClosesDeferred, Close, End, Goto, CallType, CallOK, Heard, Reading, Returned
  <2>3. Others(p)
    BY <1>1, <1>11 DEF ReadRow, CloseDeferred, ClosesDeferred, Close, End, Goto, CallType, Others
  <2> QED
    BY <2>1, <2>2, <2>3, OnlyOwn
<1>12. CASE EndRows(p)
  <2>1. CallType'
    BY <1>1, <1>12, TerminalsAssumption DEF EndRows, RowsErr, CloseDeferred, ClosesDeferred, Close, End, Goto, CallType, CallOK, Heard, Phase, Outcome
  <2>2. CallOK(p)'
    <3>1. PICK failed \in BOOLEAN :
             /\ failed \/ left[p] = 0 \/ (op[p] = "count" /\ decoded[p])
             /\ IF failed THEN rows' = [rows EXCEPT ![p] = "failed"]
                ELSE IF op[p] = "count" /\ decoded[p] THEN CloseDeferred(p)
                ELSE Close(p)
             /\ End(p, IF RowsErr(failed) THEN "err"
                       ELSE IF op[p] = "first" THEN "norows" ELSE "ok")
      BY <1>12 DEF EndRows
    <3>2. phase[p] = "scan" /\ UNCHANGED <<op, stmt, observed, left, decoded>>
      BY <1>12 DEF EndRows
    <3>3. rows'[p] # "open"
      <4>1. \/ rows' = [rows EXCEPT ![p] = "failed"]
            \/ rows' = [rows EXCEPT ![p] = IF @ = "open" THEN "closed" ELSE @]
        BY <3>1 DEF CloseDeferred, ClosesDeferred, Close
      <4> QED
        BY <1>1, <4>1 DEF CallType
    <3>4. /\ phase'[p] = "done"
          /\ result'[p] = IF failed THEN "err" ELSE IF op[p] = "first" THEN "norows" ELSE "ok"
      BY <1>1, <3>1 DEF RowsErr, End, Goto, CallType
    <3>5. Heard(p)' /\ Reading(p)'
      BY <1>1, <3>2, <3>3, <3>4 DEF CallOK, Heard, Reading
    <3>6. Returned(p)'
      BY <1>1, <3>1, <3>2, <3>3, <3>4 DEF CallOK, Reading, Returned
    <3> QED
      BY <3>5, <3>6 DEF CallOK
  <2>3. Others(p)
    BY <1>1, <1>12 DEF EndRows, RowsErr, CloseDeferred, ClosesDeferred, Close, End, Goto, CallType, Others
  <2> QED
    BY <2>1, <2>2, <2>3, OnlyOwn
<1>13. CASE AwaitDone(p)
  <2>1. CallType'
    BY <1>1, <1>13, TerminalsAssumption DEF AwaitDone, CallType, CallOK, Heard, Phase, Outcome
  <2>2. CallOK(p)'
    BY <1>1, <1>13 DEF AwaitDone, CallType, CallOK, Heard, Reading, Returned
  <2>3. Others(p)
    BY <1>1, <1>13 DEF AwaitDone, CallType, Others
  <2> QED
    BY <2>1, <2>2, <2>3, OnlyOwn
<1>14. CASE Take(p)
  <2>1. CallType'
    BY <1>1, <1>14, TerminalsAssumption DEF Take, Goto, CallType, CallOK, Heard, Phase, Outcome
  <2>2. CallOK(p)'
    BY <1>1, <1>14 DEF Take, Goto, CallType, CallOK, Heard, Reading, Returned
  <2>3. Others(p)
    BY <1>1, <1>14 DEF Take, Goto, CallType, Others
  <2> QED
    BY <2>1, <2>2, <2>3, OnlyOwn
<1>15. CASE Modelling(p) \/ Expire(p)
  BY <1>15 DEF Modelling, Expire, callVars, CallInv, CallType, CallOK, Heard, Reading, Returned
<1> QED
  BY <1>2, <1>3, <1>4, <1>5, <1>6, <1>7, <1>8, <1>9, <1>10, <1>11, <1>12, <1>13, <1>14, <1>15 DEF CallStep

LEMMA CallInvKept == CallInv /\ [Next]_vars => CallInv'
<1> SUFFICES ASSUME CallInv, [Next]_vars PROVE CallInv'
  OBVIOUS
<1>1. UNCHANGED callVars => CallInv'
  BY DEF callVars, CallInv, CallType, CallOK, Heard, Reading, Returned
<1>2. CASE AwaitDoneLeaked \/ UNCHANGED vars
  BY <1>1, <1>2 DEF AwaitDoneLeaked, vars
<1> QED
  BY <1>2, CallNextInv DEF Next

\* No call that returned holds a connection, unless it panicked where no Close is
\* deferred (execution/executor.go:253, orm/query.go:182).
THEOREM ConnectionsReturned == Spec => []ConnsReturned
  BY CallInitInv, CallInvKept, PropertiesFromInvariant, PTL DEF Spec

\* A result is whole, or an error is returned (scanner/scanner.go:628).
THEOREM NoPartialResult == Spec => []WholeResult
  BY CallInitInv, CallInvKept, PropertiesFromInvariant, PTL DEF Spec

\* Each statement given to the executor is reported to the plugins once, with its
\* outcome, by a call that returns (orm/query.go:165).
THEOREM ObservedOnce == Spec => []HooksPaired
  BY CallInitInv, CallInvKept, PropertiesFromInvariant, PTL DEF Spec
-----------------------------------------------------------------------------
(* The pool.  Its connections are lent to the calls at the server or with  *)
(* open rows, and to the rows of calls that panicked: counting them takes  *)
(* the calls' set to be finite, for any number of goroutines.              *)

Holders == {p \in Proc : phase[p] = "execute" \/ rows[p] = "open"}

PoolInv ==
    /\ IsFiniteSet(Holders)
    /\ leaked \in Nat
    /\ InUse <= MaxOpen
    /\ expired \in [Proc -> BOOLEAN]
    /\ left \in [Proc -> 0..MaxRows]

LEMMA PoolInitInv == Init => PoolInv
<1> SUFFICES ASSUME Init PROVE PoolInv
  OBVIOUS
<1>1. Holders = {} /\ leaked = 0
  BY DEF Init, Holders
<1>2. IsFiniteSet(Holders) /\ InUse = 0
  BY <1>1, FS_EmptySet DEF InUse, Holders
<1>3. left \in [Proc -> 0..MaxRows] /\ expired \in [Proc -> BOOLEAN]
  BY TerminalsAssumption DEF Init
<1> QED
  BY <1>1, <1>2, <1>3, TerminalsAssumption DEF PoolInv

\* Nobody starts to hold a connection.
LEMMA NoneAcquired ==
  ASSUME PoolInv, Holders' \subseteq Holders, leaked' = leaked
  PROVE  IsFiniteSet(Holders') /\ leaked' \in Nat /\ InUse' <= MaxOpen
<1>1. IsFiniteSet(Holders') /\ Cardinality(Holders') <= Cardinality(Holders)
  BY FS_Subset DEF PoolInv
<1>2. Cardinality(Holders) \in Nat /\ Cardinality(Holders') \in Nat
  BY <1>1, FS_CardinalityType DEF PoolInv
<1>3. InUse = Cardinality(Holders) + leaked /\ InUse' = Cardinality(Holders') + leaked'
  BY DEF InUse, Holders
<1> QED
  BY <1>1, <1>2, <1>3, TerminalsAssumption DEF PoolInv

\* A step of p's leaves p without a connection, or had it before.
LEMMA OwnOnly ==
  ASSUME PoolInv, NEW p \in Proc, leaked' = leaked,
         \A q \in Proc \ {p} : phase'[q] = phase[q] /\ rows'[q] = rows[q],
         phase'[p] = "execute" \/ rows'[p] = "open" => phase[p] = "execute" \/ rows[p] = "open"
  PROVE  IsFiniteSet(Holders') /\ leaked' \in Nat /\ InUse' <= MaxOpen
<1>1. Holders' \subseteq Holders
  BY DEF Holders
<1> QED
  BY <1>1, NoneAcquired

\* A step of a call that gets no connection from the pool.
LEMMA NoConnection ==
  ASSUME CallInv, PoolInv, NEW p \in Proc,
         \/ \E o \in Queries \cup Writes, t \in Type : Call(p, o, t)
         \/ Modelled(p) \/ Prepare(p) \/ Execute(p) \/ AfterExecute(p) \/ AfterCreate(p)
         \/ ScanPlan(p) \/ ReadOne(p) \/ ReadRow(p) \/ EndRows(p) \/ AwaitDone(p)
  PROVE  /\ IsFiniteSet(Holders') /\ leaked' \in Nat /\ InUse' <= MaxOpen
         /\ expired' = expired
<1>. USE DEF CallType
<1>1. CallType
  BY DEF CallInv
<1>2. CASE \E o \in Queries \cup Writes, t \in Type : Call(p, o, t)
  BY <1>1, <1>2, OwnOnly DEF Call, Goto
<1>3. CASE Modelled(p)
  BY <1>1, <1>3, OwnOnly DEF Modelled, End, Goto
<1>4. CASE Prepare(p)
  BY <1>1, <1>4, OwnOnly DEF Prepare, End, Goto
<1>5. CASE Execute(p)
  BY <1>1, <1>5, OwnOnly DEF Execute, Goto
<1>6. CASE AfterExecute(p)
  <2>1. \E at \in Phase \ {"execute"} : phase' = [phase EXCEPT ![p] = at]
    <3>1. op[p] \in {"find", "first", "count", "create", "update"}
      BY <1>1, <1>6 DEF AfterExecute, CallInv, CallOK, Reading, Queries, Writes
    <3> QED
      BY <1>6, <3>1 DEF AfterExecute, End, Goto, Phase
  <2>2. rows' = rows /\ leaked' = leaked /\ expired' = expired
    BY <1>6 DEF AfterExecute
  <2> QED
    BY <1>1, <2>1, <2>2, OwnOnly
<1>7. CASE AfterCreate(p)
  BY <1>1, <1>7, OwnOnly DEF AfterCreate, End, Goto
<1>8. CASE ScanPlan(p)
  BY <1>1, <1>8, OwnOnly DEF ScanPlan, Close, End, Goto
<1>9. CASE ReadOne(p)
  BY <1>1, <1>9, OwnOnly DEF ReadOne, Close, End, Goto
<1>10. CASE ReadRow(p)
  BY <1>1, <1>10, OwnOnly DEF ReadRow, CloseDeferred, Close, End, Goto
<1>11. CASE EndRows(p)
  BY <1>1, <1>11, OwnOnly DEF EndRows, CloseDeferred, Close, End, Goto
<1>12. CASE AwaitDone(p)
  BY <1>1, <1>12, OwnOnly DEF AwaitDone
<1> QED
  BY <1>2, <1>3, <1>4, <1>5, <1>6, <1>7, <1>8, <1>9, <1>10, <1>11, <1>12

\* What the pool lends to one call more fits in it.
LEMMA ConnectFits ==
  ASSUME CallInv, PoolInv, NEW p \in Proc, Connect(p)
  PROVE  IsFiniteSet(Holders') /\ leaked' \in Nat /\ InUse' <= MaxOpen
<1>1. CallType /\ phase[p] = "connect" /\ rows' = rows /\ leaked' = leaked
  BY DEF CallInv, Connect
<1>2. CASE phase' = [phase EXCEPT ![p] = "after"]
  BY <1>1, <1>2, OwnOnly DEF CallType
<1>3. CASE InUse < MaxOpen /\ phase' = [phase EXCEPT ![p] = "execute"]
  <2>1. p \notin Holders
    BY <1>1 DEF Holders, CallInv, CallOK, Reading
  <2>2. Holders' = Holders \cup {p}
    BY <1>1, <1>3 DEF Holders, CallType
  <2>3. IsFiniteSet(Holders') /\ Cardinality(Holders') = Cardinality(Holders) + 1
    BY <2>1, <2>2, FS_AddElement DEF PoolInv
  <2>4. InUse = Cardinality(Holders) + leaked /\ InUse' = Cardinality(Holders') + leaked'
    BY DEF InUse, Holders
  <2>5. Cardinality(Holders) \in Nat
    BY FS_CardinalityType DEF PoolInv
  <2> QED
    BY <1>1, <1>3, <2>3, <2>4, <2>5, TerminalsAssumption DEF PoolInv
<1> QED
  BY <1>2, <1>3 DEF Connect, Goto

\* Rows that a panic left open stay lent when their call is over.
LEMMA TakeFits ==
  ASSUME CallInv, PoolInv, NEW p \in Proc, Take(p)
  PROVE  IsFiniteSet(Holders') /\ leaked' \in Nat /\ InUse' <= MaxOpen
<1>1. /\ CallType /\ phase[p] = "done"
      /\ phase' = [phase EXCEPT ![p] = "idle"] /\ rows' = [rows EXCEPT ![p] = "none"]
      /\ leaked' = IF rows[p] = "open" THEN leaked + 1 ELSE leaked
  BY DEF CallInv, Take, Goto
<1>2. CASE rows[p] # "open"
  BY <1>1, <1>2, OwnOnly DEF CallType
<1>3. CASE rows[p] = "open"
  <2>1. p \in Holders /\ Holders' = Holders \ {p}
    BY <1>1, <1>3 DEF Holders, CallType
  <2>2. IsFiniteSet(Holders') /\ Cardinality(Holders') = Cardinality(Holders) - 1
    BY <2>1, FS_RemoveElement DEF PoolInv
  <2>3. InUse = Cardinality(Holders) + leaked /\ InUse' = Cardinality(Holders') + leaked'
    BY DEF InUse, Holders
  <2>4. Cardinality(Holders) \in Nat
    BY FS_CardinalityType DEF PoolInv
  <2> QED
    BY <1>1, <1>3, <2>2, <2>3, <2>4, TerminalsAssumption DEF PoolInv
<1> QED
  BY <1>2, <1>3

\* Rows are read, never added to.
LEMMA RowsLeft ==
  ASSUME CallInv, PoolInv, NEW p \in Proc,
         \/ \E o \in Queries \cup Writes, t \in Type : Call(p, o, t)
         \/ CallStep(p) \/ Expire(p) \/ AwaitDone(p) \/ Take(p)
  PROVE  left' \in [Proc -> 0..MaxRows]
<1>1. left \in [Proc -> 0..MaxRows] /\ CallType
  BY DEF PoolInv, CallInv
<1>2. \/ left' = left
      \/ \E n \in 0..MaxRows : left' = [left EXCEPT ![p] = n]
      \/ left[p] > 0 /\ left' = [left EXCEPT ![p] = left[p] - 1]
  <2>1. CASE Execute(p)
    BY <2>1 DEF Execute
  <2>2. CASE ReadOne(p) \/ ReadRow(p)
    BY <2>2 DEF ReadOne, ReadRow
  <2>3. CASE Take(p)
    <3>1. 0 \in 0..MaxRows /\ left' = [left EXCEPT ![p] = 0]
      BY <2>3, TerminalsAssumption DEF Take
    <3> QED
      BY <3>1
  <2>4. CASE Modelling(p)
    BY <2>4 DEF Modelling, callVars
  <2>5. CASE \/ \E o \in Queries \cup Writes, t \in Type : Call(p, o, t)
             \/ Modelled(p) \/ Prepare(p) \/ Connect(p) \/ AfterExecute(p) \/ AfterCreate(p)
             \/ ScanPlan(p) \/ EndRows(p) \/ Expire(p) \/ AwaitDone(p)
    BY <2>5 DEF Call, Modelled, Prepare, Connect, AfterExecute, AfterCreate, ScanPlan,
                EndRows, Expire, AwaitDone
  <2> QED
    BY <2>1, <2>2, <2>3, <2>4, <2>5 DEF CallStep
<1>3. left[p] \in 0..MaxRows /\ (left[p] > 0 => left[p] - 1 \in 0..MaxRows)
  BY <1>1, TerminalsAssumption
<1> QED
  BY <1>1, <1>2, <1>3

LEMMA PoolNextInv == CallInv /\ PoolInv /\ [Next]_vars => PoolInv'
<1> SUFFICES ASSUME CallInv, PoolInv, [Next]_vars PROVE PoolInv'
  OBVIOUS
<1>1. CASE UNCHANGED vars
  BY <1>1 DEF vars, callVars, PoolInv, Holders, InUse
<1>2. CASE AwaitDoneLeaked
  <2>1. /\ Holders' = Holders /\ leaked > 0 /\ leaked' = leaked - 1
        /\ expired' = expired /\ left' = left
    BY <1>2 DEF AwaitDoneLeaked, callVars, Holders
  <2>2. InUse = Cardinality(Holders) + leaked /\ InUse' = Cardinality(Holders') + leaked'
    BY DEF InUse, Holders
  <2>3. Cardinality(Holders) \in Nat
    BY FS_CardinalityType DEF PoolInv
  <2> QED
    BY <2>1, <2>2, <2>3, TerminalsAssumption DEF PoolInv
<1>3. ASSUME NEW p \in Proc,
             \/ \E o \in Queries \cup Writes, t \in Type : Call(p, o, t)
             \/ CallStep(p) \/ Expire(p) \/ AwaitDone(p) \/ Take(p)
      PROVE  PoolInv'
  <2>1. left' \in [Proc -> 0..MaxRows]
    BY <1>3, RowsLeft
  <2>2. /\ IsFiniteSet(Holders') /\ leaked' \in Nat /\ InUse' <= MaxOpen
        /\ expired' \in [Proc -> BOOLEAN]
    <3>1. CASE Connect(p)
      BY <3>1, ConnectFits DEF Connect, PoolInv
    <3>2. CASE Take(p)
      BY <3>2, TakeFits DEF Take, PoolInv
    <3>3. CASE Expire(p)
      BY <3>3, NoneAcquired DEF Expire, Holders, PoolInv
    <3>4. CASE Modelling(p)
      BY <3>4, NoneAcquired DEF Modelling, callVars, Holders, PoolInv
    <3> QED
      BY <1>3, <3>1, <3>2, <3>3, <3>4, NoConnection DEF CallStep, PoolInv
  <2> QED
    BY <2>1, <2>2 DEF PoolInv
<1> QED
  BY <1>1, <1>2, <1>3 DEF Next

LEMMA TypesFromInvariants == MetaInv /\ CallInv /\ PoolInv => TypeOK
<1> SUFFICES ASSUME MetaInv, CallInv, PoolInv PROVE TypeOK
  OBVIOUS
<1>1. MetaTypeOK /\ CallType
  BY DEF MetaInv, CallInv
<1>2. \A p \in Proc : observed[p] \in Seq({"ok", "err"})
  <2>1. {<<>>, <<"ok">>, <<"err">>} \subseteq Seq({"ok", "err"})
    OBVIOUS
  <2> QED
    BY <1>1, <2>1 DEF CallType
<1> QED
  BY <1>1, <1>2 DEF CallType, PoolInv, TypeOK, Outcome

\* Every variable keeps its type, and the pool never lends more connections than
\* MaxOpenConns, those of rows that a panic left open among them.
THEOREM TypesCorrect == Spec => []TypeOK
<1>1. Init => MetaInv
  BY MetaInitInv DEF Init
<1>2. MetaInv /\ UNCHANGED metaVars => MetaInv'
  BY DEF metaVars, registry, MetaInv, MetaTypeOK, Entries, Reflections, AtHand
<1>3. MetaInv /\ [Next]_vars => MetaInv'
  BY <1>2, MetaSteps, MetaNextInv
<1> QED
  BY <1>1, <1>3, CallInitInv, CallInvKept, PoolInitInv, PoolNextInv, TypesFromInvariants, PTL
     DEF Spec
=============================================================================
