----------------------------- MODULE PlanCache -----------------------------
(***************************************************************************)
(* The two caches of orm.DB and the calls that go through them (pkg/orm/   *)
(* query.go): a call hashes its builder, takes the compiled query of that  *)
(* shape from compiledCache or compiles it, runs the SQL of the compiled   *)
(* query with the arguments of its own builder, and scans the rows with a  *)
(* plan from scanPlanCache.  Calls of many goroutines interleave between   *)
(* the caches' critical sections.                                          *)
(*                                                                         *)
(* The pipeline is a parameter (module QueryPlan gives it), so that what   *)
(* sharing costs can be told from what the pipeline does.  A cache is what *)
(* module LRU provides: one flight per key, and an entry may be evicted    *)
(* whenever another is stored.                                             *)
(***************************************************************************)
CONSTANTS Proc, None,
          Request,         \* builders, each with what the call's context adds
          Shape(_),        \* compiler.PreHash
          Compiled(_),     \* compiler.Compile
          ScanKey(_),      \* CompiledQuery.CacheKey
          Columns(_),      \* the columns a compiled query's statement returns
          Executes(_, _),  \* what a request runs when given a compiled query
          Asks(_),         \* what its builder says
          Reads(_),        \* rows are scanned
          RequestScoped(_) \* a plugin rewrites the plan from the call's context

Shapes     == {Shape(r) : r \in Request}
Compilable == {Compiled(r) : r \in Request}
ScanKeys   == {ScanKey(c) : c \in Compilable}
ScanPlans  == {Columns(c) : c \in Compilable}

ASSUME PlanCacheAssumption ==
    /\ None \notin Proc /\ None \notin Request
    /\ None \notin Compilable /\ None \notin ScanPlans

VARIABLES pluginsCacheSafe,  \* db.pluginsCacheSafe, fixed by Open
          compiledCache,     \* shape -> compiled query
          inflight,          \* shape -> the goroutine that compiles it
          scanPlanCache,     \* CacheKey -> scan plan
          phase, request,    \* where a call is, and its builder
          cq,                \* its compiled query
          sent,              \* what it had the server run
          plan               \* the scan plan it uses

vars == <<pluginsCacheSafe, compiledCache, inflight, scanPlanCache,
          phase, request, cq, sent, plan>>

Init ==
    /\ pluginsCacheSafe \in BOOLEAN
    /\ compiledCache = [s \in Shapes |-> None]
    /\ inflight = [s \in Shapes |-> None]
    /\ scanPlanCache = [k \in ScanKeys |-> None]
    /\ phase = [p \in Proc |-> "idle"]
    /\ request = [p \in Proc |-> None]
    /\ cq = [p \in Proc |-> None]
    /\ sent = [p \in Proc |-> None]
    /\ plan = [p \in Proc |-> None]

Goes(p, where) == phase' = [phase EXCEPT ![p] = where]
Key(p) == Shape(request[p])

\* Storing under k may evict another entry.
Stored(cache, k, v) ==
    {[cache EXCEPT ![k] = v]} \cup
    {[cache EXCEPT ![k] = v, ![j] = None] : j \in DOMAIN cache \ {k}}
-----------------------------------------------------------------------------
\* Find, First, Count, Create, UpdateAll or Delete.  IsCacheSafe is false as soon
\* as one plugin of the chain is request-scoped.
CallIgnoringScope(p, r) ==  \* mutant: a request-scoped plugin is not noticed
    /\ phase[p] = "idle"
    /\ Goes(p, "compile")
    /\ request' = [request EXCEPT ![p] = r]
    /\ UNCHANGED <<pluginsCacheSafe, compiledCache, inflight, scanPlanCache, cq, sent, plan>>
Call(p, r) ==
    /\ phase[p] = "idle"
    /\ pluginsCacheSafe => ~RequestScoped(r)
    /\ Goes(p, "compile")
    /\ request' = [request EXCEPT ![p] = r]
    /\ UNCHANGED <<pluginsCacheSafe, compiledCache, inflight, scanPlanCache, cq, sent, plan>>

\* compileCached without the cache.
CompileAlone(p) ==
    /\ phase[p] = "compile" /\ ~pluginsCacheSafe
    /\ \/ cq' = [cq EXCEPT ![p] = Compiled(request[p])] /\ Goes(p, "execute")
       \/ Goes(p, "returned") /\ UNCHANGED cq   \* BeforePlan's error
    /\ UNCHANGED <<pluginsCacheSafe, compiledCache, inflight, scanPlanCache,
                   request, sent, plan>>

Hit(p) ==
    /\ compiledCache[Key(p)] # None
    /\ cq' = [cq EXCEPT ![p] = compiledCache[Key(p)]]
    /\ Goes(p, "execute")
    /\ UNCHANGED inflight

Await(p) ==
    /\ compiledCache[Key(p)] = None /\ inflight[Key(p)] # None
    /\ Goes(p, "wait")
    /\ UNCHANGED <<cq, inflight>>

Lead(p) ==
    /\ compiledCache[Key(p)] = None /\ inflight[Key(p)] = None
    /\ inflight' = [inflight EXCEPT ![Key(p)] = p]
    /\ Goes(p, "lead")
    /\ UNCHANGED cq

\* compiledCache.GetOrComputeNoTouch
Lookup(p) ==
    /\ phase[p] = "compile" /\ pluginsCacheSafe
    /\ Hit(p) \/ Await(p) \/ Lead(p)
    /\ UNCHANGED <<pluginsCacheSafe, compiledCache, scanPlanCache, request, sent, plan>>

Waiters(p) == {q \in Proc : phase[q] = "wait" /\ Key(q) = Key(p)}

\* Those who get the leader's result.
ServedLeader(p) == {p}  \* mutant: the waiters wake up without it
Served(p) == {p} \cup Waiters(p)

\* The leader's compile ends: everyone on this flight gets its plan, or its error.
CompileShared(p) ==
    /\ phase[p] = "lead"
    /\ inflight' = [inflight EXCEPT ![Key(p)] = None]
    /\ \/ LET c == Compiled(request[p])
          IN  /\ compiledCache' \in Stored(compiledCache, Key(p), c)
              /\ cq' = [q \in Proc |-> IF q \in Served(p) THEN c ELSE cq[q]]
              /\ phase' = [q \in Proc |->
                    IF q \in {p} \cup Waiters(p) THEN "execute" ELSE phase[q]]
       \/ /\ phase' = [q \in Proc |->
                IF q \in {p} \cup Waiters(p) THEN "returned" ELSE phase[q]]
          /\ UNCHANGED <<compiledCache, cq>>
    /\ UNCHANGED <<pluginsCacheSafe, scanPlanCache, request, sent, plan>>

\* Arguments, SQL text, and the executor; its errors end the call.
Execute(p) ==
    /\ phase[p] = "execute"
    /\ sent' = [sent EXCEPT ![p] = Executes(request[p], cq[p])]
    /\ \/ Goes(p, "scan") /\ Reads(request[p])
       \/ Goes(p, "returned")
    /\ UNCHANGED <<pluginsCacheSafe, compiledCache, inflight, scanPlanCache,
                   request, cq, plan>>

\* scanPlanCache.GetNoTouch; on a miss the plan is made from the rows' columns ...
ScanPlan(p) ==
    /\ phase[p] = "scan"
    /\ LET cached == scanPlanCache[ScanKey(cq[p])]
       IN  \/ /\ cached # None
              /\ plan' = [plan EXCEPT ![p] = cached]
              /\ Goes(p, "returned")
           \/ /\ cached = None
              /\ plan' = [plan EXCEPT ![p] = Columns(cq[p])]
              /\ Goes(p, "store")
    /\ UNCHANGED <<pluginsCacheSafe, compiledCache, inflight, scanPlanCache,
                   request, cq, sent>>

\* ... and Set, whatever others have stored meanwhile.
StorePlan(p) ==
    /\ phase[p] = "store"
    /\ scanPlanCache' \in Stored(scanPlanCache, ScanKey(cq[p]), plan[p])
    /\ Goes(p, "returned")
    /\ UNCHANGED <<pluginsCacheSafe, compiledCache, inflight, request, cq, sent, plan>>

Return(p) ==
    /\ phase[p] = "returned"
    /\ Goes(p, "idle")
    /\ request' = [request EXCEPT ![p] = None]
    /\ cq' = [cq EXCEPT ![p] = None]
    /\ sent' = [sent EXCEPT ![p] = None]
    /\ plan' = [plan EXCEPT ![p] = None]
    /\ UNCHANGED <<pluginsCacheSafe, compiledCache, inflight, scanPlanCache>>

Next ==
    \E p \in Proc :
        \/ \E r \in Request : Call(p, r)
        \/ CompileAlone(p) \/ Lookup(p) \/ CompileShared(p)
        \/ Execute(p) \/ ScanPlan(p) \/ StorePlan(p) \/ Return(p)

Spec == Init /\ [][Next]_vars
-----------------------------------------------------------------------------
(* Properties.                                                             *)

\* Every variable has its type, and a call past compilation has a compiled query.
TypeOK ==
    /\ pluginsCacheSafe \in BOOLEAN
    /\ compiledCache \in [Shapes -> Compilable \cup {None}]
    /\ inflight \in [Shapes -> Proc \cup {None}]
    /\ scanPlanCache \in [ScanKeys -> ScanPlans \cup {None}]
    /\ phase \in [Proc -> {"idle", "compile", "wait", "lead", "execute", "scan",
                           "store", "returned"}]
    /\ request \in [Proc -> Request \cup {None}]
    /\ cq \in [Proc -> Compilable \cup {None}]
    /\ plan \in [Proc -> ScanPlans \cup {None}]
    /\ \A p \in Proc : phase[p] # "idle" => request[p] # None
    /\ \A p \in Proc : phase[p] \in {"execute", "scan", "store"} => cq[p] # None

\* A call has the server run what its own builder says, with its own values and in
\* its own tenant's scope, although the compiled query it uses is another call's.
RunsOwnQuery == \A p \in Proc : sent[p] # None => sent[p] = Asks(request[p])

\* Rows are scanned with a plan for exactly the columns the statement returns,
\* although plans are shared by a key that is computed from something else.
ScanPlanFits == \A p \in Proc : plan[p] # None => plan[p] = Columns(cq[p])
=============================================================================
