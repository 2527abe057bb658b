---------------------------- MODULE MCPlanCache ----------------------------
(***************************************************************************)
(* PlanCache over the pipeline of QueryPlan, with three lists of builders: *)
(* shapes for which sharing a plan is sound, each with several values, and *)
(* two of the shapes for which it is not.  A behaviour uses two builders   *)
(* (inUse): that is what it takes for a call to get a compiled query or a  *)
(* scan plan which is not its own.                                         *)
(***************************************************************************)
EXTENDS QueryPlan, PlanCache

Rows == New("t")
Eq(c, v)     == Pred(c, "=", <<v>>)
In(c, vs)    == Pred(c, "IN", vs)
IsNull(c)    == Pred(c, "IS NULL", <<>>)
Between(c, lo, hi) == Pred(c, "BETWEEN", <<lo, hi>>)
Asc(c)  == [col |-> c, desc |-> FALSE]
Desc(c) == [col |-> c, desc |-> TRUE]
Set(c, v) == [col |-> c, val |-> v]

\* Predicates that reach the SQL in the order the builder has them, others that the
\* passes move or drop but which bind nothing, every statement and every clause.
ByValue(v) ==
    <<Where(Rows, Eq("a", v)),
      Where(Select(Rows, <<"b">>), Eq("a", v)),
      Where(Rows, In("a", <<v, "9">>)),
      Where(Where(Rows, Eq("a", v)), Eq("a", "9")),
      Where(Where(Rows, IsNull("b")), Eq("a", v)),
      Where(Rows, Group("OR", <<Eq("b", v), Group("AND", <<Eq("a", "9")>>)>>)),
      Having(Where(Join(Rows, "JOIN", "u", Eq("b", v)), Eq("a", "9")), Eq("c", v)),
      Where(Update(Rows, <<Set("b", v)>>), Between("a", "1", v)),
      Delete(Where(Rows, Group("NOT", <<Raw("c", <<v>>)>>))),
      Insert(Rows, <<Set("a", v), Set("b", "9")>>),
      Upsert(Rows, <<Set("a", v)>>, <<"a">>, <<"b">>)>>

Plain ==
    <<Where(Select(Rows, <<"c">>), Eq("a", "1")),
      Where(Where(Rows, IsNull("a")), IsNull("a")),
      OrderBy(Rows, <<Asc("a"), Desc("b"), Desc("a")>>),
      Offset(Limit(GroupBy([Rows EXCEPT !.distinct = TRUE], <<"c">>), "1"), "2")>>

InTenant(x) == <<[Where(Rows, Eq("a", "1")) EXCEPT !.tenant = x]>>

SoundRequests ==
    ByValue("1") \o ByValue("2") \o Plain \o InTenant("t1") \o InTenant("t2")

\* where b = 2 and a = 1, as a caller may write it.
ReorderedRequests == <<Where(Where(Rows, Eq("b", "2")), Eq("a", "1"))>>

\* Two pages of the same size.
PagedRequests == <<Offset(Limit(Rows, "1"), "0"), Offset(Limit(Rows, "1"), "1")>>

CONSTANT Builders  \* one of the three lists

\* In a state a builder is a number, and so is the compiled query it gives; a key is
\* the number of the first builder that has it.  The tables are computed once.
First(f, i) == CHOOSE j \in DOMAIN f : f[j] = f[i] /\ \A k \in 1..(j - 1) : f[k] # f[i]

Plans     == Each(Builders, Compile)
Hashes    == Each(Builders, PreHash)
CacheKeys == Each(Plans, LAMBDA c : c.cacheKey)
ShapeTable     == [i \in DOMAIN Builders |-> First(Hashes, i)]
ScanKeyTable   == [i \in DOMAIN Builders |-> First(CacheKeys, i)]
ColumnTable    == Each(Plans, ResultColumns)
AskedTable     == Each(Builders, Asked)
StatementTable == [i, j \in DOMAIN Builders |-> Statement(Builders[i], Plans[j])]

Numbers          == DOMAIN Builders
ShapeNr(i)       == ShapeTable[i]
CompiledNr(i)    == i
ScanKeyNr(i)     == ScanKeyTable[i]
ColumnsNr(i)     == ColumnTable[i]
ExecutesNr(i, j) == StatementTable[i, j]
AsksNr(i)        == AskedTable[i]
IsSelect(i)      == Builders[i].kind = "select"
HasTenant(i)     == Builders[i].tenant # ""

VARIABLE inUse

MCInit ==
    /\ Init
    /\ inUse \in {{q, r} : q, r \in Request}
    /\ pluginsCacheSafe => \A r \in inUse : ~RequestScoped(r)

MCNext ==
    /\ \E p \in Proc :
          \/ \E r \in inUse : Call(p, r)
          \/ CompileAlone(p) \/ Lookup(p) \/ CompileShared(p)
          \/ Execute(p) \/ ScanPlan(p) \/ StorePlan(p) \/ Return(p)
    /\ UNCHANGED inUse

MCSpec == MCInit /\ [][MCNext]_<<vars, inUse>>
=============================================================================
