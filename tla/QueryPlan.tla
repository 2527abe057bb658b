----------------------------- MODULE QueryPlan -----------------------------
(***************************************************************************)
(* The compile pipeline as functions: what a query.Builder holds (pkg/     *)
(* query), its cache key (compiler.PreHash), the logical plan (planner.    *)
(* Build), the optimizer passes that rewrite it, the SQL rendered from it  *)
(* and the arguments taken from the builder (pkg/sqlgen).                  *)
(*                                                                         *)
(* A hash is the token sequence fed to it; a plan is its chain of nodes,   *)
(* root first; a SQL text is a record of its clauses with "?" for a value. *)
(* Names and values are strings; values that print alike are one value.    *)
(* CTEs, unions, preloads, the cursor and aliases are left out, and so is  *)
(* the LIMIT pass: Build never nests two LIMIT nodes.                      *)
(***************************************************************************)
EXTENDS Integers, FiniteSets, SequencesExt

\* Names in byte order, for the keys that are compared.
Lexicon == <<"=", ">=", "AND", "BETWEEN", "IN", "IS NULL", "NOT", "OR", "a", "b", "c">>
Rank(name) == CHOOSE i \in DOMAIN Lexicon : Lexicon[i] = name

\* Expressions: a predicate, an AND/OR/NOT group, a raw fragment, or none.
NoExpr     == [is |-> "nil", name |-> "", op |-> "", val |-> <<>>, sub |-> <<>>]
Pred(c, o, v) == [NoExpr EXCEPT !.is = "pred", !.name = c, !.op = o, !.val = v]
Group(o, s) == [NoExpr EXCEPT !.is = "group", !.op = o, !.sub = s]
Raw(text, v) == [NoExpr EXCEPT !.is = "raw", !.name = text, !.val = v]

And(s) == IF Len(s) = 1 THEN s[1] ELSE Group("AND", s)

\* query.New and the builder methods; limit and offset are empty or hold a value.
New(table) ==
    [kind |-> "select", table |-> table, distinct |-> FALSE, selects |-> <<>>,
     joins |-> <<>>, where |-> NoExpr, groupBy |-> <<>>, having |-> NoExpr,
     orderBy |-> <<>>, limit |-> <<>>, offset |-> <<>>, lock |-> "",
     assignments |-> <<>>, conflict |-> <<>>, updateCols |-> <<>>, tenant |-> ""]

AndAlso(old, e) == IF old = NoExpr THEN e ELSE And(<<old, e>>)
Where(q, e)    == [q EXCEPT !.where = AndAlso(q.where, e)]
Having(q, e)   == [q EXCEPT !.having = AndAlso(q.having, e)]
Select(q, cs)  == [q EXCEPT !.selects = @ \o cs]
Join(q, k, t, on) == [q EXCEPT !.joins = Append(@, [kind |-> k, table |-> t, on |-> on])]
GroupBy(q, cs) == [q EXCEPT !.groupBy = @ \o cs]
OrderBy(q, ts) == [q EXCEPT !.orderBy = @ \o ts]
Limit(q, n)    == [q EXCEPT !.limit = <<n>>]
Offset(q, n)   == [q EXCEPT !.offset = <<n>>]
Insert(q, as)  == [q EXCEPT !.kind = "insert", !.assignments = as]
Update(q, as)  == [q EXCEPT !.kind = "update", !.assignments = as]
Delete(q)      == [q EXCEPT !.kind = "delete"]
Upsert(q, as, target, cols) ==
    [q EXCEPT !.kind = "upsert", !.assignments = as, !.conflict = target, !.updateCols = cols]

Each(s, Op(_)) == [i \in DOMAIN s |-> Op(s[i])]
Flat(s, Op(_)) == FlattenSeq(Each(s, Op))
-----------------------------------------------------------------------------
(* Cache keys: shape without values.                                       *)

RECURSIVE ExprShape(_)
ExprShape(e) ==
    CASE e.is = "nil"   -> <<"0">>
      [] e.is = "pred"  -> <<"p", e.name, e.op>>
      [] e.is = "group" -> <<"l", e.op, "(">> \o Flat(e.sub, ExprShape) \o <<")">>
      [] e.is = "raw"   -> <<"r", e.name>>

Flag(b) == IF b THEN <<"1">> ELSE <<"0">>
TermShape(t) == <<t.col>> \o Flag(t.desc)

\* compiler.PreHash, from the builder alone.
PreHash(q) ==
    <<q.table, q.kind>> \o Flag(q.distinct) \o q.selects
    \o Flat(q.joins, LAMBDA j : <<j.kind, j.table>> \o ExprShape(j.on))
    \o ExprShape(q.where) \o q.groupBy \o ExprShape(q.having)
    \o Flat(q.orderBy, TermShape)
    \o Flag(q.limit # <<>>) \o Flag(q.offset # <<>>)
    \o Each(q.assignments, LAMBDA a : a.col) \o <<q.lock>>
    \o IF q.kind = "upsert" THEN <<"on">> \o q.conflict \o q.updateCols ELSE <<>>
-----------------------------------------------------------------------------
(* planner.Build                                                           *)

Node(kind) ==
    [kind |-> kind, table |-> "", join |-> "", on |-> NoExpr, pred |-> NoExpr,
     groupBy |-> <<>>, having |-> NoExpr, projections |-> <<>>, orderBy |-> <<>>,
     limit |-> <<>>, offset |-> <<>>, assignments |-> <<>>, lock |-> ""]

NodeIf(condition, n) == IF condition THEN <<n>> ELSE <<>>

SelectChain(q) ==
    NodeIf(q.limit # <<>> \/ q.offset # <<>>,
           [Node("limit") EXCEPT !.limit = q.limit, !.offset = q.offset])
    \o NodeIf(q.orderBy # <<>>, [Node("sort") EXCEPT !.orderBy = q.orderBy])
    \o NodeIf(q.distinct, Node("distinct"))
    \o NodeIf(q.selects # <<>>, [Node("project") EXCEPT !.projections = q.selects])
    \o NodeIf(q.groupBy # <<>> \/ q.having # NoExpr,
              [Node("aggregate") EXCEPT !.groupBy = q.groupBy, !.having = q.having])
    \o NodeIf(q.where # NoExpr, [Node("filter") EXCEPT !.pred = q.where])
    \o Each(Reverse(q.joins), LAMBDA j :
              [Node("join") EXCEPT !.join = j.kind, !.table = j.table, !.on = j.on])
    \o <<[Node("scan") EXCEPT !.table = q.table]>>

Build(q) ==
    IF q.kind = "select" THEN [SelectChain(q) EXCEPT ![1].lock = q.lock]
    ELSE <<[Node(q.kind) EXCEPT
              !.table = q.table,
              !.assignments = IF q.kind = "delete" THEN <<>> ELSE q.assignments,
              !.pred = IF q.kind \in {"update", "delete"} THEN q.where ELSE NoExpr]>>

\* A request-scoped plugin (external): its BeforePlan points the plan at the
\* table of the tenant the request's context names.
BeforePlan(q, plan) ==
    IF q.tenant = "" THEN plan ELSE [plan EXCEPT ![Len(plan)].table = q.tenant]
-----------------------------------------------------------------------------
(* pkg/optimizer: the passes of DefaultPipeline that change anything.      *)

\* A group of one is its child, at every level.
RECURSIVE SimplifyExpr(_)
SimplifyExpr(e) ==
    IF e.is # "group" THEN e
    ELSE LET kids == [i \in DOMAIN e.sub |-> SimplifyExpr(e.sub[i])]
         IN  IF Len(kids) = 1 /\ e.op \in {"AND", "OR"} THEN kids[1]
             ELSE [e EXCEPT !.sub = kids]

Simplified(plan) ==
    Each(plan, LAMBDA n : [n EXCEPT !.pred = SimplifyExpr(@), !.having = SimplifyExpr(@)])

\* exprKey: names and structure, the kind of a value and an IN list's length.
ValueTag(e) ==
    CASE e.op = "IS NULL" -> <<78>>
      [] e.op = "IN"      -> <<73, Len(e.val)>>
      [] e.op = "BETWEEN" -> <<66>>
      [] OTHER            -> <<83>>

RECURSIVE ExprKey(_)
ExprKey(e) ==
    CASE e.is = "nil"   -> <<110>>
      [] e.is = "pred"  -> <<112, Rank(e.name), Rank(e.op)>> \o ValueTag(e)
      [] e.is = "group" -> <<108, Rank(e.op), 28>> \o Flat(e.sub, ExprKey) \o <<29>>
      [] e.is = "raw"   -> <<114, Rank(e.name)>>

\* exprIdentityKey is as fine as the expression itself, exprKey is coarser.
IdentityByShape(e) == ExprKey(e)  \* mutant: values are not part of the key
Identity(e) == e

DedupeAnd(e) ==
    [e EXCEPT !.sub =
        LET first == {i \in DOMAIN @ : \A j \in 1..(i - 1) : Identity(@[j]) # Identity(@[i])}
            kept  == SetToSortSeq(first, <)
        IN  [i \in DOMAIN kept |-> @[kept[i]]]]

\* Insertion sort: stable, by exprKey in byte order.
Below(s, t) ==
    \/ IsStrictPrefix(s, t)
    \/ \E i \in DOMAIN s \cap DOMAIN t :
          s[i] < t[i] /\ \A j \in 1..(i - 1) : s[j] = t[j]

SortExprs(e) ==
    [e EXCEPT !.sub =
        LET order == SetToSortSeq(DOMAIN @, LAMBDA i, j :
                        \/ Below(ExprKey(@[i]), ExprKey(@[j]))
                        \/ ExprKey(@[i]) = ExprKey(@[j]) /\ i < j)
        IN  [i \in DOMAIN order |-> @[order[i]]]]

\* Both act on the AND group a node's predicate is, and not below it.
OnAnd(n) == n.pred.is = "group" /\ n.pred.op = "AND"

Deduped(plan) ==
    Each(plan, LAMBDA n : IF OnAnd(n) THEN [n EXCEPT !.pred = DedupeAnd(@)] ELSE n)
Canonical(plan) ==
    Each(plan, LAMBDA n : IF OnAnd(n) THEN [n EXCEPT !.pred = SortExprs(@)] ELSE n)

\* ORDER BY keeps a column's first term.
FirstTerms(terms) ==
    LET first == {i \in DOMAIN terms : \A j \in 1..(i - 1) : terms[j].col # terms[i].col}
        kept  == SetToSortSeq(first, <)
    IN  [i \in DOMAIN kept |-> terms[kept[i]]]
TermsDeduped(plan) == Each(plan, LAMBDA n : [n EXCEPT !.orderBy = FirstTerms(@)])

Optimize(plan) == Canonical(TermsDeduped(Deduped(Simplified(plan))))

\* compiler.structuralHash of the optimized plan: no join kind, no ON condition.
HashWithoutProjections(plan) ==  \* mutant: the projections are not hashed
    Flat(plan, LAMBDA n : <<n.kind, n.table>> \o ExprShape(n.pred) \o ExprShape(n.having))
StructuralHash(plan) ==
    Flat(plan, LAMBDA n :
        <<n.kind, n.table>> \o ExprShape(n.pred) \o ExprShape(n.having) \o n.groupBy
        \o Flat(n.orderBy, TermShape) \o Flag(n.limit # <<>>) \o Flag(n.offset # <<>>)
        \o n.projections)

\* compiler.Compile: the optimized plan, values and all, and the scan plan's key.
Compile(q) ==
    LET plan == Optimize(BeforePlan(q, Build(q)))
    IN  [plan |-> plan, cacheKey |-> StructuralHash(plan)]
-----------------------------------------------------------------------------
(* pkg/sqlgen                                                              *)

RECURSIVE ArgsOf(_)
ArgsOf(e) == IF e.is = "group" THEN Flat(e.sub, ArgsOf) ELSE e.val

RECURSIVE Blank(_)
Blank(e) ==
    [e EXCEPT !.val = Each(@, LAMBDA v : "?"),
              !.sub = [i \in DOMAIN @ |-> Blank(@[i])]]

\* flatten: the node of a kind, the joins in their original order.
Part(plan, kind) ==
    IF \E i \in DOMAIN plan : plan[i].kind = kind
    THEN plan[CHOOSE i \in DOMAIN plan : plan[i].kind = kind] ELSE Node(kind)
JoinsOf(plan) == Reverse(SelectSeq(plan, LAMBDA n : n.kind = "join"))
SetTo(a) == Pred(a.col, "=", <<a.val>>)

\* The statement of a plan: clauses lists what binds values, in the order the text
\* numbers its placeholders; an upsert renders as an insert.
StatementOf(plan) ==
    LET root == plan[1]
        select == root.kind \notin {"insert", "update", "delete", "upsert"}
        joins == JoinsOf(plan)
    IN  [verb |-> CASE select -> "select" [] root.kind = "upsert" -> "insert"
                    [] OTHER -> root.kind,
         table |-> IF select THEN Part(plan, "scan").table ELSE root.table,
         joins |-> Each(joins, LAMBDA n : <<n.join, n.table>>),
         distinct |-> Part(plan, "distinct") \in ToSet(plan),
         selects |-> Part(plan, "project").projections,
         groupBy |-> Part(plan, "aggregate").groupBy,
         orderBy |-> Part(plan, "sort").orderBy,
         limit |-> Part(plan, "limit").limit, offset |-> Part(plan, "limit").offset,
         lock |-> root.lock,
         clauses |-> Each(root.assignments, SetTo) \o Each(joins, LAMBDA n : n.on)
                     \o <<IF select THEN Part(plan, "filter").pred ELSE root.pred,
                          Part(plan, "aggregate").having>>]

\* GenerateSQL, once per compiled query: the same with a "?" for every value.
SQL(cq) == [StatementOf(cq.plan) EXCEPT !.clauses = Each(@, Blank)]

\* ExtractArgsFromBuilder reads this call's builder, not the shared plan.
ArgsOfPlan(q, cq) ==  \* mutant: the values of the call that compiled the plan
    Flat(StatementOf(cq.plan).clauses, ArgsOf)
ExtractArgs(q, cq) ==
    CASE q.kind \in {"insert", "upsert"} -> Each(q.assignments, LAMBDA a : a.val)
      [] q.kind = "update" -> Each(q.assignments, LAMBDA a : a.val) \o ArgsOf(q.where)
      [] q.kind = "delete" -> ArgsOf(q.where)
      [] OTHER -> Flat(q.joins, LAMBDA j : ArgsOf(j.on)) \o ArgsOf(q.where) \o ArgsOf(q.having)

\* The columns of the result: what is projected, or all of the tables' columns.
ResultColumns(cq) ==
    LET s == StatementOf(cq.plan)
    IN  IF s.selects # <<>> THEN s.selects ELSE <<s.table>> \o Each(s.joins, LAMBDA j : j[2])
-----------------------------------------------------------------------------
(* What a statement says to the server, and what the builder says.         *)

\* Each "?" takes the next argument.
RECURSIVE Fill(_, _)
Fill(e, args) ==
    IF e.is # "group" THEN [e EXCEPT !.val = args]
    ELSE LET holes == [i \in DOMAIN e.sub |-> Len(ArgsOf(e.sub[i]))]
             from(i) == FoldLeft(+, 0, SubSeq(holes, 1, i - 1))
         IN  [e EXCEPT !.sub = [i \in DOMAIN @ |->
                 Fill(@[i], SubSeq(args, from(i) + 1, from(i) + holes[i]))]]

Filled(clauses, args) == Fill(Group("", clauses), args).sub

\* AND and OR do not depend on the order of their operands, nor on how often one
\* is repeated or how they nest; a later term of an ORDER BY column changes nothing.
RECURSIVE Meaning(_)
Meaning(e) ==
    IF e.is # "group" THEN [e EXCEPT !.sub = {}]
    ELSE LET kids == {Meaning(e.sub[i]) : i \in DOMAIN e.sub}
             same == {k \in kids : k.is = "group" /\ k.op = e.op}
             all  == (kids \ same) \cup UNION {k.sub : k \in same}
         IN  IF e.op \in {"AND", "OR"}
             THEN IF Cardinality(all) = 1 THEN CHOOSE k \in all : TRUE
                                          ELSE [e EXCEPT !.sub = all]
             ELSE [e EXCEPT !.sub = kids]

Said(s) == [s EXCEPT !.clauses = Each(@, Meaning), !.orderBy = FirstTerms(@)]

\* The server refuses a statement with too few or too many arguments.
Refused == "refused"
Bound(sql, args) ==
    IF Len(args) # Len(Flat(sql.clauses, ArgsOf)) THEN [sql EXCEPT !.verb = Refused]
    ELSE Said([sql EXCEPT !.clauses = Filled(@, args)])

\* What runs when the call with builder q is given the compiled query cq.
Statement(q, cq) == Bound(SQL(cq), ExtractArgs(q, cq))

\* The builder's own words, field by field; an upsert's clause is not rendered.
Asked(q) ==
    Said([verb |-> IF q.kind = "upsert" THEN "insert" ELSE q.kind,
          table |-> IF q.tenant = "" THEN q.table ELSE q.tenant,
          joins |-> Each(q.joins, LAMBDA j : <<j.kind, j.table>>),
          distinct |-> q.distinct, selects |-> q.selects, groupBy |-> q.groupBy,
          orderBy |-> q.orderBy, limit |-> q.limit, offset |-> q.offset, lock |-> q.lock,
          clauses |-> Each(q.assignments, SetTo) \o Each(q.joins, LAMBDA j : j.on)
                      \o <<q.where, q.having>>])
=============================================================================
