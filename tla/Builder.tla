------------------------------ MODULE Builder ------------------------------
(***************************************************************************)
(* The slices of a pkg/query builder, with their backing arrays.  A        *)
(* builder is a Go value: every method copies it, and with it the header   *)
(* (array, length) of each slice field.  The methods that add to a field   *)
(* append to the slice of the builder they were called on.  One field is   *)
(* modelled, groupBy; selects, joins, orderBy, ctes, unions and preloads   *)
(* are appended to by the same statement.  QueryPlan has the builders as   *)
(* values, which is what they are as long as Immutable holds.              *)
(***************************************************************************)
EXTENDS Naturals, SequencesExt

CONSTANTS Handle,   \* the variables a program keeps builders in
          Root,     \* the one that holds New's result
          Col,      \* column names
          Array,    \* backing arrays append may allocate
          None,     \* no array, no builder, an empty cell
          MaxCols   \* bound: columns of one GroupBy call

VARIABLES cells,    \* a backing array's elements, as many as its capacity
          slice,    \* a builder's groupBy header; None: no builder there yet
          built     \* history: the columns the calls that led to a builder gave

vars == <<cells, slice, built>>

Nil == [array |-> None, len |-> 0]

Init ==
    /\ cells = [a \in Array |-> <<>>]
    /\ slice = [h \in Handle |-> IF h = Root THEN Nil ELSE None]
    /\ built = [h \in Handle |-> <<>>]
-----------------------------------------------------------------------------
Capacity(s) == IF s.array = None THEN 0 ELSE Len(cells[s.array])
Content(s)  == IF s.array = None THEN <<>> ELSE SubSeq(cells[s.array], 1, s.len)

\* What append allocates for a slice of strings that outgrew its array: twice the
\* capacity, or as many as it needs.  (Up to eight strings the allocator's size
\* classes are multiples of one string, so that nothing is rounded up.)
Grown(old, needed) == IF needed > 2 * old THEN needed ELSE 2 * old

Fits(s, cols) == s.len + Len(cols) <= Capacity(s)

\* Room in the array: append writes behind the slice's end, in place.
AppendInPlace(from, to, cols) ==
    LET s == slice[from]
    IN  /\ Fits(s, cols)
        /\ cells' = [cells EXCEPT ![s.array] =
                        [i \in DOMAIN @ |-> IF i \in s.len + 1 .. s.len + Len(cols)
                                            THEN cols[i - s.len] ELSE @[i]]]
        /\ slice' = [slice EXCEPT ![to] = [s EXCEPT !.len = @ + Len(cols)]]

\* No room: append copies to a new array.
AppendToCopy(from, to, cols) ==
    LET s == slice[from]
        content == Content(s) \o cols
        spare == Grown(Capacity(s), Len(content)) - Len(content)
    IN  /\ ~Fits(s, cols)
        /\ \E a \in Array : cells[a] = <<>>
        /\ LET a == CHOOSE fresh \in Array : cells[fresh] = <<>>
           IN  /\ cells' = [cells EXCEPT ![a] = content \o [i \in 1..spare |-> None]]
               /\ slice' = [slice EXCEPT ![to] = [array |-> a, len |-> Len(content)]]

\* to := from.GroupBy(cols...)
GroupBy(from, to, cols) ==
    /\ slice[from] # None /\ slice[to] = None
    /\ AppendInPlace(from, to, cols) \/ AppendToCopy(from, to, cols)
    /\ built' = [built EXCEPT ![to] = built[from] \o cols]

\* to := from.Limit(n), or any method that leaves the slices alone: clone.
Clone(from, to) ==
    /\ slice[from] # None /\ slice[to] = None
    /\ slice' = [slice EXCEPT ![to] = slice[from]]
    /\ built' = [built EXCEPT ![to] = built[from]]
    /\ UNCHANGED cells

Next ==
    \E from, to \in Handle :
        \/ \E cols \in SeqOf(Col, MaxCols) \ {<<>>} : GroupBy(from, to, cols)
        \/ Clone(from, to)

Spec == Init /\ [][Next]_vars
-----------------------------------------------------------------------------
\* "no pointer aliasing, no shared mutable state.  This is what makes instances safe
\* to branch, cache, and reuse concurrently" (query/builder.go:33): whatever is built
\* from a builder later, it keeps the columns it was built with.
Immutable == \A h \in Handle : slice[h] # None => Content(slice[h]) = built[h]
=============================================================================
