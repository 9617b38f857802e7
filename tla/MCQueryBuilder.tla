--------------------------- MODULE MCQueryBuilder ---------------------------
(***************************************************************************)
(* QueryBuilder on a table of two columns for TLC, with the calls that are *)
(* made.  Column 0 is the empty name, column 3 one the table has not.      *)
(***************************************************************************)
EXTENDS QueryProperties

Symmetry == Permutations(Slot)

MCOperator == {"=", "!=", ">", ">=", "<", "<=", "IN", "LIKE"}
MCLists == {<<>>, <<1>>, <<1, 3>>}
MCMaps == UNION {[S -> Value \cup {None}] : S \in SUBSET Column} \cup {3 :> 1}
MCNumbers == {-1, 0, 1, 2}

Filter(column, op, slice, of) ==
    [column |-> column, op |-> op, value |-> [slice |-> slice, of |-> of]]

Comparisons == {Filter(c, op, FALSE, <<v>>) :
                c \in Column, op \in {"=", "!=", ">", ">=", "<", "<="}, v \in Value}
Memberships == {Filter(c, "IN", TRUE, vs) : c \in Column, vs \in {<<1>>, <<2, None, 1>>}}
Mistakes == {Filter(0, "=", FALSE, <<1>>), Filter(3, "=", FALSE, <<1>>),
             Filter(2, "LIKE", FALSE, <<1>>), Filter(2, "=", FALSE, <<>>),
             Filter(2, "IN", TRUE, <<>>), Filter(2, "IN", FALSE, <<1>>),
             Filter(2, "IN", FALSE, <<>>)}

By(column, direction) == [column |-> column, direction |-> direction]

MCOrders == {<<>>, <<By(2, "ASC")>>, <<By(2, "DESC")>>, <<By(2, "DESC"), By(1, "ASC")>>,
             <<By(0, "ASC")>>, <<By(2, "UP")>>}

Options == [order: MCOrders, limit: {None, -1, 0, 1}, offset: {None, -1, 1}]

\* One or two filters, and options for listings of one filter or none.
MCListings ==
    [filters: {<<f>> : f \in Comparisons \cup Memberships \cup Mistakes}
              \cup {<<f, g>> : f \in Memberships, g \in Comparisons \cup Memberships}
              \cup {<<f, g>> : f \in Comparisons, g \in Memberships},
     opts: {NoOptions}]
    \cup [filters: {<<>>, <<Filter(2, "IN", TRUE, <<2, 1>>)>>}, opts: Options]
=============================================================================
