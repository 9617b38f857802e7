--------------------------- MODULE QueryProperties ---------------------------
(***************************************************************************)
(* What the query builder promises, against a definition of what each call *)
(* means that knows no statements, placeholders or arguments.              *)
(***************************************************************************)
EXTENDS QueryBuilder

\* No comparison is with NULL; only SET and the list of an IN may have it.
TypeOK ==
    /\ DOMAIN rows \subseteq Slot
    /\ \A s \in DOMAIN rows : rows[s] \in Row
    /\ pc \in {"idle", "built", "done"}
    /\ call.api \in {"none", "Insert", "SelectOne", "Update", "Delete",
                     "SelectOneWithFilters", "Paginated", "Filtered"}
    /\ built.verb \in {"none", "INSERT", "SELECT", "UPDATE", "DELETE"}
    /\ built.ok <=> built.verb # "none"
    /\ ToSet(built.args) \subseteq Value \cup {None}
    /\ \A i \in DOMAIN built.where : built.where[i].op # "IN" =>
         \A n \in ToSet(built.where[i].at) : built.args[n] \in Value
    /\ ToSet(found) \subseteq DOMAIN rows

----------------------------------------------------------------------------
(* What a call means. *)

\* Does the row have what the filter asks for?
Has(row, f) ==
    LET x == row[f.column]
        v == Head(f.value.of)
    IN  /\ x # None
        /\ \/ f.op = "IN" /\ x \in ToSet(f.value.of)
           \/ f.op \in {"=", ">=", "<="} /\ x = v
           \/ f.op \in {"!=", ">", ">="} /\ x > v
           \/ f.op \in {"!=", "<", "<="} /\ x < v

Wanted == [s \in DOMAIN rows |->
    /\ \A c \in DOMAIN call.where : rows[s][c] = call.where[c]
    /\ \A i \in DOMAIN call.filters : Has(rows[s], call.filters[i])
    /\ call.api \in {"Paginated", "Filtered"} => rows[s][UserId] = call.user
    /\ call.api = "Paginated" => rows[s][IsActive] = Active]

Chosen == {s \in DOMAIN rows : Wanted[s]}

\* A row with the values of the call's data.
With(row) == [c \in Column |-> IF c \in DOMAIN call.data THEN call.data[c] ELSE row[c]]

\* limit and offset as the caller meant them; repositories.go takes a negative number
\* for none in one listing, and SelectOne is a limit of one.
Skip == IF call.opts.offset = None \/ call.opts.offset < 0 THEN 0 ELSE call.opts.offset
Most == IF call.api \in {"SelectOne", "SelectOneWithFilters"} THEN 1
        ELSE IF call.opts.limit = None \/ call.opts.limit < 0 THEN Cardinality(Slot)
        ELSE call.opts.limit

\* The rows of s are those that a list of the chosen rows in the order asked for has
\* after the first Skip ones, Most of them or as many as there are.
IsPage(s) ==
    LET order == call.opts.order
        Ahead(r) == {t \in Chosen : Before(order, rows[t], rows[r])}
        Behind(r) == {t \in Chosen : Before(order, rows[r], rows[t])}
        left == Cardinality(Chosen) - Skip
    IN  /\ ToSet(s) \subseteq Chosen
        /\ Cardinality(ToSet(s)) = Len(s)
        /\ Len(s) = IF left < 0 THEN 0 ELSE IF left < Most THEN left ELSE Most
        /\ \A i \in DOMAIN s :
             /\ Cardinality(Ahead(s[i])) < Skip + i
             /\ Cardinality(Behind(s[i])) <= left - i

\* Names of columns, conditions that name nothing, and numbers below zero are what a
\* call can get wrong.
MakesSense ==
    LET used == ToSet(call.columns) \cup DOMAIN call.data \cup DOMAIN call.where
                \cup {call.filters[i].column : i \in DOMAIN call.filters}
                \cup {call.opts.order[i].column : i \in DOMAIN call.opts.order}
    IN  /\ used \subseteq Column
        /\ None \notin {call.where[c] : c \in DOMAIN call.where}
        /\ \A i \in DOMAIN call.filters :
             /\ call.filters[i].value.of # <<>>
             /\ call.filters[i].op = "IN" => call.filters[i].value.slice
             /\ call.filters[i].op \in {"=", "!=", "<", "<=", ">", ">=", "IN"}
        /\ \A i \in DOMAIN call.opts.order :
             call.opts.order[i].direction \in {"ASC", "DESC"}
        /\ call.api = "Filtered"
           => \A n \in {call.opts.limit, call.opts.offset} : n = None \/ n >= 0
        /\ call.api \in {"Insert", "Update"} => DOMAIN call.data # {}
        /\ call.api \in {"SelectOne", "Update", "Delete"} => DOMAIN call.where # {}
        /\ call.api = "SelectOneWithFilters" => call.filters # <<>>
        /\ call.api = "SelectOne" => call.columns # <<>>

----------------------------------------------------------------------------
\* Statement and arguments fit: the placeholders are $1 to $n for n arguments, each
\* used once and in the order of the text, whatever SET and WHERE and however long
\* the lists of IN.  (pgx refuses a statement when the numbers differ.)
PlaceholdersFit ==
    LET numbers == FlattenSeq([i \in DOMAIN built.set |-> built.set[i].at])
                   \o FlattenSeq([i \in DOMAIN built.where |-> built.where[i].at])
    IN  numbers = [i \in DOMAIN built.args |-> i]

\* A call is refused if and only if it makes no sense: what reaches the database is
\* never an UPDATE or DELETE of all rows, an empty IN or a column compared with nil.
RefusedIfSenseless == pc = "built" => (built.ok <=> MakesSense)

\* What PostgreSQL makes of the statement is what the call means: the rows it changes
\* or returns are those the maps and filters name, and of no other user.
StatementMeansCall ==
    [][pc = "built" /\ pc' = "done" =>
       CASE call.api = "Insert" ->
              \E s \in Slot \ DOMAIN rows : rows' = Added(s, With([c \in Column |-> None]))
         [] call.api = "Update" ->
              rows' = [s \in DOMAIN rows |-> IF Wanted[s] THEN With(rows[s]) ELSE rows[s]]
         [] call.api = "Delete" ->
              rows' = [s \in DOMAIN rows \ Chosen |-> rows[s]]
         [] OTHER -> rows' = rows /\ IsPage(found')]_vars
=============================================================================
