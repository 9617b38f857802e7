---------------------------- MODULE QueryBuilder ----------------------------
(***************************************************************************)
(* shared/db/orm.go: calls on a table become statements with numbered      *)
(* placeholders and a list of arguments; and the listings of               *)
(* repositories.go, which go through it.  PostgreSQL, outside, runs the    *)
(* statement on a table of a few rows.                                     *)
(*                                                                         *)
(* A statement is kept in parts, not as text: what it sets, its conditions *)
(* joined by AND (each with the numbers of its placeholders), its options. *)
(*                                                                         *)
(* An operator named for a mistake, just before the one it resembles, is   *)
(* that operator with the mistake made.                                    *)
(***************************************************************************)
EXTENDS Integers, FiniteSets, SequencesExt

CONSTANTS
    Column,            \* the columns, numbered in the order of their names
    UserId, IsActive,  \* two of them
    Active,            \* is_active of a credential that was not revoked
    Value,             \* integers
    Slot,              \* places for rows
    None,              \* nil in Go, NULL in SQL
    Operator,          \* the strings that callers pass for operators
    \* What callers pass: column lists, maps from column to value, numbers for limit
    \* and offset, and filters with options.
    Lists, Maps, Numbers, Listings

VARIABLES
    rows,   \* the table: occupied slots and their rows
    pc,     \* "idle", "built", "done"
    call,   \* the call under way
    built,  \* the statement and its arguments, or that the call was refused
    found   \* what a SELECT returned: slots, in order

vars == <<rows, pc, call, built, found>>

AllowedOperators == {"=", "!=", ">", ">=", "<", "<=", "IN"}

ASSUME TableAssumption ==
    /\ Column \subseteq Int /\ IsFiniteSet(Column)
    /\ {UserId, IsActive} \subseteq Column /\ UserId # IsActive
    /\ Value \subseteq Int /\ Active \in Value
    /\ None \notin Int
    /\ IsFiniteSet(Slot)
    /\ AllowedOperators \subseteq Operator

\* A filter's value is a slice or not; of is what is in it, <<>> for nil.  A slice is
\* given to IN only: beside another operator PostgreSQL would refuse it.
Criteria ==
    {f \in [column: Int, op: Operator,
            value: [slice: BOOLEAN, of: Seq(Value \cup {None})]] :
        /\ f.value.slice => f.op = "IN"
        /\ ~f.value.slice => f.value.of = <<>> \/ \E v \in Value : f.value.of = <<v>>}

\* What Go's types let through, names of columns that there are not included.
ASSUME InputAssumption ==
    /\ Lists \subseteq Seq(Int)
    /\ \A m \in Maps : /\ DOMAIN m \subseteq Int /\ IsFiniteSet(DOMAIN m)
                       /\ m \in [DOMAIN m -> Value \cup {None}]
    /\ Numbers \subseteq Int
    /\ Listings \subseteq
         [filters: Seq(Criteria),
          opts: [order: Seq([column: Int, direction: STRING]),
                 limit: Int \cup {None}, offset: Int \cup {None}]]

Row == [Column -> Value \cup {None}]

NoOptions == [order |-> <<>>, limit |-> None, offset |-> None]

NoCall == [api |-> "none", user |-> None, columns |-> <<>>, data |-> <<>>,
           where |-> <<>>, filters |-> <<>>, opts |-> NoOptions]

Refused == [ok |-> FALSE, verb |-> "none", set |-> <<>>, where |-> <<>>,
            opts |-> NoOptions, args |-> <<>>]

Init ==
    /\ rows = <<>>
    /\ pc = "idle"
    /\ call = NoCall
    /\ built = Refused
    /\ found = <<>>

----------------------------------------------------------------------------
(* The builder. *)

Sorted(names) ==
    CHOOSE s \in SetToSeqs(names) : \A i, j \in DOMAIN s : i < j => s[i] < s[j]

SortedColumns(data) == Sorted(DOMAIN data)

ArgsInNoOrder(data) ==
    LET cols == Reverse(SortedColumns(data))
    IN [i \in DOMAIN cols |-> data[cols[i]]]
\* The values, in the order of the columns' names.
Args(data) ==
    LET cols == SortedColumns(data)
    IN [i \in DOMAIN cols |-> data[cols[i]]]

\* "column = $n" for each column, the numbers from start on.
Equalities(data, start) ==
    LET cols == SortedColumns(data)
    IN [i \in DOMAIN cols |-> [col |-> cols[i], op |-> "=", at |-> <<start + i - 1>>]]

BuildWhereNilPasses(where, start) ==
    [ok |-> DOMAIN where \subseteq Column,
     clauses |-> Equalities(where, start),
     args |-> Args(where)]
\* A comparison with nil is refused.
BuildWhere(where, start) ==
    [ok |-> DOMAIN where \subseteq Column /\ \A c \in DOMAIN where : where[c] # None,
     clauses |-> Equalities(where, start),
     args |-> Args(where)]

EmptyInPasses(f) ==
    /\ f.column \in Column
    /\ f.value.slice \/ f.value.of # <<>>
    /\ f.op \in AllowedOperators
    /\ f.op = "IN" => f.value.slice
ValidFilter(f) ==
    /\ f.column \in Column
    /\ f.value.slice \/ f.value.of # <<>>
    /\ f.op \in AllowedOperators
    /\ f.op = "IN" => f.value.slice /\ f.value.of # <<>>

AddFilterCountsOnce(w, f) ==
    [clauses |-> Append(w.clauses,
                        [col |-> f.column, op |-> f.op,
                         at |-> [i \in DOMAIN f.value.of |-> w.next + i - 1]]),
     args |-> w.args \o f.value.of,
     next |-> w.next + 1]
\* The next condition: one placeholder for each value.
AddFilter(w, f) ==
    [clauses |-> Append(w.clauses,
                        [col |-> f.column, op |-> f.op,
                         at |-> [i \in DOMAIN f.value.of |-> w.next + i - 1]]),
     args |-> w.args \o f.value.of,
     next |-> w.next + Len(f.value.of)]

\* The loop over the filters: clauses, arguments and argIndex after each turn.
Turns(filters) ==
    LET w[n \in 0..Len(filters)] ==
          IF n = 0 THEN [clauses |-> <<>>, args |-> <<>>, next |-> 1]
          ELSE AddFilter(w[n - 1], filters[n])
    IN  w

BuildWhereFilters(filters) ==
    LET w == Turns(filters)[Len(filters)]
    IN  [ok |-> \A i \in DOMAIN filters : ValidFilter(filters[i]),
         clauses |-> w.clauses,
         args |-> w.args]

\* buildOrderBy, and that limit and offset are not negative.
ValidOptions(opts) ==
    /\ \A i \in DOMAIN opts.order : /\ opts.order[i].column \in Column
                                    /\ opts.order[i].direction \in {"ASC", "DESC"}
    /\ opts.limit # None => opts.limit >= 0
    /\ opts.offset # None => opts.offset >= 0

Statement(verb, set, where, opts, args) ==
    [ok |-> TRUE, verb |-> verb, set |-> set, where |-> where, opts |-> opts, args |-> args]

BuildInsert(data, returning) ==
    IF DOMAIN data = {} \/ ~(DOMAIN data \cup ToSet(returning) \subseteq Column)
    THEN Refused
    ELSE Statement("INSERT", Equalities(data, 1), <<>>, NoOptions, Args(data))

\* selectQuery and selectQueryWithFilters, which differ in how w was built.
BuildSelect(columns, w, opts) ==
    IF columns = <<>> \/ ~(ToSet(columns) \subseteq Column) \/ ~w.ok \/ ~ValidOptions(opts)
    THEN Refused
    ELSE Statement("SELECT", <<>>, w.clauses, opts, w.args)

BuildSelectOne(columns, w) ==
    IF w.clauses = <<>> THEN Refused
    ELSE BuildSelect(columns, w, [NoOptions EXCEPT !.limit = 1])

\* The placeholders of WHERE go on where those of SET end.
BuildUpdate(data, where) ==
    LET w == BuildWhere(where, Len(Args(data)) + 1)
    IN  IF DOMAIN data = {} \/ DOMAIN where = {} \/ ~(DOMAIN data \subseteq Column) \/ ~w.ok
        THEN Refused
        ELSE Statement("UPDATE", Equalities(data, 1), w.clauses, NoOptions,
                       Args(data) \o w.args)

BuildDelete(where) ==
    LET w == BuildWhere(where, 1)
    IN  IF DOMAIN where = {} \/ ~w.ok THEN Refused
        ELSE Statement("DELETE", <<>>, w.clauses, NoOptions, w.args)

----------------------------------------------------------------------------
(* What the repositories make of their parameters. *)

AllColumns == Sorted(Column)

\* buildSelectOptions: a negative number is none.
SelectOptions(limit, offset) ==
    [order |-> <<>>,
     limit |-> IF limit < 0 THEN None ELSE limit,
     offset |-> IF offset < 0 THEN None ELSE offset]

\* mapFilters: the user first, then what the caller asks for.
MapFilters(user, filters) ==
    <<[column |-> UserId, op |-> "=", value |-> [slice |-> FALSE, of |-> <<user>>]]>>
    \o filters

----------------------------------------------------------------------------
(* The calls. *)

Make(c, b) ==
    /\ pc = "idle"
    /\ pc' = "built"
    /\ call' = c
    /\ built' = b
    /\ UNCHANGED <<rows, found>>

\* The table of this model is full when all slots are.
Insert == \E data \in Maps, returning \in Lists :
    /\ DOMAIN rows # Slot
    /\ Make([NoCall EXCEPT !.api = "Insert", !.data = data, !.columns = returning],
            BuildInsert(data, returning))

SelectOne == \E columns \in Lists, where \in Maps :
    Make([NoCall EXCEPT !.api = "SelectOne", !.columns = columns, !.where = where],
         BuildSelectOne(columns, BuildWhere(where, 1)))

Update == \E data \in Maps, where \in Maps :
    Make([NoCall EXCEPT !.api = "Update", !.data = data, !.where = where],
         BuildUpdate(data, where))

Delete == \E where \in Maps :
    Make([NoCall EXCEPT !.api = "Delete", !.where = where], BuildDelete(where))

SelectOneWithFilters == \E l \in Listings :
    /\ l.opts = NoOptions
    /\ Make([NoCall EXCEPT !.api = "SelectOneWithFilters", !.columns = AllColumns,
                           !.filters = l.filters],
            BuildSelectOne(AllColumns, BuildWhereFilters(l.filters)))

GetCredentialsByUserIDPaginated == \E user \in Value, limit \in Numbers, offset \in Numbers :
    LET own == [c \in {UserId, IsActive} |-> IF c = UserId THEN user ELSE Active]
    IN  Make([NoCall EXCEPT !.api = "Paginated", !.user = user, !.columns = AllColumns,
                            !.opts.limit = limit, !.opts.offset = offset],
             BuildSelect(AllColumns, BuildWhere(own, 1), SelectOptions(limit, offset)))

GetCredentialsByUserIDFiltered == \E user \in Value, l \in Listings :
    Make([NoCall EXCEPT !.api = "Filtered", !.user = user, !.columns = AllColumns,
                        !.filters = l.filters, !.opts = l.opts],
         BuildSelect(AllColumns, BuildWhereFilters(MapFilters(user, l.filters)), l.opts))

----------------------------------------------------------------------------
(* PostgreSQL. *)

Compare(op, a, b) ==
    CASE op = "=" -> a = b
      [] op = "!=" -> a # b
      [] op = ">" -> a > b
      [] op = ">=" -> a >= b
      [] op = "<" -> a < b
      [] op = "<=" -> a <= b

\* A comparison with NULL is not true.
Holds(clause, row) ==
    /\ row[clause.col] # None
    /\ \E i \in DOMAIN clause.at :
         Compare(IF clause.op = "IN" THEN "=" ELSE clause.op,
                 row[clause.col], built.args[clause.at[i]])

Matching ==
    {s \in DOMAIN rows : \A i \in DOMAIN built.where : Holds(built.where[i], rows[s])}

\* NULL counts as larger than every value.
Less(a, b) == a # None /\ (b = None \/ a < b)

\* Does the ORDER BY put row a before row b?
Before(order, a, b) == \E k \in DOMAIN order :
    /\ \A j \in 1..(k - 1) : a[order[j].column] = b[order[j].column]
    /\ LET x == a[order[k].column]
           y == b[order[k].column]
       IN  IF order[k].direction = "ASC" THEN Less(x, y) ELSE Less(y, x)

\* The matching rows, in any order that ORDER BY leaves open.
Arrangements ==
    {s \in SetToSeqs(Matching) :
        \A i, j \in DOMAIN s : i < j => ~Before(built.opts.order, rows[s[j]], rows[s[i]])}

Page(s) ==
    LET offset == IF built.opts.offset = None THEN 0 ELSE built.opts.offset
        rest == SubSeq(s, offset + 1, Len(s))
    IN  IF built.opts.limit = None THEN rest
        ELSE IF built.opts.limit > Len(rest) THEN rest
        ELSE SubSeq(rest, 1, built.opts.limit)

\* The row with what the statement sets in the place of what it held.
Assign(row) == [c \in Column |->
    IF \E i \in DOMAIN built.set : built.set[i].col = c
    THEN LET i == CHOOSE i \in DOMAIN built.set : built.set[i].col = c
         IN  built.args[built.set[i].at[1]]
    ELSE row[c]]

Added(s, row) == [t \in DOMAIN rows \cup {s} |-> IF t = s THEN row ELSE rows[t]]

Exec(verb) == pc = "built" /\ built.ok /\ built.verb = verb /\ pc' = "done"

RunInsert ==
    /\ Exec("INSERT")
    /\ \E s \in Slot \ DOMAIN rows : rows' = Added(s, Assign([c \in Column |-> None]))
    /\ UNCHANGED <<call, built, found>>

RunSelect ==
    /\ Exec("SELECT")
    /\ \E s \in Arrangements : found' = Page(s)
    /\ UNCHANGED <<rows, call, built>>

RunUpdate ==
    /\ Exec("UPDATE")
    /\ rows' = [s \in DOMAIN rows |-> IF s \in Matching THEN Assign(rows[s]) ELSE rows[s]]
    /\ UNCHANGED <<call, built, found>>

RunDelete ==
    /\ Exec("DELETE")
    /\ rows' = [s \in DOMAIN rows \ Matching |-> rows[s]]
    /\ UNCHANGED <<call, built, found>>

\* The call returns, with an error if it was refused.
Return ==
    /\ \/ pc = "done"
       \/ pc = "built" /\ ~built.ok
    /\ pc' = "idle"
    /\ call' = NoCall
    /\ built' = Refused
    /\ found' = <<>>
    /\ UNCHANGED rows

Next ==
    \/ Insert
    \/ SelectOne
    \/ Update
    \/ Delete
    \/ SelectOneWithFilters
    \/ GetCredentialsByUserIDPaginated
    \/ GetCredentialsByUserIDFiltered
    \/ RunInsert
    \/ RunSelect
    \/ RunUpdate
    \/ RunDelete
    \/ Return

Spec == Init /\ [][Next]_vars
=============================================================================
