------------------------- MODULE QueryBuilder_proofs -------------------------
(***************************************************************************)
(* The query builder for every table and every call: whatever columns,     *)
(* maps and filters there are, and however many.  What a loop or a sorted  *)
(* list holds needs induction: Induction below is about sets, not          *)
(* operators, so that it can be cited with a set of numbers.               *)
(***************************************************************************)
EXTENDS QueryProperties, FiniteSetTheorems, TLAPS

LEMMA LeastNumber ==
    ASSUME NEW T \in SUBSET Nat, T # {}
    PROVE  \E x \in T : \A y \in T : x <= y
<1>1. \E x \in T : \A y \in T : <<y, x>> \notin OpToRel(<, Nat)
  BY WFMin, NatLessThanWellFounded, Zenon
<1>2. \A x, y \in T : y < x => <<y, x>> \in OpToRel(<, Nat)
  BY DEF OpToRel
<1>3. \E x \in T : \A y \in T : ~(y < x)
  BY <1>1, <1>2, Zenon
<1> QED BY <1>3

\* A set with 0 and the successor of each of its numbers has all numbers.
LEMMA Induction ==
    ASSUME NEW S, 0 \in S, \A n \in Nat : n \in S => n + 1 \in S
    PROVE  Nat \subseteq S
<1>1. SUFFICES ASSUME Nat \ S # {} PROVE FALSE
  OBVIOUS
<1>2. PICK x \in Nat \ S : \A y \in Nat \ S : x <= y
  BY <1>1, LeastNumber
<1>3. x - 1 \in Nat
  BY <1>2
<1> QED BY <1>2, <1>3

----------------------------------------------------------------------------
(* Sorting. *)

\* How many members of S are not above c.
Rank(S, c) == Cardinality({d \in S : d <= c})

\* The rank is one to one from S to its numbers of order, and rises with c.
LEMMA RankBijection ==
    ASSUME NEW S \in SUBSET Int, IsFiniteSet(S)
    PROVE  LET r == [c \in S |-> Rank(S, c)]
               n == Cardinality(S)
           IN  /\ n \in Nat
               /\ r \in [S -> 1..n]
               /\ \A c, d \in S : c < d => r[c] < r[d]
               /\ \A i \in 1..n : \E c \in S : r[c] = i
<1> DEFINE r == [c \in S |-> Rank(S, c)]
           n == Cardinality(S)
           Upto(c) == {d \in S : d <= c}
<1>1. n \in Nat
  BY FS_CardinalityType
<1>2. ASSUME NEW c \in S
      PROVE  /\ IsFiniteSet(Upto(c)) /\ Cardinality(Upto(c)) \in Nat
             /\ Cardinality(Upto(c)) <= n
             /\ Cardinality(Upto(c)) # 0
  <2>1. IsFiniteSet(Upto(c)) /\ Cardinality(Upto(c)) <= n
    BY FS_Subset
  <2>2. Upto(c) # {}
    BY <1>2
  <2>3. Cardinality(Upto(c)) \in Nat /\ Cardinality(Upto(c)) # 0
    <3> HIDE DEF Upto
    <3> QED BY <2>1, <2>2, FS_CardinalityType, FS_EmptySet
  <2> QED BY <2>1, <2>3
<1>3. r \in [S -> 1..n]
  BY <1>1, <1>2 DEF Rank
<1>4. ASSUME NEW c \in S, NEW d \in S, c < d
      PROVE  r[c] < r[d]
  <2>1. Upto(c) \subseteq Upto(d) /\ Upto(c) # Upto(d)
    <3>1. \A x \in S : x \in Int /\ (x <= c => x <= d)
      BY <1>4
    <3>3. Upto(c) \subseteq Upto(d)
      BY <3>1, Zenon
    <3>2. d \in Upto(d) /\ d \notin Upto(c)
      BY <1>4
    <3> HIDE DEF Upto
    <3> QED BY <3>2, <3>3
  <2>2. /\ Cardinality(Upto(c)) <= Cardinality(Upto(d))
        /\ Cardinality(Upto(c)) # Cardinality(Upto(d))
    <3> HIDE DEF Upto
    <3> QED BY <2>1, <1>2, FS_Subset
  <2>3. r[c] = Cardinality(Upto(c)) /\ r[d] = Cardinality(Upto(d))
    BY DEF Rank
  <2>4. Cardinality(Upto(c)) \in Nat /\ Cardinality(Upto(d)) \in Nat
    BY <1>2
  <2> HIDE DEF r, Upto
  <2> QED BY <2>2, <2>3, <2>4
<1>5. r \in Injection(S, 1..n)
  BY <1>3, <1>4 DEF Injection, IsInjective
<1>6. IsFiniteSet(1..n) /\ Cardinality(1..n) = n
  BY <1>1, FS_Interval
<1>7. r \in Surjection(S, 1..n)
  <2> HIDE DEF r, n
  <2> QED BY <1>5, <1>6, FS_Injection DEF n
<1>8. \A i \in 1..n : \E c \in S : r[c] = i
  <2> HIDE DEF r, n
  <2> QED BY <1>7 DEF Surjection
<1> QED BY <1>1, <1>3, <1>4, <1>8

\* s has every member of S once, in order.
Enumerates(s, S) ==
    /\ s \in [1..Cardinality(S) -> S]
    /\ \A i, j \in DOMAIN s : i < j => s[i] < s[j]
    /\ \A c \in S : \E i \in DOMAIN s : s[i] = c

\* A finite set of columns can be sorted, and Sorted does it.
LEMMA SortedEnumerates ==
    ASSUME NEW S \in SUBSET Int, IsFiniteSet(S)
    PROVE  Enumerates(Sorted(S), S)
<1> DEFINE n == Cardinality(S)
           InOrder(s) == \A i, j \in DOMAIN s : i < j => s[i] < s[j]
<1>1. PICK r \in [S -> 1..n] :
        /\ \A c, d \in S : c < d => r[c] < r[d]
        /\ \A i \in 1..n : \E c \in S : r[c] = i
  BY RankBijection
<1>2. n \in Nat
  BY FS_CardinalityType
<1> DEFINE q == [i \in 1..n |-> CHOOSE c \in S : r[c] = i]
<1>3. q \in [1..n -> S] /\ \A i \in 1..n : r[q[i]] = i
  BY <1>1
<1>4. \A i, j \in 1..n : i < j => q[i] < q[j]
  <2> SUFFICES ASSUME NEW i \in 1..n, NEW j \in 1..n, i < j PROVE q[i] < q[j]
    OBVIOUS
  <2>1. q[i] \in S /\ q[j] \in S /\ r[q[i]] = i /\ r[q[j]] = j
    BY <1>3
  <2>2. n \in Nat /\ q[i] \in Int /\ q[j] \in Int
    BY <1>2, <2>1
  <2>3. q[j] < q[i] => r[q[j]] < r[q[i]]
    <3> HIDE DEF q, n
    <3> QED BY <2>1, <1>1
  <2> HIDE DEF q, n
  <2> QED BY <2>1, <2>2, <2>3
<1>5. q \in SetToSeqs(S) /\ InOrder(q)
  <2> HIDE DEF q
  <2>1. \A i, j \in 1..n : i # j => q[i] # q[j]
    BY <1>3
  <2> QED BY <1>3, <1>4, <2>1 DEF SetToSeqs
<1>6. Sorted(S) \in SetToSeqs(S) /\ InOrder(Sorted(S))
  <2> HIDE DEF q
  <2> QED BY <1>5 DEF Sorted
<1> DEFINE s == Sorted(S)
<1>7. s \in Injection(1..n, S)
  BY <1>6 DEF SetToSeqs, Injection, IsInjective
<1>8. Cardinality(1..n) = n
  BY <1>2, FS_Interval
<1>9. s \in Surjection(1..n, S)
  <2> HIDE DEF s
  <2> QED BY <1>7, <1>8, FS_Injection
<1> QED BY <1>6, <1>9 DEF Enumerates, Surjection, SetToSeqs

----------------------------------------------------------------------------
(* A sequence of sequences made one. *)

\* What FlattenSeq computes on the way: f[i] is the first i sequences in one.
Flattens(f, s) ==
    f = [i \in 1..Len(s) |-> IF i = 1 THEN s[i] ELSE f[i - 1] \o s[i]]

LEMMA FlattensExists ==
    ASSUME NEW s, Len(s) \in Nat
    PROVE  \E f : Flattens(f, s)
<1> DEFINE Upto(f, n) == f = [i \in 1..n |-> IF i = 1 THEN s[i] ELSE f[i - 1] \o s[i]]
           Good == {n \in Nat : \E f : Upto(f, n)}
<1>1. 0 \in Good
  <2>1. Upto(<<>>, 0)
    OBVIOUS
  <2> QED BY <2>1
<1>2. ASSUME NEW n \in Nat, n \in Good
      PROVE  n + 1 \in Good
  <2>1. PICK f : Upto(f, n)
    BY <1>2
  <2> DEFINE g == [i \in 1..(n + 1) |->
                     IF i = n + 1 THEN IF i = 1 THEN s[i] ELSE f[n] \o s[i] ELSE f[i]]
  <2>2. ASSUME NEW i \in 1..(n + 1)
        PROVE  g[i] = IF i = 1 THEN s[i] ELSE g[i - 1] \o s[i]
    <3>1. CASE i = n + 1
      BY <3>1
    <3>2. CASE i # n + 1
      <4>1. i \in 1..n /\ (i # 1 => i - 1 \in 1..n)
        BY <3>2
      <4>2. f[i] = IF i = 1 THEN s[i] ELSE f[i - 1] \o s[i]
        BY <2>1, <4>1
      <4> QED BY <3>2, <4>1, <4>2
    <3> QED BY <3>1, <3>2
  <2>3. \E h : Upto(h, n + 1)
    <3>1. Upto(g, n + 1)
      BY <2>2
    <3> HIDE DEF g
    <3> QED BY <3>1
  <2> HIDE DEF Upto
  <2> QED BY <2>3
<1> HIDE DEF Good
<1>3. Len(s) \in Good
  BY <1>1, <1>2, Induction
<1> QED BY <1>3 DEF Good, Flattens

LEMMA FlattenIsLast ==
    ASSUME NEW s, Len(s) \in Nat \ {0}
    PROVE  \E f : Flattens(f, s) /\ FlattenSeq(s) = f[Len(s)]
BY FlattensExists DEF Flattens, FlattenSeq

LEMMA FlattenEmpty == FlattenSeq(<<>>) = <<>>
BY DEF FlattenSeq

\* One more sequence comes at the end.
LEMMA FlattenAppend ==
    ASSUME NEW T, NEW s \in Seq(Seq(T)), NEW x \in Seq(T)
    PROVE  /\ FlattenSeq(s) \in Seq(T)
           /\ FlattenSeq(Append(s, x)) = FlattenSeq(s) \o x
<1> DEFINE t == Append(s, x)
           n == Len(s)
<1>0. /\ n \in Nat /\ Len(t) = n + 1
      /\ \A i \in 1..n : t[i] = s[i] /\ s[i] \in Seq(T)
      /\ t[n + 1] = x
  OBVIOUS
<1>1. PICK g : Flattens(g, t) /\ FlattenSeq(t) = g[n + 1]
  <2> HIDE DEF t, n
  <2> QED BY <1>0, FlattenIsLast
<1>2. \A i \in 1..(n + 1) : g[i] = IF i = 1 THEN t[i] ELSE g[i - 1] \o t[i]
  BY <1>0, <1>1 DEF Flattens
<1>3. CASE n = 0
  <2>1. s = <<>> /\ FlattenSeq(s) = <<>>
    BY <1>3, FlattenEmpty
  <2>2. g[1] = x
    BY <1>0, <1>2, <1>3
  <2>3. FlattenSeq(t) = x
    BY <1>1, <1>3, <2>2
  <2>4. <<>> \in Seq(T) /\ <<>> \o x = x
    OBVIOUS
  <2> QED BY <2>1, <2>3, <2>4, Zenon
<1>4. CASE n # 0
  <2>1. PICK f : Flattens(f, s) /\ FlattenSeq(s) = f[n]
    BY <1>0, <1>4, FlattenIsLast
  <2>2. \A i \in 1..n : f[i] = IF i = 1 THEN s[i] ELSE f[i - 1] \o s[i]
    BY <1>0, <2>1 DEF Flattens
  <2> DEFINE Good == {i \in Nat : i \in 1..n => f[i] \in Seq(T) /\ g[i] = f[i]}
  <2>3. 0 \in Good
    OBVIOUS
  <2>4. ASSUME NEW i \in Nat, i \in Good
        PROVE  i + 1 \in Good
    <3>1. SUFFICES ASSUME i + 1 \in 1..n
                   PROVE  f[i + 1] \in Seq(T) /\ g[i + 1] = f[i + 1]
      OBVIOUS
    <3>2. s[i + 1] \in Seq(T) /\ t[i + 1] = s[i + 1] /\ i + 1 \in 1..(n + 1)
      BY <1>0, <3>1
    <3>3. CASE i = 0
      <4>1. f[1] = s[1] /\ g[1] = t[1]
        BY <1>2, <2>2, <3>1, <3>2, <3>3
      <4> QED BY <3>2, <3>3, <4>1
    <3>4. CASE i # 0
      <4>1. i \in 1..n
        BY <1>0, <3>1, <3>4
      <4>2. f[i] \in Seq(T) /\ g[i] = f[i]
        BY <2>4, <4>1
      <4>3. f[i + 1] = f[i] \o s[i + 1] /\ g[i + 1] = g[i] \o t[i + 1]
        <5>1. i + 1 # 1 /\ (i + 1) - 1 = i
          BY <3>4
        <5> HIDE DEF t, n
        <5> QED BY <1>2, <2>2, <3>1, <3>2, <5>1
      <4> QED BY <3>2, <4>2, <4>3
    <3> QED BY <3>3, <3>4
  <2>5. n \in Good
    <3> HIDE DEF Good, n
    <3> QED BY <1>0, <2>3, <2>4, Induction
  <2>6. f[n] \in Seq(T) /\ g[n] = f[n]
    BY <1>0, <1>4, <2>5
  <2>7. g[n + 1] = g[n] \o x
    <3>1. n + 1 \in 1..(n + 1) /\ n + 1 # 1 /\ (n + 1) - 1 = n
      BY <1>0, <1>4
    <3> HIDE DEF n, t
    <3> QED BY <1>0, <1>2, <3>1
  <2> QED BY <1>1, <2>1, <2>6, <2>7
<1> QED BY <1>3, <1>4

----------------------------------------------------------------------------
(* The loop over the filters. *)

NoTurn == [clauses |-> <<>>, args |-> <<>>, next |-> 1]

\* The turns are what their definition says: such a function exists.
LEMMA TurnsAre ==
    ASSUME NEW filters, Len(filters) \in Nat
    PROVE  /\ Turns(filters)[0] = NoTurn
           /\ \A n \in 1..Len(filters) :
                Turns(filters)[n] = AddFilter(Turns(filters)[n - 1], filters[n])
<1> DEFINE Upto(w, n) ==
             w = [i \in 0..n |-> IF i = 0 THEN NoTurn ELSE AddFilter(w[i - 1], filters[i])]
           Good == {n \in Nat : \E w : Upto(w, n)}
<1> HIDE DEF NoTurn
<1>1. 0 \in Good
  <2>1. Upto([i \in 0..0 |-> NoTurn], 0)
    OBVIOUS
  <2> HIDE DEF Upto
  <2> QED BY <2>1
<1>2. ASSUME NEW n \in Nat, n \in Good
      PROVE  n + 1 \in Good
  <2>1. PICK w : Upto(w, n)
    BY <1>2
  <2> DEFINE v == [i \in 0..(n + 1) |->
                     IF i = n + 1 THEN AddFilter(w[n], filters[i]) ELSE w[i]]
  <2>2. ASSUME NEW i \in 0..(n + 1)
        PROVE  v[i] = IF i = 0 THEN NoTurn ELSE AddFilter(v[i - 1], filters[i])
    <3>1. CASE i = n + 1
      <4>1. i # 0 /\ i - 1 = n /\ n \in 0..(n + 1) /\ n # n + 1
        BY <3>1
      <4>2. v[i] = AddFilter(w[n], filters[i]) /\ v[n] = w[n]
        BY <3>1, <4>1
      <4> HIDE DEF v
      <4> QED BY <4>1, <4>2
    <3>2. CASE i # n + 1
      <4>1. i \in 0..n /\ (i # 0 => i - 1 \in 0..n)
        BY <3>2
      <4>2. w[i] = IF i = 0 THEN NoTurn ELSE AddFilter(w[i - 1], filters[i])
        BY <2>1, <4>1
      <4>3. v[i] = w[i] /\ (i # 0 => v[i - 1] = w[i - 1])
        BY <3>2, <4>1
      <4> HIDE DEF v
      <4> QED BY <4>2, <4>3
    <3> QED BY <3>1, <3>2
  <2>3. \E h : Upto(h, n + 1)
    <3>1. v = [i \in 0..(n + 1) |->
                 IF i = 0 THEN NoTurn ELSE AddFilter(v[i - 1], filters[i])]
      BY <2>2
    <3>2. Upto(v, n + 1)
      BY <3>1
    <3> HIDE DEF v, Upto
    <3> QED BY <3>2
  <2> HIDE DEF Upto
  <2> QED BY <2>3
<1>3. Len(filters) \in Good
  <2> HIDE DEF Good
  <2> QED BY <1>1, <1>2, Induction
<1>4. Upto(Turns(filters), Len(filters))
  <2>1. \E w : Upto(w, Len(filters))
    BY <1>3
  <2> QED BY <2>1 DEF Turns, NoTurn
<1> QED BY <1>4

Arg == Value \cup {None}
Clause == [col: Int, op: Operator, at: Seq(Nat)]

\* The numbers of the placeholders, condition by condition.
Ats(clauses) == [i \in DOMAIN clauses |-> clauses[i].at]

\* With these arguments the condition compares what the filter f compares.
Says(clause, args, f) ==
    /\ clause.col = f.column /\ clause.op = f.op
    /\ DOMAIN clause.at = DOMAIN f.value.of
    /\ \A i \in DOMAIN clause.at :
         clause.at[i] \in DOMAIN args /\ args[clause.at[i]] = f.value.of[i]

\* $1 to $n for n arguments, each once and in order.
InOrder(clauses, args) == FlattenSeq(Ats(clauses)) = [i \in DOMAIN args |-> i]

TurnFits(w, filters, n) ==
    /\ w.clauses \in Seq(Clause) /\ Len(w.clauses) = n
    /\ w.args \in Seq(Arg) /\ w.next = Len(w.args) + 1
    /\ \A k \in 1..n : Says(w.clauses[k], w.args, filters[k])
    /\ InOrder(w.clauses, w.args)

LEMMA CriteriaTypes ==
    ASSUME NEW f \in Criteria
    PROVE  /\ f.column \in Int /\ f.op \in Operator
           /\ f.value.slice \in BOOLEAN /\ f.value.of \in Seq(Arg)
           /\ f.value.slice => f.op = "IN"
           /\ ~f.value.slice => f.value.of = <<>> \/ \E v \in Value : f.value.of = <<v>>
BY DEF Criteria, Arg

LEMMA AtsAppend ==
    ASSUME NEW clauses \in Seq(Clause), NEW c \in Clause
    PROVE  /\ Ats(clauses) \in Seq(Seq(Nat)) /\ c.at \in Seq(Nat)
           /\ Ats(Append(clauses, c)) = Append(Ats(clauses), c.at)
<1>1. /\ Ats(clauses) \in Seq(Seq(Nat)) /\ c.at \in Seq(Nat)
      /\ Len(Ats(clauses)) = Len(clauses)
      /\ \A i \in 1..Len(clauses) : Ats(clauses)[i] = clauses[i].at
  <2>1. \A i \in 1..Len(clauses) : clauses[i] \in Clause
    OBVIOUS
  <2>2. (\A i \in 1..Len(clauses) : clauses[i].at \in Seq(Nat)) /\ c.at \in Seq(Nat)
    BY <2>1, Zenon DEF Clause
  <2>3. Ats(clauses) = [i \in 1..Len(clauses) |-> clauses[i].at]
    BY DEF Ats
  <2> QED BY <2>2, <2>3
<1>2. /\ Append(clauses, c) \in Seq(Clause)
      /\ Len(Append(clauses, c)) = Len(clauses) + 1
      /\ \A i \in 1..Len(clauses) + 1 :
           Append(clauses, c)[i] = IF i = Len(clauses) + 1 THEN c ELSE clauses[i]
  OBVIOUS
<1>3. Ats(Append(clauses, c)) = [i \in 1..Len(clauses) + 1 |-> Append(clauses, c)[i].at]
  BY <1>2 DEF Ats
<1>4. /\ Append(Ats(clauses), c.at) \in Seq(Seq(Nat))
      /\ Append(Ats(clauses), c.at)
           = [i \in 1..Len(clauses) + 1 |-> IF i = Len(clauses) + 1 THEN c.at
                                            ELSE Ats(clauses)[i]]
  BY <1>1
<1>5. \A i \in 1..Len(clauses) + 1 :
        Append(clauses, c)[i].at = IF i = Len(clauses) + 1 THEN c.at ELSE Ats(clauses)[i]
  BY <1>1, <1>2
<1> QED BY <1>1, <1>3, <1>4, <1>5

\* One more condition, with the numbers that follow and as many arguments.
LEMMA InOrderAppend ==
    ASSUME NEW clauses \in Seq(Clause), NEW args \in Seq(Arg), InOrder(clauses, args),
           NEW c \in Clause, NEW more \in Seq(Arg),
           c.at = [i \in DOMAIN more |-> Len(args) + 1 + i - 1]
    PROVE  InOrder(Append(clauses, c), args \o more)
<1>1. FlattenSeq(Ats(Append(clauses, c))) = FlattenSeq(Ats(clauses)) \o c.at
  BY AtsAppend, FlattenAppend
<1>2. FlattenSeq(Ats(clauses)) = [i \in 1..Len(args) |-> i]
  BY DEF InOrder
<1>3. c.at = [i \in 1..Len(more) |-> Len(args) + i]
  OBVIOUS
<1>4. [i \in 1..Len(args) |-> i] \o [i \in 1..Len(more) |-> Len(args) + i]
        = [i \in 1..Len(args) + Len(more) |-> i]
  OBVIOUS
<1>5. DOMAIN (args \o more) = 1..Len(args) + Len(more)
  OBVIOUS
<1> QED BY <1>1, <1>2, <1>3, <1>4, <1>5 DEF InOrder

LEMMA TurnFitsNext ==
    ASSUME NEW filters \in Seq(Criteria), NEW n \in Nat, n + 1 \in 1..Len(filters),
           NEW w, TurnFits(w, filters, n)
    PROVE  TurnFits(AddFilter(w, filters[n + 1]), filters, n + 1)
<1> DEFINE f == filters[n + 1]
           of == f.value.of
           c == [col |-> f.column, op |-> f.op,
                 at |-> [i \in DOMAIN of |-> w.next + i - 1]]
           v == AddFilter(w, f)
<1>1. f \in Criteria
  OBVIOUS
<1>2. f.column \in Int /\ f.op \in Operator /\ of \in Seq(Arg)
  BY <1>1, CriteriaTypes
<1>3. /\ w.clauses \in Seq(Clause) /\ Len(w.clauses) = n
      /\ w.args \in Seq(Arg) /\ w.next = Len(w.args) + 1
      /\ \A k \in 1..n : Says(w.clauses[k], w.args, filters[k])
      /\ InOrder(w.clauses, w.args)
  BY DEF TurnFits
<1> HIDE DEF f, of
<1>4. c \in Clause
  <2>1. \A i \in 1..Len(of) : w.next + i - 1 \in Nat
    BY <1>2, <1>3
  <2>2. [i \in DOMAIN of |-> w.next + i - 1] \in Seq(Nat)
    BY <1>2, <2>1
  <2> QED BY <1>2, <2>2 DEF Clause
<1>5. /\ v.clauses = Append(w.clauses, c) /\ v.args = w.args \o of
      /\ v.next = w.next + Len(of)
  BY DEF AddFilter, of
<1>6. /\ c.col = f.column /\ c.op = f.op
      /\ c.at = [i \in DOMAIN of |-> Len(w.args) + 1 + i - 1]
  BY <1>3
<1> HIDE DEF c, v
<1>7. /\ v.clauses \in Seq(Clause) /\ Len(v.clauses) = n + 1
      /\ v.args \in Seq(Arg) /\ v.next = Len(v.args) + 1
  BY <1>2, <1>3, <1>4, <1>5
<1>8. InOrder(v.clauses, v.args)
  BY <1>2, <1>3, <1>4, <1>5, <1>6, InOrderAppend
<1>9. /\ DOMAIN w.args = 1..Len(w.args) /\ DOMAIN of = 1..Len(of)
      /\ DOMAIN v.args = 1..Len(w.args) + Len(of)
      /\ \A i \in 1..Len(w.args) : v.args[i] = w.args[i]
      /\ \A i \in 1..Len(of) : v.args[Len(w.args) + i] = of[i]
  BY <1>2, <1>3, <1>5
<1>10. ASSUME NEW k \in 1..n + 1
       PROVE  Says(v.clauses[k], v.args, filters[k])
  <2>1. CASE k = n + 1
    <3>1. v.clauses[k] = c /\ filters[k] = f
      BY <1>3, <1>4, <1>5, <2>1 DEF f
    <3>2. DOMAIN c.at = DOMAIN f.value.of
      BY <1>6 DEF of
    <3>3. \A i \in DOMAIN c.at : c.at[i] \in DOMAIN v.args /\ v.args[c.at[i]] = of[i]
      BY <1>2, <1>3, <1>6, <1>9
    <3> QED BY <1>6, <3>1, <3>2, <3>3 DEF Says, of
  <2>2. CASE k # n + 1
    <3>1. k \in 1..n /\ v.clauses[k] = w.clauses[k]
      BY <1>3, <1>4, <1>5, <2>2
    <3>2. Says(w.clauses[k], w.args, filters[k])
      BY <1>3, <3>1
    <3>3. \A i \in DOMAIN w.args : i \in DOMAIN v.args /\ v.args[i] = w.args[i]
      BY <1>2, <1>3, <1>9
    <3> QED BY <3>1, <3>2, <3>3, Zenon DEF Says
  <2> QED BY <2>1, <2>2
<1> QED BY <1>7, <1>8, <1>10 DEF TurnFits, v, f

LEMMA NoTurnFits ==
    ASSUME NEW filters
    PROVE  TurnFits(NoTurn, filters, 0)
<1>1. Ats(<<>>) = <<>> /\ [i \in DOMAIN <<>> |-> i] = <<>>
  BY DEF Ats
<1>2. InOrder(<<>>, <<>>)
  BY <1>1, FlattenEmpty DEF InOrder
<1> QED BY <1>2 DEF TurnFits, NoTurn

\* What the loop leaves: a condition for each filter, and arguments that fit.
LEMMA FiltersFit ==
    ASSUME NEW filters \in Seq(Criteria)
    PROVE  TurnFits(Turns(filters)[Len(filters)], filters, Len(filters))
<1> DEFINE Good == {n \in Nat : n \in 0..Len(filters)
                                => TurnFits(Turns(filters)[n], filters, n)}
<1>1. Len(filters) \in Nat
  OBVIOUS
<1>2. 0 \in Good
  BY <1>1, TurnsAre, NoTurnFits
<1>3. ASSUME NEW n \in Nat, n \in Good
      PROVE  n + 1 \in Good
  <2>1. SUFFICES ASSUME n + 1 \in 0..Len(filters)
                 PROVE  TurnFits(Turns(filters)[n + 1], filters, n + 1)
    OBVIOUS
  <2>2. n + 1 \in 1..Len(filters) /\ n \in 0..Len(filters) /\ (n + 1) - 1 = n
    BY <2>1
  <2>3. Turns(filters)[n + 1] = AddFilter(Turns(filters)[n], filters[n + 1])
    BY <1>1, <2>2, TurnsAre
  <2> QED BY <1>3, <2>2, <2>3, TurnFitsNext
<1> HIDE DEF Good
<1>4. Len(filters) \in Good
  BY <1>1, <1>2, <1>3, Induction
<1> QED BY <1>1, <1>4 DEF Good

----------------------------------------------------------------------------
(* Maps from columns to values. *)

IsMap(m) ==
    /\ DOMAIN m \subseteq Int /\ IsFiniteSet(DOMAIN m)
    /\ m \in [DOMAIN m -> Arg]

\* The numbers from start on, count of them.
From(start, count) == [i \in 1..count |-> start + i - 1]

LEMMA EqualitiesAre ==
    ASSUME NEW m, IsMap(m), NEW start \in Nat
    PROVE  LET cols == SortedColumns(m)
               n == Cardinality(DOMAIN m)
           IN  /\ n \in Nat /\ Enumerates(cols, DOMAIN m) /\ DOMAIN cols = 1..n
               /\ Args(m) \in Seq(Arg) /\ Len(Args(m)) = n
               /\ \A i \in 1..n : Args(m)[i] = m[cols[i]]
               /\ Equalities(m, start) \in Seq(Clause) /\ Len(Equalities(m, start)) = n
               /\ \A i \in 1..n :
                    Equalities(m, start)[i]
                      = [col |-> cols[i], op |-> "=", at |-> <<start + i - 1>>]
<1> DEFINE cols == SortedColumns(m)
           n == Cardinality(DOMAIN m)
<1>1. n \in Nat
  BY FS_CardinalityType DEF IsMap
<1>2. Enumerates(cols, DOMAIN m)
  BY SortedEnumerates DEF IsMap, SortedColumns
<1>3. cols \in [1..n -> DOMAIN m] /\ DOMAIN cols = 1..n
  BY <1>2 DEF Enumerates
<1> HIDE DEF cols
<1>4. \A i \in 1..n : cols[i] \in Int /\ m[cols[i]] \in Arg
  BY <1>3 DEF IsMap
<1>5. Args(m) = [i \in 1..n |-> m[cols[i]]]
  BY <1>3 DEF Args, cols
<1>6. Args(m) \in Seq(Arg) /\ Len(Args(m)) = n
  BY <1>1, <1>4, <1>5
<1>7. Equalities(m, start)
        = [i \in 1..n |-> [col |-> cols[i], op |-> "=", at |-> <<start + i - 1>>]]
  BY <1>3 DEF Equalities, cols
<1>8. \A i \in 1..n : [col |-> cols[i], op |-> "=", at |-> <<start + i - 1>>] \in Clause
  <2> SUFFICES ASSUME NEW i \in 1..n
               PROVE  [col |-> cols[i], op |-> "=", at |-> <<start + i - 1>>] \in Clause
    OBVIOUS
  <2>1. start + i - 1 \in Nat
    BY <1>1
  <2>2. <<start + i - 1>> \in Seq(Nat)
    BY <2>1
  <2>3. cols[i] \in Int /\ "=" \in Operator
    BY <1>4, TableAssumption DEF AllowedOperators
  <2> QED BY <2>2, <2>3 DEF Clause
<1>9. Equalities(m, start) \in Seq(Clause) /\ Len(Equalities(m, start)) = n
  BY <1>1, <1>7, <1>8
<1> QED BY <1>1, <1>2, <1>3, <1>5, <1>6, <1>7, <1>9 DEF cols

LEMMA EqualitiesNumbers ==
    ASSUME NEW m, IsMap(m), NEW start \in Nat
    PROVE  FlattenSeq(Ats(Equalities(m, start))) = From(start, Len(Args(m)))
<1> DEFINE e == Equalities(m, start)
           n == Len(Args(m))
           Ones(k) == [i \in 1..k |-> <<start + i - 1>>]
           Good == {k \in Nat : k \in 0..n => FlattenSeq(Ones(k)) = From(start, k)}
<1>1. n \in Nat /\ DOMAIN e = 1..n /\ \A i \in 1..n : e[i].at = <<start + i - 1>>
  <2>1. /\ Cardinality(DOMAIN m) \in Nat /\ Len(Args(m)) = Cardinality(DOMAIN m)
        /\ Equalities(m, start) \in Seq(Clause)
        /\ Len(Equalities(m, start)) = Cardinality(DOMAIN m)
    BY EqualitiesAre
  <2>2. \A i \in 1..Cardinality(DOMAIN m) :
          Equalities(m, start)[i]
            = [col |-> SortedColumns(m)[i], op |-> "=", at |-> <<start + i - 1>>]
    BY EqualitiesAre
  <2> QED BY <2>1, <2>2
<1>2. Ats(e) = Ones(n)
  BY <1>1 DEF Ats
<1>3. 0 \in Good
  <2>1. Ones(0) = <<>> /\ From(start, 0) = <<>>
    BY DEF From
  <2> QED BY <2>1, FlattenEmpty
<1>4. ASSUME NEW k \in Nat, k \in Good
      PROVE  k + 1 \in Good
  <2>1. SUFFICES ASSUME k + 1 \in 0..n
                 PROVE  FlattenSeq(Ones(k + 1)) = From(start, k + 1)
    OBVIOUS
  <2>2. FlattenSeq(Ones(k)) = From(start, k)
    BY <1>1, <1>4, <2>1
  <2>3. /\ Ones(k) \in Seq(Seq(Nat)) /\ <<start + k>> \in Seq(Nat)
        /\ Ones(k + 1) = Append(Ones(k), <<start + k>>)
    <3>1. \A i \in 1..k + 1 : <<start + i - 1>> \in Seq(Nat)
      <4> TAKE i \in 1..k + 1
      <4>1. start + i - 1 \in Nat
        OBVIOUS
      <4> QED BY <4>1
    <3>2. Ones(k) \in Seq(Seq(Nat)) /\ Len(Ones(k)) = k
      BY <3>1
    <3>3. Append(Ones(k), <<start + k>>)
            = [i \in 1..k + 1 |-> IF i = k + 1 THEN <<start + k>> ELSE Ones(k)[i]]
      <4> HIDE DEF Ones
      <4> QED BY <3>2
    <3>4. \A i \in 1..k + 1 :
            <<start + i - 1>> = IF i = k + 1 THEN <<start + k>> ELSE Ones(k)[i]
      <4> TAKE i \in 1..k + 1
      <4>1. CASE i = k + 1
        <5>1. start + i - 1 = start + k
          BY <4>1
        <5> QED BY <4>1, <5>1
      <4>2. CASE i # k + 1
        BY <4>2
      <4> QED BY <4>1, <4>2
    <3>5. start + k \in Nat
      OBVIOUS
    <3> QED BY <3>2, <3>3, <3>4, <3>5
  <2>4. FlattenSeq(Ones(k + 1)) = FlattenSeq(Ones(k)) \o <<start + k>>
    <3> HIDE DEF Ones
    <3> QED BY <2>3, FlattenAppend
  <2>5. From(start, k) \o <<start + k>> = From(start, k + 1)
    BY DEF From
  <2> QED BY <2>2, <2>4, <2>5
<1>5. n \in Good
  <2> HIDE DEF Good, n
  <2> QED BY <1>1, <1>3, <1>4, Induction
<1>6. n \in 0..n
  <2> HIDE DEF n
  <2> QED BY <1>1
<1>7. FlattenSeq(Ones(n)) = From(start, n)
  <2> HIDE DEF Ones, n
  <2> QED BY <1>5, <1>6
<1> QED BY <1>2, <1>7, Zenon

----------------------------------------------------------------------------
(* What PostgreSQL makes of a condition or an assignment. *)

LEMMA FilterMeans ==
    ASSUME NEW f \in Criteria, ValidFilter(f), NEW row \in Row,
           NEW clause, Says(clause, built.args, f)
    PROVE  Holds(clause, row) <=> Has(row, f)
<1> DEFINE x == row[f.column]
           of == f.value.of
<1>1. /\ f.column \in Column /\ f.op \in AllowedOperators
      /\ f.op = "IN" => f.value.slice
      /\ f.value.slice \/ of # <<>>
  BY DEF ValidFilter
<1>2. x \in Arg
  BY <1>1 DEF Row, Arg
<1>3. /\ clause.col = f.column /\ clause.op = f.op /\ DOMAIN clause.at = DOMAIN of
      /\ \A i \in DOMAIN of : built.args[clause.at[i]] = of[i]
  BY DEF Says
<1>4. CASE f.op = "IN"
  <2>1. Holds(clause, row) <=> x # None /\ \E i \in DOMAIN of : x = of[i]
    BY <1>3, <1>4 DEF Holds, Compare
  <2>2. Has(row, f) <=> x # None /\ x \in ToSet(of)
    BY <1>4 DEF Has
  <2> QED BY <2>1, <2>2 DEF ToSet
<1>5. CASE f.op # "IN"
  <2>1. PICK v \in Value : of = <<v>>
    BY <1>1, <1>5, CriteriaTypes
  <2>2. v \in Int /\ Head(of) = v /\ DOMAIN of = {1} /\ of[1] = v
    BY <2>1, TableAssumption
  <2>3. Holds(clause, row) <=> x # None /\ Compare(f.op, x, v)
    BY <1>3, <1>5, <2>2 DEF Holds
  <2>4. x # None => x \in Int
    BY <1>2, TableAssumption DEF Arg
  <2>5. x # None =>
          (Compare(f.op, x, v)
           <=> \/ f.op \in {"=", ">=", "<="} /\ x = v
               \/ f.op \in {"!=", ">", ">="} /\ x > v
               \/ f.op \in {"!=", "<", "<="} /\ x < v)
    <3> HIDE DEF x
    <3> SUFFICES ASSUME x \in Int
                 PROVE  Compare(f.op, x, v)
                        <=> \/ f.op \in {"=", ">=", "<="} /\ x = v
                            \/ f.op \in {"!=", ">", ">="} /\ x > v
                            \/ f.op \in {"!=", "<", "<="} /\ x < v
      BY <2>4
    <3>1. CASE f.op = "="
      BY <2>2, <3>1 DEF Compare
    <3>2. CASE f.op = "!="
      BY <2>2, <3>2 DEF Compare
    <3>3. CASE f.op = ">"
      BY <2>2, <3>3 DEF Compare
    <3>4. CASE f.op = ">="
      BY <2>2, <3>4 DEF Compare
    <3>5. CASE f.op = "<"
      BY <2>2, <3>5 DEF Compare
    <3>6. CASE f.op = "<="
      BY <2>2, <3>6 DEF Compare
    <3> QED BY <1>1, <1>5, <3>1, <3>2, <3>3, <3>4, <3>5, <3>6 DEF AllowedOperators
  <2>6. Has(row, f) <=> /\ x # None
                        /\ \/ f.op \in {"=", ">=", "<="} /\ x = v
                           \/ f.op \in {"!=", ">", ">="} /\ x > v
                           \/ f.op \in {"!=", "<", "<="} /\ x < v
    BY <1>5, <2>2 DEF Has
  <2> HIDE DEF x
  <2> QED BY <2>3, <2>5, <2>6
<1> QED BY <1>4, <1>5

\* Conditions made of a map without nil: the row has the map's values.
LEMMA MapMeans ==
    ASSUME NEW m, IsMap(m), DOMAIN m \subseteq Column, \A c \in DOMAIN m : m[c] # None,
           NEW before \in Seq(Arg), NEW start \in Nat, start = Len(before) + 1,
           built.args = before \o Args(m), NEW row \in Row
    PROVE  (\A i \in DOMAIN Equalities(m, start) : Holds(Equalities(m, start)[i], row))
             <=> \A c \in DOMAIN m : row[c] = m[c]
<1> DEFINE cols == SortedColumns(m)
           n == Cardinality(DOMAIN m)
           e == Equalities(m, start)
<1>1. /\ n \in Nat /\ Enumerates(cols, DOMAIN m) /\ DOMAIN cols = 1..n
      /\ Args(m) \in Seq(Arg) /\ Len(Args(m)) = n
      /\ \A i \in 1..n : Args(m)[i] = m[cols[i]]
      /\ e \in Seq(Clause) /\ Len(e) = n
      /\ \A i \in 1..n : e[i] = [col |-> cols[i], op |-> "=", at |-> <<start + i - 1>>]
  BY EqualitiesAre
<1>2. /\ \A i \in 1..n : cols[i] \in DOMAIN m
      /\ \A c \in DOMAIN m : \E i \in 1..n : cols[i] = c
  BY <1>1 DEF Enumerates
<1> HIDE DEF cols, n, e
<1>3. ASSUME NEW i \in 1..n
      PROVE  built.args[start + i - 1] = m[cols[i]]
  <2>1. start + i - 1 = Len(before) + i /\ i \in 1..Len(Args(m))
    BY <1>1
  <2>2. built.args[Len(before) + i] = Args(m)[i]
    BY <1>1, <2>1
  <2> QED BY <1>1, <2>1, <2>2
<1>4. ASSUME NEW i \in 1..n
      PROVE  Holds(e[i], row) <=> row[cols[i]] = m[cols[i]]
  <2>1. Holds(e[i], row) <=> row[cols[i]] # None /\ row[cols[i]] = built.args[start + i - 1]
    <3>1. /\ e[i].col = cols[i] /\ e[i].op = "="
          /\ DOMAIN e[i].at = {1} /\ e[i].at[1] = start + i - 1
      <4>1. e[i] = [col |-> cols[i], op |-> "=", at |-> <<start + i - 1>>]
        BY <1>1
      <4> QED BY <4>1
    <3> QED BY <3>1 DEF Holds, Compare
  <2>2. m[cols[i]] # None
    BY <1>2
  <2> QED BY <1>3, <2>1, <2>2
<1>5. (\A i \in 1..n : Holds(e[i], row)) <=> \A c \in DOMAIN m : row[c] = m[c]
  BY <1>2, <1>4
<1>6. DOMAIN e = 1..n
  BY <1>1
<1> QED BY <1>5, <1>6, Zenon DEF e

\* What SET and VALUES assign is the data of the call.
LEMMA AssignIsWith ==
    ASSUME NEW m, IsMap(m), NEW rest \in Seq(Arg), call.data = m,
           built.set = Equalities(m, 1), built.args = Args(m) \o rest, NEW row
    PROVE  Assign(row) = With(row)
<1> DEFINE cols == SortedColumns(m)
           n == Cardinality(DOMAIN m)
<1>1. /\ n \in Nat /\ Enumerates(cols, DOMAIN m) /\ DOMAIN cols = 1..n
      /\ Args(m) \in Seq(Arg) /\ Len(Args(m)) = n
      /\ \A i \in 1..n : Args(m)[i] = m[cols[i]]
      /\ built.set \in Seq(Clause) /\ Len(built.set) = n
      /\ \A i \in 1..n : built.set[i] = [col |-> cols[i], op |-> "=", at |-> <<1 + i - 1>>]
  BY EqualitiesAre
<1>2. /\ \A i \in 1..n : cols[i] \in DOMAIN m
      /\ \A c \in DOMAIN m : \E i \in 1..n : cols[i] = c
  BY <1>1 DEF Enumerates
<1>3. DOMAIN built.set = 1..n
  BY <1>1
<1> HIDE DEF cols, n
<1>4. ASSUME NEW i \in 1..n
      PROVE  built.set[i].col = cols[i] /\ built.args[built.set[i].at[1]] = m[cols[i]]
  <2>1. built.set[i].col = cols[i] /\ built.set[i].at[1] = i
    <3>1. built.set[i] = [col |-> cols[i], op |-> "=", at |-> <<1 + i - 1>>]
      BY <1>1
    <3>2. 1 + i - 1 = i
      BY <1>1
    <3> QED BY <3>1, <3>2
  <2>2. built.args[i] = Args(m)[i]
    BY <1>1
  <2> QED BY <1>1, <2>1, <2>2
<1>5. \A i \in 1..n : built.set[i].col = cols[i]
  BY <1>4
<1>6. ASSUME NEW c \in Column
      PROVE  Assign(row)[c] = IF c \in DOMAIN m THEN m[c] ELSE row[c]
  <2>1. CASE c \in DOMAIN m
    <3>1. \E i \in DOMAIN built.set : built.set[i].col = c
      BY <1>2, <1>3, <1>5, <2>1
    <3> DEFINE i == CHOOSE i \in DOMAIN built.set : built.set[i].col = c
    <3>2. i \in 1..n /\ built.set[i].col = c
      BY <1>3, <3>1
    <3>3. Assign(row)[c] = built.args[built.set[i].at[1]]
      BY <3>1 DEF Assign
    <3> HIDE DEF i
    <3> QED BY <1>4, <2>1, <3>2, <3>3
  <2>2. CASE c \notin DOMAIN m
    <3>1. ~\E i \in DOMAIN built.set : built.set[i].col = c
      <4>1. \A i \in 1..n : built.set[i].col \in DOMAIN m
        BY <1>2, <1>5
      <4> QED BY <1>3, <2>2, <4>1, Zenon
    <3> QED BY <2>2, <3>1 DEF Assign
  <2> QED BY <2>1, <2>2
<1>7. Assign(row) = [c \in Column |-> Assign(row)[c]]
  BY DEF Assign
<1> HIDE DEF Assign
<1> QED BY <1>6, <1>7 DEF With

----------------------------------------------------------------------------
(* The calls: what call and built are while one is under way. *)

CalledInsert(data, returning) ==
    /\ call = [NoCall EXCEPT !.api = "Insert", !.data = data, !.columns = returning]
    /\ built = BuildInsert(data, returning)

CalledSelectOne(columns, where) ==
    /\ call = [NoCall EXCEPT !.api = "SelectOne", !.columns = columns, !.where = where]
    /\ built = BuildSelectOne(columns, BuildWhere(where, 1))

CalledUpdate(data, where) ==
    /\ call = [NoCall EXCEPT !.api = "Update", !.data = data, !.where = where]
    /\ built = BuildUpdate(data, where)

CalledDelete(where) ==
    /\ call = [NoCall EXCEPT !.api = "Delete", !.where = where]
    /\ built = BuildDelete(where)

CalledSelectOneWithFilters(filters) ==
    /\ call = [NoCall EXCEPT !.api = "SelectOneWithFilters", !.columns = AllColumns,
                             !.filters = filters]
    /\ built = BuildSelectOne(AllColumns, BuildWhereFilters(filters))

\* The map of the first listing: active credentials of the user.
Own(user) == [c \in {UserId, IsActive} |-> IF c = UserId THEN user ELSE Active]

CalledPaginated(user, limit, offset) ==
    /\ call = [NoCall EXCEPT !.api = "Paginated", !.user = user, !.columns = AllColumns,
                             !.opts.limit = limit, !.opts.offset = offset]
    /\ built = BuildSelect(AllColumns, BuildWhere(Own(user), 1),
                           SelectOptions(limit, offset))

CalledFiltered(user, filters, opts) ==
    /\ call = [NoCall EXCEPT !.api = "Filtered", !.user = user, !.columns = AllColumns,
                             !.filters = filters, !.opts = opts]
    /\ built = BuildSelect(AllColumns, BuildWhereFilters(MapFilters(user, filters)), opts)

Called ==
    \/ \E data \in Maps, returning \in Lists : CalledInsert(data, returning)
    \/ \E columns \in Lists, where \in Maps : CalledSelectOne(columns, where)
    \/ \E data \in Maps, where \in Maps : CalledUpdate(data, where)
    \/ \E where \in Maps : CalledDelete(where)
    \/ \E l \in Listings : CalledSelectOneWithFilters(l.filters)
    \/ \E user \in Value, limit \in Numbers, offset \in Numbers :
         CalledPaginated(user, limit, offset)
    \/ \E user \in Value, l \in Listings : CalledFiltered(user, l.filters, l.opts)

\* Refused, or this statement.
Builds(verb, set, where, opts, args) ==
    built = IF built.ok THEN Statement(verb, set, where, opts, args) ELSE Refused

LEMMA MapInputs == \A m \in Maps : IsMap(m)
BY InputAssumption DEF IsMap, Arg

LEMMA ListingInputs ==
    ASSUME NEW l \in Listings
    PROVE  /\ l.filters \in Seq(Criteria)
           /\ l.opts.order \in Seq([column: Int, direction: STRING])
           /\ l.opts.limit \in Int \cup {None} /\ l.opts.offset \in Int \cup {None}
           /\ l.opts = [order |-> l.opts.order, limit |-> l.opts.limit,
                        offset |-> l.opts.offset]
BY InputAssumption

LEMMA AllColumnsAre == AllColumns # <<>> /\ ToSet(AllColumns) = Column
<1>1. Enumerates(AllColumns, Column)
  BY SortedEnumerates, TableAssumption DEF AllColumns
<1>2. /\ \A c \in Column : \E i \in DOMAIN AllColumns : AllColumns[i] = c
      /\ \A i \in DOMAIN AllColumns : AllColumns[i] \in Column
  BY <1>1 DEF Enumerates
<1>3. ToSet(AllColumns) = Column
  BY <1>2 DEF ToSet
<1>4. AllColumns # <<>>
  <2>1. DOMAIN AllColumns # {}
    BY <1>2, TableAssumption
  <2> QED BY <2>1
<1> QED BY <1>3, <1>4

\* Conditions are empty when and only when what they are made of is.
LEMMA WhereEmpty ==
    ASSUME NEW m, IsMap(m), NEW start \in Nat
    PROVE  Equalities(m, start) = <<>> <=> DOMAIN m = {}
<1>1. Equalities(m, start) \in Seq(Clause)
      /\ Len(Equalities(m, start)) = Cardinality(DOMAIN m)
  BY EqualitiesAre
<1>2. Cardinality(DOMAIN m) = 0 <=> DOMAIN m = {}
  BY FS_EmptySet DEF IsMap
<1> QED BY <1>1, <1>2

LEMMA NoCallIs ==
    /\ NoCall.columns = <<>> /\ NoCall.data = <<>> /\ NoCall.where = <<>>
    /\ NoCall.filters = <<>> /\ NoCall.opts = NoOptions
    /\ NoOptions.order = <<>> /\ NoOptions.limit = None /\ NoOptions.offset = None
BY DEF NoCall, NoOptions

\* MakesSense, its sets taken apart.
LEMMA SenseIs ==
    MakesSense <=>
    /\ ToSet(call.columns) \subseteq Column
    /\ DOMAIN call.data \subseteq Column /\ DOMAIN call.where \subseteq Column
    /\ \A c \in DOMAIN call.where : call.where[c] # None
    /\ \A i \in DOMAIN call.filters :
         /\ call.filters[i].column \in Column
         /\ call.filters[i].value.of # <<>>
         /\ call.filters[i].op = "IN" => call.filters[i].value.slice
         /\ call.filters[i].op \in AllowedOperators
    /\ \A i \in DOMAIN call.opts.order :
         /\ call.opts.order[i].column \in Column
         /\ call.opts.order[i].direction \in {"ASC", "DESC"}
    /\ call.api = "Filtered" => /\ call.opts.limit = None \/ call.opts.limit >= 0
                                /\ call.opts.offset = None \/ call.opts.offset >= 0
    /\ call.api \in {"Insert", "Update"} => DOMAIN call.data # {}
    /\ call.api \in {"SelectOne", "Update", "Delete"} => DOMAIN call.where # {}
    /\ call.api = "SelectOneWithFilters" => call.filters # <<>>
    /\ call.api = "SelectOne" => call.columns # <<>>
<1> DEFINE used == ToSet(call.columns) \cup DOMAIN call.data \cup DOMAIN call.where
                   \cup {call.filters[i].column : i \in DOMAIN call.filters}
                   \cup {call.opts.order[i].column : i \in DOMAIN call.opts.order}
<1>1. used \subseteq Column <=>
        /\ ToSet(call.columns) \subseteq Column
        /\ DOMAIN call.data \subseteq Column /\ DOMAIN call.where \subseteq Column
        /\ \A i \in DOMAIN call.filters : call.filters[i].column \in Column
        /\ \A i \in DOMAIN call.opts.order : call.opts.order[i].column \in Column
  BY Zenon
<1>2. None \notin {call.where[c] : c \in DOMAIN call.where}
        <=> \A c \in DOMAIN call.where : call.where[c] # None
  BY Zenon
<1>3. (\A n \in {call.opts.limit, call.opts.offset} : n = None \/ n >= 0)
        <=> /\ call.opts.limit = None \/ call.opts.limit >= 0
            /\ call.opts.offset = None \/ call.opts.offset >= 0
  OBVIOUS
<1>4. {"=", "!=", "<", "<=", ">", ">=", "IN"} = AllowedOperators
  BY DEF AllowedOperators
<1>5. (\A i \in DOMAIN call.filters :
         /\ call.filters[i].column \in Column
         /\ call.filters[i].value.of # <<>>
         /\ call.filters[i].op = "IN" => call.filters[i].value.slice
         /\ call.filters[i].op \in AllowedOperators)
        <=> /\ \A i \in DOMAIN call.filters : call.filters[i].column \in Column
            /\ \A i \in DOMAIN call.filters :
                 /\ call.filters[i].value.of # <<>>
                 /\ call.filters[i].op = "IN" => call.filters[i].value.slice
                 /\ call.filters[i].op \in AllowedOperators
  BY Zenon
<1>6. (\A i \in DOMAIN call.opts.order :
         /\ call.opts.order[i].column \in Column
         /\ call.opts.order[i].direction \in {"ASC", "DESC"})
        <=> /\ \A i \in DOMAIN call.opts.order : call.opts.order[i].column \in Column
            /\ \A i \in DOMAIN call.opts.order :
                 call.opts.order[i].direction \in {"ASC", "DESC"}
  BY Zenon
<1>7. MakesSense <=>
        /\ used \subseteq Column
        /\ None \notin {call.where[c] : c \in DOMAIN call.where}
        /\ \A i \in DOMAIN call.filters :
             /\ call.filters[i].value.of # <<>>
             /\ call.filters[i].op = "IN" => call.filters[i].value.slice
             /\ call.filters[i].op \in AllowedOperators
        /\ \A i \in DOMAIN call.opts.order :
             call.opts.order[i].direction \in {"ASC", "DESC"}
        /\ call.api = "Filtered"
           => \A n \in {call.opts.limit, call.opts.offset} : n = None \/ n >= 0
        /\ call.api \in {"Insert", "Update"} => DOMAIN call.data # {}
        /\ call.api \in {"SelectOne", "Update", "Delete"} => DOMAIN call.where # {}
        /\ call.api = "SelectOneWithFilters" => call.filters # <<>>
        /\ call.api = "SelectOne" => call.columns # <<>>
  BY <1>4, Zenon DEF MakesSense
<1> HIDE DEF used
<1> QED BY <1>1, <1>2, <1>3, <1>5, <1>6, <1>7

LEMMA InsertIs ==
    ASSUME NEW data \in Maps, NEW returning \in Lists, CalledInsert(data, returning)
    PROVE  /\ Builds("INSERT", Equalities(data, 1), <<>>, NoOptions, Args(data))
           /\ built.ok <=> MakesSense
           /\ built.ok => DOMAIN data \subseteq Column
<1>1. /\ call.api = "Insert" /\ call.data = data /\ call.columns = returning
      /\ call.where = <<>> /\ call.filters = <<>> /\ call.opts = NoOptions
  BY DEF CalledInsert, NoCall
<1>2. built = BuildInsert(data, returning)
  BY DEF CalledInsert
<1>3. Builds("INSERT", Equalities(data, 1), <<>>, NoOptions, Args(data))
  BY <1>2 DEF Builds, BuildInsert, Statement, Refused
<1>4. built.ok <=> DOMAIN data # {} /\ DOMAIN data \cup ToSet(returning) \subseteq Column
  BY <1>2 DEF BuildInsert, Statement, Refused
<1>5. MakesSense <=> DOMAIN data # {} /\ DOMAIN data \cup ToSet(returning) \subseteq Column
  <2>1. DOMAIN call.where = {} /\ DOMAIN call.filters = {} /\ DOMAIN call.opts.order = {}
    BY <1>1, NoCallIs
  <2> QED BY <1>1, <2>1, SenseIs
<1> QED BY <1>3, <1>4, <1>5

LEMMA SelectOneIs ==
    ASSUME NEW columns \in Lists, NEW where \in Maps, CalledSelectOne(columns, where)
    PROVE  /\ Builds("SELECT", <<>>, Equalities(where, 1),
                     [NoOptions EXCEPT !.limit = 1], Args(where))
           /\ built.ok <=> MakesSense
           /\ built.ok => DOMAIN where \subseteq Column /\ \A c \in DOMAIN where : where[c] # None
<1> DEFINE w == BuildWhere(where, 1)
           one == [NoOptions EXCEPT !.limit = 1]
<1>1. /\ call.api = "SelectOne" /\ call.columns = columns /\ call.where = where
      /\ call.data = <<>> /\ call.filters = <<>> /\ call.opts = NoOptions
  BY DEF CalledSelectOne, NoCall
<1>2. built = BuildSelectOne(columns, w)
  BY DEF CalledSelectOne
<1>3. /\ w.clauses = Equalities(where, 1) /\ w.args = Args(where)
      /\ w.ok <=> DOMAIN where \subseteq Column /\ \A c \in DOMAIN where : where[c] # None
  BY DEF BuildWhere
<1>4. w.clauses = <<>> <=> DOMAIN where = {}
  BY <1>3, MapInputs, WhereEmpty
<1>5. ValidOptions(one)
  BY NoCallIs, TableAssumption DEF ValidOptions, NoOptions
<1> HIDE DEF w, one
<1>6. Builds("SELECT", <<>>, w.clauses, one, w.args)
  BY <1>2 DEF Builds, BuildSelectOne, BuildSelect, Statement, Refused, one
<1>7. built.ok <=> /\ DOMAIN where # {} /\ columns # <<>> /\ ToSet(columns) \subseteq Column
                   /\ w.ok
  BY <1>2, <1>4, <1>5 DEF BuildSelectOne, BuildSelect, Statement, Refused, one
<1>8. MakesSense <=> /\ DOMAIN where # {} /\ columns # <<>> /\ ToSet(columns) \subseteq Column
                     /\ w.ok
  <2>1. DOMAIN call.data = {} /\ DOMAIN call.filters = {} /\ DOMAIN call.opts.order = {}
    BY <1>1, NoCallIs
  <2> QED BY <1>1, <1>3, <2>1, SenseIs
<1> QED BY <1>3, <1>6, <1>7, <1>8 DEF one

LEMMA UpdateIs ==
    ASSUME NEW data \in Maps, NEW where \in Maps, CalledUpdate(data, where)
    PROVE  /\ Builds("UPDATE", Equalities(data, 1), Equalities(where, Len(Args(data)) + 1),
                     NoOptions, Args(data) \o Args(where))
           /\ built.ok <=> MakesSense
           /\ built.ok => DOMAIN where \subseteq Column /\ \A c \in DOMAIN where : where[c] # None
<1> DEFINE w == BuildWhere(where, Len(Args(data)) + 1)
<1>1. /\ call.api = "Update" /\ call.data = data /\ call.where = where
      /\ call.columns = <<>> /\ call.filters = <<>> /\ call.opts = NoOptions
  BY DEF CalledUpdate, NoCall
<1>2. built = BuildUpdate(data, where)
  BY DEF CalledUpdate
<1>3. /\ w.clauses = Equalities(where, Len(Args(data)) + 1) /\ w.args = Args(where)
      /\ w.ok <=> DOMAIN where \subseteq Column /\ \A c \in DOMAIN where : where[c] # None
  BY DEF BuildWhere
<1> HIDE DEF w
<1>4. Builds("UPDATE", Equalities(data, 1), w.clauses, NoOptions, Args(data) \o w.args)
  BY <1>2 DEF Builds, BuildUpdate, Statement, Refused, w
<1>5. built.ok <=> /\ DOMAIN data # {} /\ DOMAIN where # {} /\ DOMAIN data \subseteq Column
                   /\ w.ok
  BY <1>2 DEF BuildUpdate, Statement, Refused, w
<1>6. MakesSense <=> /\ DOMAIN data # {} /\ DOMAIN where # {} /\ DOMAIN data \subseteq Column
                     /\ w.ok
  <2>1. ToSet(call.columns) = {} /\ DOMAIN call.filters = {} /\ DOMAIN call.opts.order = {}
    BY <1>1, NoCallIs DEF ToSet
  <2> QED BY <1>1, <1>3, <2>1, SenseIs
<1> QED BY <1>3, <1>4, <1>5, <1>6

LEMMA DeleteIs ==
    ASSUME NEW where \in Maps, CalledDelete(where)
    PROVE  /\ Builds("DELETE", <<>>, Equalities(where, 1), NoOptions, Args(where))
           /\ built.ok <=> MakesSense
           /\ built.ok => DOMAIN where \subseteq Column /\ \A c \in DOMAIN where : where[c] # None
<1> DEFINE w == BuildWhere(where, 1)
<1>1. /\ call.api = "Delete" /\ call.where = where /\ call.data = <<>>
      /\ call.columns = <<>> /\ call.filters = <<>> /\ call.opts = NoOptions
  BY DEF CalledDelete, NoCall
<1>2. built = BuildDelete(where)
  BY DEF CalledDelete
<1>3. /\ w.clauses = Equalities(where, 1) /\ w.args = Args(where)
      /\ w.ok <=> DOMAIN where \subseteq Column /\ \A c \in DOMAIN where : where[c] # None
  BY DEF BuildWhere
<1> HIDE DEF w
<1>4. Builds("DELETE", <<>>, w.clauses, NoOptions, w.args)
  BY <1>2 DEF Builds, BuildDelete, Statement, Refused, w
<1>5. built.ok <=> DOMAIN where # {} /\ w.ok
  BY <1>2 DEF BuildDelete, Statement, Refused, w
<1>6. MakesSense <=> DOMAIN where # {} /\ w.ok
  <2>1. /\ ToSet(call.columns) = {} /\ DOMAIN call.data = {}
        /\ DOMAIN call.filters = {} /\ DOMAIN call.opts.order = {}
    BY <1>1, NoCallIs DEF ToSet
  <2> QED BY <1>1, <1>3, <2>1, SenseIs
<1> QED BY <1>3, <1>4, <1>5, <1>6

LEMMA ValidIs ==
    ASSUME NEW f \in Criteria
    PROVE  ValidFilter(f) <=> /\ f.column \in Column /\ f.value.of # <<>>
                              /\ f.op = "IN" => f.value.slice
                              /\ f.op \in AllowedOperators
BY CriteriaTypes DEF ValidFilter

\* The conditions and arguments that filters leave behind.
LEMMA WhereFiltersAre ==
    ASSUME NEW filters \in Seq(Criteria)
    PROVE  LET w == BuildWhereFilters(filters)
           IN  /\ w.ok <=> \A i \in DOMAIN filters : ValidFilter(filters[i])
               /\ w.clauses \in Seq(Clause) /\ w.args \in Seq(Arg)
               /\ Len(w.clauses) = Len(filters)
               /\ \A k \in 1..Len(filters) : Says(w.clauses[k], w.args, filters[k])
               /\ InOrder(w.clauses, w.args)
BY FiltersFit DEF TurnFits, BuildWhereFilters

LEMMA SelectOneWithFiltersIs ==
    ASSUME NEW l \in Listings, CalledSelectOneWithFilters(l.filters)
    PROVE  LET w == BuildWhereFilters(l.filters)
           IN  /\ Builds("SELECT", <<>>, w.clauses, [NoOptions EXCEPT !.limit = 1], w.args)
               /\ built.ok <=> MakesSense
               /\ built.ok => \A i \in DOMAIN l.filters : ValidFilter(l.filters[i])
<1> DEFINE w == BuildWhereFilters(l.filters)
           one == [NoOptions EXCEPT !.limit = 1]
<1>1. /\ call.api = "SelectOneWithFilters" /\ call.columns = AllColumns
      /\ call.filters = l.filters /\ call.where = <<>> /\ call.data = <<>>
      /\ call.opts = NoOptions
  BY DEF CalledSelectOneWithFilters, NoCall
<1>2. built = BuildSelectOne(AllColumns, w)
  BY DEF CalledSelectOneWithFilters
<1>3. l.filters \in Seq(Criteria)
  BY ListingInputs
<1>4. /\ w.ok <=> \A i \in DOMAIN l.filters : ValidFilter(l.filters[i])
      /\ w.clauses \in Seq(Clause) /\ Len(w.clauses) = Len(l.filters)
  BY <1>3, WhereFiltersAre
<1> HIDE DEF w, one
<1>5. w.clauses = <<>> <=> l.filters = <<>>
  BY <1>3, <1>4
<1>6. ValidOptions(one)
  BY NoCallIs, TableAssumption DEF ValidOptions, NoOptions, one
<1>7. Builds("SELECT", <<>>, w.clauses, one, w.args)
  BY <1>2 DEF Builds, BuildSelectOne, BuildSelect, Statement, Refused, one
<1>8. built.ok <=> l.filters # <<>> /\ w.ok
  BY <1>2, <1>5, <1>6, AllColumnsAre DEF BuildSelectOne, BuildSelect, Statement, Refused, one
<1>9. MakesSense <=> l.filters # <<>> /\ w.ok
  <2>1. /\ DOMAIN call.data = {} /\ DOMAIN call.where = {} /\ DOMAIN call.opts.order = {}
        /\ ToSet(call.columns) \subseteq Column
    BY <1>1, NoCallIs, AllColumnsAre
  <2>2. \A i \in DOMAIN l.filters :
          ValidFilter(l.filters[i])
            <=> /\ l.filters[i].column \in Column /\ l.filters[i].value.of # <<>>
                /\ l.filters[i].op = "IN" => l.filters[i].value.slice
                /\ l.filters[i].op \in AllowedOperators
    BY <1>3, ValidIs
  <2> QED BY <1>1, <1>4, <2>1, <2>2, SenseIs
<1> QED BY <1>4, <1>7, <1>8, <1>9 DEF w, one

LEMMA OwnIs ==
    ASSUME NEW user \in Value
    PROVE  /\ IsMap(Own(user)) /\ DOMAIN Own(user) = {UserId, IsActive}
           /\ Own(user)[UserId] = user /\ Own(user)[IsActive] = Active
           /\ DOMAIN Own(user) \subseteq Column
           /\ \A c \in DOMAIN Own(user) : Own(user)[c] # None
<1>1. /\ DOMAIN Own(user) = {UserId, IsActive}
      /\ Own(user)[UserId] = user /\ Own(user)[IsActive] = Active
      /\ DOMAIN Own(user) \subseteq Column
      /\ user \in Value /\ user # None /\ Active # None /\ Active \in Value
  BY TableAssumption DEF Own
<1>2. IsFiniteSet(DOMAIN Own(user))
  BY <1>1, TableAssumption, FS_Subset
<1>3. Own(user) \in [DOMAIN Own(user) -> Arg]
  BY <1>1 DEF Own, Arg
<1> QED BY <1>1, <1>2, <1>3, TableAssumption DEF IsMap

LEMMA PaginatedIs ==
    ASSUME NEW user \in Value, NEW limit \in Numbers, NEW offset \in Numbers,
           CalledPaginated(user, limit, offset)
    PROVE  /\ Builds("SELECT", <<>>, Equalities(Own(user), 1),
                     SelectOptions(limit, offset), Args(Own(user)))
           /\ built.ok /\ MakesSense
<1> DEFINE w == BuildWhere(Own(user), 1)
           opts == SelectOptions(limit, offset)
<1>1. /\ call.api = "Paginated" /\ call.columns = AllColumns /\ call.where = <<>>
      /\ call.data = <<>> /\ call.filters = <<>> /\ call.opts.order = <<>>
  BY NoCallIs DEF CalledPaginated, NoCall, NoOptions
<1>2. built = BuildSelect(AllColumns, w, opts)
  BY DEF CalledPaginated
<1>3. w.clauses = Equalities(Own(user), 1) /\ w.args = Args(Own(user)) /\ w.ok
  BY OwnIs DEF BuildWhere
<1>4. ValidOptions(opts)
  BY InputAssumption, TableAssumption DEF ValidOptions, SelectOptions
<1> HIDE DEF w, opts
<1>5. built = Statement("SELECT", <<>>, w.clauses, opts, w.args)
  BY <1>2, <1>3, <1>4, AllColumnsAre DEF BuildSelect
<1>6. MakesSense
  <2>1. /\ DOMAIN call.data = {} /\ DOMAIN call.where = {} /\ DOMAIN call.filters = {}
        /\ DOMAIN call.opts.order = {} /\ ToSet(call.columns) \subseteq Column
    BY <1>1, AllColumnsAre
  <2> QED BY <1>1, <2>1, SenseIs
<1>7. built.ok
  BY <1>5 DEF Statement
<1> QED BY <1>3, <1>5, <1>6, <1>7 DEF Builds, opts

\* The filter that mapFilters puts before the others.
ByUser(user) ==
    [column |-> UserId, op |-> "=", value |-> [slice |-> FALSE, of |-> <<user>>]]

LEMMA ByUserIs ==
    ASSUME NEW user \in Value
    PROVE  ByUser(user) \in Criteria /\ ValidFilter(ByUser(user))
<1>1. UserId \in Int /\ UserId \in Column /\ "=" \in Operator
  BY TableAssumption DEF AllowedOperators
<1>2. <<user>> \in Seq(Value \cup {None}) /\ <<user>> # <<>>
  OBVIOUS
<1>3. [slice |-> FALSE, of |-> <<user>>] \in [slice: BOOLEAN, of: Seq(Value \cup {None})]
  BY <1>2
<1>4. ByUser(user) \in Criteria
  BY <1>1, <1>3 DEF ByUser, Criteria
<1>5. ValidFilter(ByUser(user))
  BY <1>1, <1>2 DEF ByUser, ValidFilter, AllowedOperators
<1> QED BY <1>4, <1>5

LEMMA MapFiltersAre ==
    ASSUME NEW user \in Value, NEW filters \in Seq(Criteria)
    PROVE  LET all == MapFilters(user, filters)
           IN  /\ all \in Seq(Criteria) /\ Len(all) = Len(filters) + 1
               /\ all[1] = ByUser(user)
               /\ \A i \in 1..Len(filters) : all[i + 1] = filters[i]
               /\ (\A i \in DOMAIN all : ValidFilter(all[i]))
                    <=> \A i \in DOMAIN filters : ValidFilter(filters[i])
<1> DEFINE all == MapFilters(user, filters)
<1>1. all = <<ByUser(user)>> \o filters /\ <<ByUser(user)>> \in Seq(Criteria)
  BY ByUserIs DEF MapFilters, ByUser
<1>2. /\ all \in Seq(Criteria) /\ Len(all) = Len(filters) + 1
      /\ all[1] = ByUser(user)
      /\ \A i \in 1..Len(filters) : all[i + 1] = filters[i]
  <2> HIDE DEF all
  <2> QED BY <1>1
<1>3. DOMAIN all = {1} \cup {i + 1 : i \in 1..Len(filters)}
  <2> HIDE DEF all
  <2>1. DOMAIN all = 1..Len(filters) + 1 /\ Len(filters) \in Nat
    BY <1>2
  <2>2. ASSUME NEW k \in 1..Len(filters) + 1
        PROVE  k = 1 \/ \E i \in 1..Len(filters) : k = i + 1
    <3>1. CASE k # 1
      <4>1. k - 1 \in 1..Len(filters) /\ k = (k - 1) + 1
        BY <2>1, <3>1
      <4> QED BY <4>1
    <3> QED BY <3>1
  <2>3. \A i \in 1..Len(filters) : i + 1 \in 1..Len(filters) + 1
    BY <2>1
  <2>4. 1 \in 1..Len(filters) + 1
    BY <2>1
  <2> QED BY <2>1, <2>2, <2>3, <2>4
<1>4. ValidFilter(all[1])
  BY <1>2, ByUserIs
<1>5. DOMAIN filters = 1..Len(filters)
  OBVIOUS
<1> HIDE DEF all
<1>6. (\A i \in DOMAIN all : ValidFilter(all[i]))
        <=> \A i \in DOMAIN filters : ValidFilter(filters[i])
  <2>1. (\A i \in DOMAIN all : ValidFilter(all[i]))
          <=> \A i \in 1..Len(filters) : ValidFilter(all[i + 1])
    BY <1>3, <1>4, Zenon
  <2> QED BY <1>2, <1>5, <2>1
<1> QED BY <1>2, <1>6 DEF all

LEMMA FilteredIs ==
    ASSUME NEW user \in Value, NEW l \in Listings, CalledFiltered(user, l.filters, l.opts)
    PROVE  LET w == BuildWhereFilters(MapFilters(user, l.filters))
           IN  /\ Builds("SELECT", <<>>, w.clauses, l.opts, w.args)
               /\ built.ok <=> MakesSense
               /\ built.ok => /\ ValidOptions(l.opts)
                              /\ \A i \in DOMAIN l.filters : ValidFilter(l.filters[i])
<1> DEFINE all == MapFilters(user, l.filters)
           w == BuildWhereFilters(all)
<1>1. /\ call.api = "Filtered" /\ call.columns = AllColumns /\ call.where = <<>>
      /\ call.data = <<>> /\ call.filters = l.filters /\ call.opts = l.opts
  BY DEF CalledFiltered, NoCall
<1>2. built = BuildSelect(AllColumns, w, l.opts)
  BY DEF CalledFiltered
<1>3. l.filters \in Seq(Criteria)
  BY ListingInputs
<1>4. all \in Seq(Criteria)
  BY <1>3, MapFiltersAre
<1>5. w.ok <=> \A i \in DOMAIN l.filters : ValidFilter(l.filters[i])
  <2>1. w.ok <=> \A i \in DOMAIN all : ValidFilter(all[i])
    <3> HIDE DEF all
    <3> QED BY <1>4, WhereFiltersAre
  <2>2. (\A i \in DOMAIN all : ValidFilter(all[i]))
          <=> \A i \in DOMAIN l.filters : ValidFilter(l.filters[i])
    BY <1>3, MapFiltersAre
  <2> HIDE DEF w, all
  <2> QED BY <2>1, <2>2
<1> HIDE DEF w, all
<1>6. Builds("SELECT", <<>>, w.clauses, l.opts, w.args)
  BY <1>2 DEF Builds, BuildSelect, Statement, Refused
<1>7. built.ok <=> w.ok /\ ValidOptions(l.opts)
  BY <1>2, AllColumnsAre DEF BuildSelect, Statement, Refused
<1>8. MakesSense <=> w.ok /\ ValidOptions(l.opts)
  <2>1. /\ DOMAIN call.data = {} /\ DOMAIN call.where = {}
        /\ ToSet(call.columns) \subseteq Column
    BY <1>1, AllColumnsAre
  <2>2. \A i \in DOMAIN l.filters :
          ValidFilter(l.filters[i])
            <=> /\ l.filters[i].column \in Column /\ l.filters[i].value.of # <<>>
                /\ l.filters[i].op = "IN" => l.filters[i].value.slice
                /\ l.filters[i].op \in AllowedOperators
    BY <1>3, ValidIs
  <2>3. ValidOptions(l.opts)
          <=> /\ \A i \in DOMAIN l.opts.order :
                   /\ l.opts.order[i].column \in Column
                   /\ l.opts.order[i].direction \in {"ASC", "DESC"}
              /\ l.opts.limit = None \/ l.opts.limit >= 0
              /\ l.opts.offset = None \/ l.opts.offset >= 0
    BY DEF ValidOptions
  <2> QED BY <1>1, <1>5, <2>1, <2>2, <2>3, SenseIs
<1> QED BY <1>5, <1>6, <1>7, <1>8 DEF w, all

----------------------------------------------------------------------------
(* Placeholders. *)

LEMMA FitIs ==
    PlaceholdersFit <=> FlattenSeq(Ats(built.set)) \o FlattenSeq(Ats(built.where))
                          = [i \in DOMAIN built.args |-> i]
BY DEF PlaceholdersFit, Ats

LEMMA AtsEmpty == FlattenSeq(Ats(<<>>)) = <<>>
<1>1. Ats(<<>>) = <<>>
  BY DEF Ats
<1> QED BY <1>1, FlattenEmpty

LEMMA RefusedFits == built = Refused => PlaceholdersFit
<1>1. SUFFICES ASSUME built = Refused PROVE PlaceholdersFit
  OBVIOUS
<1>2. built.set = <<>> /\ built.where = <<>> /\ built.args = <<>>
  BY <1>1 DEF Refused
<1>3. <<>> \o <<>> = [i \in DOMAIN <<>> |-> i]
  OBVIOUS
<1> QED BY <1>2, <1>3, AtsEmpty, FitIs

\* SET or VALUES of one map, and WHERE of another that goes on from it.
LEMMA MapsFit ==
    ASSUME NEW data, IsMap(data), NEW where, IsMap(where),
           built.set = Equalities(data, 1),
           built.where = Equalities(where, Len(Args(data)) + 1),
           built.args = Args(data) \o Args(where)
    PROVE  PlaceholdersFit
<1> DEFINE k == Len(Args(data))
           n == Len(Args(where))
<1>1. Args(data) \in Seq(Arg) /\ Args(where) \in Seq(Arg) /\ k \in Nat /\ n \in Nat
  BY EqualitiesAre
<1>2. /\ FlattenSeq(Ats(built.set)) = From(1, k)
      /\ FlattenSeq(Ats(built.where)) = From(k + 1, n)
  <2> HIDE DEF k, n
  <2> QED BY <1>1, EqualitiesNumbers DEF k, n
<1>3. DOMAIN built.args = 1..k + n
  BY <1>1
<1> HIDE DEF k, n
<1>4. From(1, k) \o From(k + 1, n) = [i \in 1..k + n |-> i]
  <2>1. From(1, k) = [i \in 1..k |-> i] /\ From(k + 1, n) = [i \in 1..n |-> k + i]
    BY <1>1 DEF From
  <2>2. [i \in 1..k |-> i] \o [i \in 1..n |-> k + i] = [i \in 1..k + n |-> i]
    BY <1>1
  <2> QED BY <2>1, <2>2
<1> QED BY <1>2, <1>3, <1>4, FitIs

LEMMA OneMapFits ==
    ASSUME NEW m, IsMap(m), built.args = Args(m),
           \/ built.set = Equalities(m, 1) /\ built.where = <<>>
           \/ built.set = <<>> /\ built.where = Equalities(m, 1)
    PROVE  PlaceholdersFit
<1> DEFINE n == Len(Args(m))
<1>1. Args(m) \in Seq(Arg) /\ n \in Nat /\ DOMAIN built.args = 1..n
  BY EqualitiesAre
<1>2. FlattenSeq(Ats(Equalities(m, 1))) = From(1, n)
  BY EqualitiesNumbers
<1> HIDE DEF n
<1>3. From(1, n) = [i \in 1..n |-> i] /\ From(1, n) \in Seq(Nat)
  BY <1>1 DEF From
<1>4. <<>> \o From(1, n) = From(1, n) /\ From(1, n) \o <<>> = From(1, n)
  BY <1>3
<1> QED BY <1>1, <1>2, <1>3, <1>4, AtsEmpty, FitIs

LEMMA FiltersFitToo ==
    ASSUME built.set = <<>>, built.where \in Seq(Clause), built.args \in Seq(Arg),
           InOrder(built.where, built.args)
    PROVE  PlaceholdersFit
<1>1. FlattenSeq(Ats(built.where)) = [i \in 1..Len(built.args) |-> i]
  BY DEF InOrder
<1>2. <<>> \o [i \in 1..Len(built.args) |-> i] = [i \in 1..Len(built.args) |-> i]
  OBVIOUS
<1> QED BY <1>1, <1>2, AtsEmpty, FitIs

LEMMA CalledFits == Called => PlaceholdersFit
<1>1. SUFFICES ASSUME Called, built # Refused PROVE PlaceholdersFit
  BY RefusedFits
<1>2. ASSUME NEW verb, NEW set, NEW where, NEW opts, NEW args,
             Builds(verb, set, where, opts, args)
      PROVE  built.set = set /\ built.where = where /\ built.args = args
  BY <1>1, <1>2 DEF Builds, Statement
<1>3. ASSUME NEW data \in Maps, NEW returning \in Lists, CalledInsert(data, returning)
      PROVE  PlaceholdersFit
  BY <1>2, <1>3, InsertIs, MapInputs, OneMapFits
<1>4. ASSUME NEW columns \in Lists, NEW where \in Maps, CalledSelectOne(columns, where)
      PROVE  PlaceholdersFit
  BY <1>2, <1>4, SelectOneIs, MapInputs, OneMapFits
<1>5. ASSUME NEW data \in Maps, NEW where \in Maps, CalledUpdate(data, where)
      PROVE  PlaceholdersFit
  <2> DEFINE set == Equalities(data, 1)
             conditions == Equalities(where, Len(Args(data)) + 1)
             args == Args(data) \o Args(where)
  <2>1. Builds("UPDATE", set, conditions, NoOptions, args)
    BY <1>5, UpdateIs
  <2>2. built.set = set /\ built.where = conditions /\ built.args = args
    <3> HIDE DEF set, conditions, args
    <3> QED BY <1>2, <2>1
  <2> QED BY <2>2, MapInputs, MapsFit
<1>6. ASSUME NEW where \in Maps, CalledDelete(where)
      PROVE  PlaceholdersFit
  BY <1>2, <1>6, DeleteIs, MapInputs, OneMapFits
<1>7. ASSUME NEW l \in Listings, CalledSelectOneWithFilters(l.filters)
      PROVE  PlaceholdersFit
  <2> DEFINE w == BuildWhereFilters(l.filters)
  <2>1. built.set = <<>> /\ built.where = w.clauses /\ built.args = w.args
    BY <1>2, <1>7, SelectOneWithFiltersIs
  <2>2. w.clauses \in Seq(Clause) /\ w.args \in Seq(Arg) /\ InOrder(w.clauses, w.args)
    BY ListingInputs, WhereFiltersAre
  <2> HIDE DEF w
  <2> QED BY <2>1, <2>2, FiltersFitToo
<1>8. ASSUME NEW user \in Value, NEW limit \in Numbers, NEW offset \in Numbers,
             CalledPaginated(user, limit, offset)
      PROVE  PlaceholdersFit
  <2>1. /\ built.set = <<>> /\ built.where = Equalities(Own(user), 1)
        /\ built.args = Args(Own(user))
    BY <1>2, <1>8, PaginatedIs
  <2> QED BY <2>1, OwnIs, OneMapFits
<1>9. ASSUME NEW user \in Value, NEW l \in Listings,
             CalledFiltered(user, l.filters, l.opts)
      PROVE  PlaceholdersFit
  <2> DEFINE all == MapFilters(user, l.filters)
             w == BuildWhereFilters(all)
  <2>1. built.set = <<>> /\ built.where = w.clauses /\ built.args = w.args
    BY <1>2, <1>9, FilteredIs
  <2>2. all \in Seq(Criteria)
    BY ListingInputs, MapFiltersAre
  <2> HIDE DEF all
  <2>3. w.clauses \in Seq(Clause) /\ w.args \in Seq(Arg) /\ InOrder(w.clauses, w.args)
    BY <2>2, WhereFiltersAre
  <2> HIDE DEF w
  <2> QED BY <2>1, <2>3, FiltersFitToo
<1> QED BY <1>1, <1>3, <1>4, <1>5, <1>6, <1>7, <1>8, <1>9 DEF Called

----------------------------------------------------------------------------
(* What the conditions of a statement choose. *)

Matches(row) == \A i \in DOMAIN built.where : Holds(built.where[i], row)

\* What Wanted says of a row.
Wants(row) ==
    /\ \A c \in DOMAIN call.where : row[c] = call.where[c]
    /\ \A i \in DOMAIN call.filters : Has(row, call.filters[i])
    /\ call.api \in {"Paginated", "Filtered"} => row[UserId] = call.user
    /\ call.api = "Paginated" => row[IsActive] = Active

\* The conditions choose what the call names, and compare with no NULL.
Sound ==
    /\ built.args \in Seq(Arg)
    /\ \A i \in DOMAIN built.where : built.where[i].op # "IN" =>
         \A n \in ToSet(built.where[i].at) : built.args[n] \in Value
    /\ \A row \in Row : Matches(row) <=> Wants(row)

\* Conditions from a map that come after other arguments.
LEMMA MapSound ==
    ASSUME NEW m, IsMap(m), DOMAIN m \subseteq Column, \A c \in DOMAIN m : m[c] # None,
           NEW before \in Seq(Arg),
           built.where = Equalities(m, Len(before) + 1), built.args = before \o Args(m),
           \A row \in Row : Wants(row) <=> \A c \in DOMAIN m : row[c] = m[c]
    PROVE  Sound
<1> DEFINE cols == SortedColumns(m)
           n == Cardinality(DOMAIN m)
           start == Len(before) + 1
<1>1. start \in Nat /\ Len(before) \in Nat
  OBVIOUS
<1>2. /\ n \in Nat /\ Enumerates(cols, DOMAIN m)
      /\ Args(m) \in Seq(Arg) /\ Len(Args(m)) = n
      /\ \A i \in 1..n : Args(m)[i] = m[cols[i]]
      /\ built.where \in Seq(Clause) /\ Len(built.where) = n
      /\ \A i \in 1..n :
           built.where[i] = [col |-> cols[i], op |-> "=", at |-> <<start + i - 1>>]
  <2> HIDE DEF cols, n, start
  <2> QED BY <1>1, EqualitiesAre DEF cols, n, start
<1>3. built.args \in Seq(Arg)
  BY <1>2
<1>4. \A i \in 1..n : cols[i] \in DOMAIN m
  BY <1>2 DEF Enumerates
<1>5. \A row \in Row : Matches(row) <=> \A c \in DOMAIN m : row[c] = m[c]
  BY <1>1, MapMeans DEF Matches
<1>6. ASSUME NEW i \in DOMAIN built.where, NEW k \in ToSet(built.where[i].at)
      PROVE  built.args[k] \in Value
  <2> HIDE DEF cols, n
  <2>1. i \in 1..n
    BY <1>2
  <2>2. built.where[i] = [col |-> cols[i], op |-> "=", at |-> <<start + i - 1>>]
    BY <1>2, <2>1
  <2>3. k = Len(before) + i
    BY <1>1, <1>6, <2>2, <2>1, <1>2 DEF ToSet
  <2>4. built.args[k] = Args(m)[i]
    BY <1>1, <1>2, <2>1, <2>3
  <2>5. m[cols[i]] \in Arg /\ m[cols[i]] # None
    BY <1>4, <2>1 DEF IsMap
  <2> QED BY <1>2, <2>1, <2>4, <2>5 DEF Arg
<1> QED BY <1>3, <1>5, <1>6 DEF Sound

\* Conditions from filters.
LEMMA FiltersSound ==
    ASSUME NEW filters \in Seq(Criteria), \A i \in DOMAIN filters : ValidFilter(filters[i]),
           built.where = BuildWhereFilters(filters).clauses,
           built.args = BuildWhereFilters(filters).args,
           \A row \in Row : Wants(row) <=> \A i \in DOMAIN filters : Has(row, filters[i])
    PROVE  Sound
<1>1. /\ built.where \in Seq(Clause) /\ built.args \in Seq(Arg)
      /\ Len(built.where) = Len(filters)
      /\ \A k \in 1..Len(filters) : Says(built.where[k], built.args, filters[k])
  BY WhereFiltersAre
<1>2. DOMAIN filters = 1..Len(filters) /\ DOMAIN built.where = DOMAIN filters
  BY <1>1
<1>3. \A i \in DOMAIN filters : filters[i] \in Criteria /\ ValidFilter(filters[i])
  OBVIOUS
<1>4. ASSUME NEW row \in Row
      PROVE  Matches(row) <=> Wants(row)
  <2>1. \A i \in DOMAIN filters : Holds(built.where[i], row) <=> Has(row, filters[i])
    BY <1>1, <1>2, <1>3, FilterMeans
  <2> QED BY <1>2, <2>1 DEF Matches
<1>5. ASSUME NEW i \in DOMAIN built.where, built.where[i].op # "IN",
             NEW k \in ToSet(built.where[i].at)
      PROVE  built.args[k] \in Value
  <2> DEFINE f == filters[i]
  <2>1. f \in Criteria /\ ValidFilter(f) /\ Says(built.where[i], built.args, f)
    BY <1>1, <1>2, <1>3
  <2>2. f.op # "IN"
    BY <1>5, <2>1 DEF Says
  <2>3. PICK v \in Value : f.value.of = <<v>>
    <3> HIDE DEF f
    <3> QED BY <2>1, <2>2, CriteriaTypes DEF ValidFilter
  <2>4. PICK j \in DOMAIN built.where[i].at : k = built.where[i].at[j]
    BY <1>5 DEF ToSet
  <2>5. j \in DOMAIN f.value.of /\ built.args[k] = f.value.of[j]
    BY <2>1, <2>4 DEF Says
  <2> QED BY <2>3, <2>5
<1> QED BY <1>1, <1>4, <1>5 DEF Sound

\* What a statement that was not refused consists of.
LEMMA BuiltIs ==
    ASSUME built.ok, NEW verb, NEW set, NEW where, NEW opts, NEW args,
           Builds(verb, set, where, opts, args)
    PROVE  /\ built.verb = verb /\ built.set = set /\ built.where = where
           /\ built.opts = opts /\ built.args = args
BY DEF Builds, Statement

LEMMA InsertSound ==
    ASSUME built.ok, NEW data \in Maps, NEW returning \in Lists, CalledInsert(data, returning)
    PROVE  Sound
<1> DEFINE set == Equalities(data, 1)
           args == Args(data)
<1>1. Builds("INSERT", set, <<>>, NoOptions, args)
  BY InsertIs
<1>2. built.where = <<>> /\ built.args = args
  <2> HIDE DEF set, args
  <2> QED BY <1>1, BuiltIs
<1>3. args \in Seq(Arg)
  BY MapInputs, EqualitiesAre
<1>4. call.api = "Insert" /\ call.where = <<>> /\ call.filters = <<>>
  BY DEF CalledInsert, NoCall
<1>5. \A row : Matches(row) /\ Wants(row)
  BY <1>2, <1>4 DEF Matches, Wants
<1> QED BY <1>2, <1>3, <1>5 DEF Sound

\* The row of a call with conditions in a map, and no others.
LEMMA WantsMap ==
    ASSUME call.filters = <<>>, call.api \notin {"Paginated", "Filtered"}, NEW row
    PROVE  Wants(row) <=> \A c \in DOMAIN call.where : row[c] = call.where[c]
BY DEF Wants

LEMMA SelectOneSound ==
    ASSUME built.ok, NEW columns \in Lists, NEW where \in Maps,
           CalledSelectOne(columns, where)
    PROVE  Sound
<1> DEFINE conditions == Equalities(where, 1)
           args == Args(where)
           opts == [NoOptions EXCEPT !.limit = 1]
<1>1. /\ Builds("SELECT", <<>>, conditions, opts, args)
      /\ DOMAIN where \subseteq Column /\ \A c \in DOMAIN where : where[c] # None
  BY SelectOneIs
<1>2. built.where = conditions /\ built.args = args
  <2> HIDE DEF conditions, args, opts
  <2> QED BY <1>1, BuiltIs
<1>3. /\ call.api = "SelectOne" /\ call.where = where /\ call.filters = <<>>
  BY DEF CalledSelectOne, NoCall
<1>4. IsMap(where) /\ <<>> \in Seq(Arg) /\ Len(<<>>) + 1 = 1
  BY MapInputs
<1>5. <<>> \o args = args
  BY <1>4, EqualitiesAre
<1> QED BY <1>1, <1>2, <1>3, <1>4, <1>5, WantsMap, MapSound

LEMMA UpdateSound ==
    ASSUME built.ok, NEW data \in Maps, NEW where \in Maps, CalledUpdate(data, where)
    PROVE  Sound
<1> DEFINE set == Equalities(data, 1)
           before == Args(data)
           conditions == Equalities(where, Len(before) + 1)
           args == before \o Args(where)
<1>1. /\ Builds("UPDATE", set, conditions, NoOptions, args)
      /\ DOMAIN where \subseteq Column /\ \A c \in DOMAIN where : where[c] # None
  BY UpdateIs
<1>2. built.where = conditions /\ built.args = args
  <2> HIDE DEF set, conditions, args
  <2> QED BY <1>1, BuiltIs
<1>3. /\ call.api = "Update" /\ call.where = where /\ call.filters = <<>>
  BY DEF CalledUpdate, NoCall
<1>4. IsMap(where) /\ before \in Seq(Arg)
  BY MapInputs, EqualitiesAre
<1> HIDE DEF before
<1> QED BY <1>1, <1>2, <1>3, <1>4, WantsMap, MapSound

LEMMA DeleteSound ==
    ASSUME built.ok, NEW where \in Maps, CalledDelete(where)
    PROVE  Sound
<1> DEFINE conditions == Equalities(where, 1)
           args == Args(where)
<1>1. /\ Builds("DELETE", <<>>, conditions, NoOptions, args)
      /\ DOMAIN where \subseteq Column /\ \A c \in DOMAIN where : where[c] # None
  BY DeleteIs
<1>2. built.where = conditions /\ built.args = args
  <2> HIDE DEF conditions, args
  <2> QED BY <1>1, BuiltIs
<1>3. /\ call.api = "Delete" /\ call.where = where /\ call.filters = <<>>
  BY DEF CalledDelete, NoCall
<1>4. IsMap(where) /\ <<>> \in Seq(Arg) /\ Len(<<>>) + 1 = 1
  BY MapInputs
<1>5. <<>> \o args = args
  BY <1>4, EqualitiesAre
<1> QED BY <1>1, <1>2, <1>3, <1>4, <1>5, WantsMap, MapSound

LEMMA SelectOneWithFiltersSound ==
    ASSUME built.ok, NEW l \in Listings, CalledSelectOneWithFilters(l.filters)
    PROVE  Sound
<1> DEFINE filters == l.filters
           w == BuildWhereFilters(filters)
           conditions == w.clauses
           args == w.args
           opts == [NoOptions EXCEPT !.limit = 1]
<1>1. /\ Builds("SELECT", <<>>, conditions, opts, args)
      /\ \A i \in DOMAIN filters : ValidFilter(filters[i])
  BY SelectOneWithFiltersIs
<1>2. built.where = conditions /\ built.args = args
  <2> HIDE DEF conditions, args, opts
  <2> QED BY <1>1, BuiltIs
<1>3. /\ call.api = "SelectOneWithFilters" /\ call.where = <<>> /\ call.filters = filters
  BY DEF CalledSelectOneWithFilters, NoCall
<1>4. filters \in Seq(Criteria)
  BY ListingInputs
<1>5. \A row \in Row : Wants(row) <=> \A i \in DOMAIN filters : Has(row, filters[i])
  <2> HIDE DEF filters
  <2> QED BY <1>3 DEF Wants
<1> HIDE DEF filters
<1> QED BY <1>1, <1>2, <1>4, <1>5, FiltersSound

\* The map of the listing is the user's credentials that are active, and no column more.
LEMMA PaginatedSound ==
    ASSUME built.ok, NEW user \in Value, NEW limit \in Numbers, NEW offset \in Numbers,
           CalledPaginated(user, limit, offset)
    PROVE  Sound
<1> DEFINE own == Own(user)
           conditions == Equalities(own, 1)
           args == Args(own)
           opts == SelectOptions(limit, offset)
<1>1. Builds("SELECT", <<>>, conditions, opts, args)
  BY PaginatedIs
<1>2. built.where = conditions /\ built.args = args
  <2> HIDE DEF conditions, args, opts
  <2> QED BY <1>1, BuiltIs
<1>3. /\ call.api = "Paginated" /\ call.where = <<>> /\ call.filters = <<>>
      /\ call.user = user
  BY DEF CalledPaginated, NoCall
<1>4. /\ IsMap(own) /\ DOMAIN own = {UserId, IsActive}
      /\ own[UserId] = user /\ own[IsActive] = Active
      /\ DOMAIN own \subseteq Column /\ \A c \in DOMAIN own : own[c] # None
  BY OwnIs
<1> HIDE DEF own
<1>5. <<>> \in Seq(Arg) /\ Len(<<>>) + 1 = 1 /\ <<>> \o args = args
  BY <1>4, EqualitiesAre
<1>6. \A row \in Row : Wants(row) <=> \A c \in DOMAIN own : row[c] = own[c]
  BY <1>3, <1>4 DEF Wants
<1> QED BY <1>2, <1>4, <1>5, <1>6, MapSound

\* The user's filter comes first, whatever the caller's filters are.
LEMMA FilteredSound ==
    ASSUME built.ok, NEW user \in Value, NEW l \in Listings,
           CalledFiltered(user, l.filters, l.opts)
    PROVE  Sound
<1> DEFINE filters == l.filters
           all == MapFilters(user, filters)
           w == BuildWhereFilters(all)
           conditions == w.clauses
           args == w.args
<1>1. /\ Builds("SELECT", <<>>, conditions, l.opts, args)
      /\ \A i \in DOMAIN filters : ValidFilter(filters[i])
  BY FilteredIs
<1>2. built.where = conditions /\ built.args = args
  <2> HIDE DEF conditions, args
  <2> QED BY <1>1, BuiltIs
<1>3. /\ call.api = "Filtered" /\ call.where = <<>> /\ call.filters = filters
      /\ call.user = user
  BY DEF CalledFiltered, NoCall
<1>4. filters \in Seq(Criteria)
  BY ListingInputs
<1> HIDE DEF filters
<1>5. /\ all \in Seq(Criteria) /\ Len(all) = Len(filters) + 1
      /\ all[1] = ByUser(user)
      /\ \A i \in 1..Len(filters) : all[i + 1] = filters[i]
      /\ \A i \in DOMAIN all : ValidFilter(all[i])
  BY <1>1, <1>4, MapFiltersAre
<1> HIDE DEF all
<1>6. ASSUME NEW row \in Row
      PROVE  Wants(row) <=> \A i \in DOMAIN all : Has(row, all[i])
  <2>1. row[UserId] = user <=> Has(row, all[1])
    <3>1. row[UserId] \in Value \cup {None} /\ user # None
      BY TableAssumption DEF Row
    <3>2. /\ ByUser(user).column = UserId /\ ByUser(user).op = "="
          /\ Head(ByUser(user).value.of) = user
      BY DEF ByUser
    <3> QED BY <1>5, <3>1, <3>2, TableAssumption DEF Has
  <2>2. Wants(row) <=> /\ row[UserId] = user
                       /\ \A i \in 1..Len(filters) : Has(row, filters[i])
    BY <1>3, <1>4 DEF Wants
  <2>3. DOMAIN all = 1..Len(filters) + 1 /\ Len(filters) \in Nat
    BY <1>4, <1>5
  <2>4. ASSUME NEW k \in DOMAIN all
        PROVE  k = 1 \/ \E i \in 1..Len(filters) : k = i + 1
    <3>1. CASE k # 1
      <4>1. k - 1 \in 1..Len(filters) /\ k = (k - 1) + 1
        BY <2>3, <3>1
      <4> QED BY <4>1
    <3> QED BY <3>1
  <2>5. 1 \in DOMAIN all /\ \A i \in 1..Len(filters) : i + 1 \in DOMAIN all
    BY <2>3
  <2>6. \A i \in 1..Len(filters) : Has(row, all[i + 1]) <=> Has(row, filters[i])
    BY <1>5
  <2>7. (\A i \in DOMAIN all : Has(row, all[i]))
          <=> Has(row, all[1]) /\ \A i \in 1..Len(filters) : Has(row, all[i + 1])
    BY <2>4, <2>5, Zenon
  <2> QED BY <2>1, <2>2, <2>6, <2>7
<1> QED BY <1>2, <1>5, <1>6, FiltersSound

LEMMA CalledSound == Called /\ built.ok => Sound
BY InsertSound, SelectOneSound, UpdateSound, DeleteSound, SelectOneWithFiltersSound,
   PaginatedSound, FilteredSound, Zenon DEF Called

----------------------------------------------------------------------------
(* Verbs, assignments and options. *)

VerbFits ==
    /\ call.api \in {"Insert", "SelectOne", "Update", "Delete",
                     "SelectOneWithFilters", "Paginated", "Filtered"}
    /\ built.verb \in {"INSERT", "SELECT", "UPDATE", "DELETE"}
    /\ built.verb = "INSERT" <=> call.api = "Insert"
    /\ built.verb = "UPDATE" <=> call.api = "Update"
    /\ built.verb = "DELETE" <=> call.api = "Delete"

LEMMA CalledVerb == Called /\ built.ok => VerbFits
<1> SUFFICES ASSUME Called, built.ok PROVE VerbFits
  OBVIOUS
<1>1. ASSUME NEW data \in Maps, NEW returning \in Lists, CalledInsert(data, returning)
      PROVE  VerbFits
  <2>1. built.verb = "INSERT"
    BY <1>1 DEF CalledInsert, BuildInsert, Statement, Refused
  <2> QED BY <1>1, <2>1 DEF VerbFits, CalledInsert, NoCall
<1>2. ASSUME NEW columns \in Lists, NEW where \in Maps, CalledSelectOne(columns, where)
      PROVE  VerbFits
  <2>1. built.verb = "SELECT"
    BY <1>2 DEF CalledSelectOne, BuildSelectOne, BuildSelect, Statement, Refused
  <2> QED BY <1>2, <2>1 DEF VerbFits, CalledSelectOne, NoCall
<1>3. ASSUME NEW data \in Maps, NEW where \in Maps, CalledUpdate(data, where)
      PROVE  VerbFits
  <2>1. built.verb = "UPDATE"
    BY <1>3 DEF CalledUpdate, BuildUpdate, Statement, Refused
  <2> QED BY <1>3, <2>1 DEF VerbFits, CalledUpdate, NoCall
<1>4. ASSUME NEW where \in Maps, CalledDelete(where)
      PROVE  VerbFits
  <2>1. built.verb = "DELETE"
    BY <1>4 DEF CalledDelete, BuildDelete, Statement, Refused
  <2> QED BY <1>4, <2>1 DEF VerbFits, CalledDelete, NoCall
<1>5. ASSUME NEW l \in Listings, CalledSelectOneWithFilters(l.filters)
      PROVE  VerbFits
  <2>1. built.verb = "SELECT"
    BY <1>5 DEF CalledSelectOneWithFilters, BuildSelectOne, BuildSelect, Statement, Refused
  <2> QED BY <1>5, <2>1 DEF VerbFits, CalledSelectOneWithFilters, NoCall
<1>6. ASSUME NEW user \in Value, NEW limit \in Numbers, NEW offset \in Numbers,
             CalledPaginated(user, limit, offset)
      PROVE  VerbFits
  <2>1. built.verb = "SELECT"
    BY <1>6 DEF CalledPaginated, BuildSelect, Statement, Refused
  <2> QED BY <1>6, <2>1 DEF VerbFits, CalledPaginated, NoCall
<1>7. ASSUME NEW user \in Value, NEW l \in Listings,
             CalledFiltered(user, l.filters, l.opts)
      PROVE  VerbFits
  <2>1. built.verb = "SELECT"
    BY <1>7 DEF CalledFiltered, BuildSelect, Statement, Refused
  <2> QED BY <1>7, <2>1 DEF VerbFits, CalledFiltered, NoCall
<1> QED BY <1>1, <1>2, <1>3, <1>4, <1>5, <1>6, <1>7 DEF Called

AssignFits == \A row \in Row : Assign(row) = With(row) /\ With(row) \in Row

LEMMA WithType ==
    ASSUME IsMap(call.data), NEW row \in Row
    PROVE  With(row) \in Row
BY DEF With, Row, IsMap, Arg

LEMMA CalledAssign ==
    Called /\ built.ok /\ built.verb \in {"INSERT", "UPDATE"} => AssignFits
<1> SUFFICES ASSUME Called, built.ok, built.verb \in {"INSERT", "UPDATE"} PROVE AssignFits
  OBVIOUS
<1>1. VerbFits
  BY CalledVerb
<1>2. ASSUME NEW data \in Maps, NEW returning \in Lists, CalledInsert(data, returning)
      PROVE  AssignFits
  <2> DEFINE set == Equalities(data, 1)
             args == Args(data)
  <2>1. Builds("INSERT", set, <<>>, NoOptions, args)
    BY <1>2, InsertIs
  <2>2. built.set = set /\ built.args = args
    <3> HIDE DEF set, args
    <3> QED BY <2>1, BuiltIs
  <2>3. call.data = data /\ IsMap(data)
    BY <1>2, MapInputs DEF CalledInsert, NoCall
  <2>4. <<>> \in Seq(Arg) /\ args \o <<>> = args
    BY <2>3, EqualitiesAre
  <2> QED BY <2>2, <2>3, <2>4, AssignIsWith, WithType DEF AssignFits
<1>3. ASSUME NEW data \in Maps, NEW where \in Maps, CalledUpdate(data, where)
      PROVE  AssignFits
  <2> DEFINE set == Equalities(data, 1)
             conditions == Equalities(where, Len(Args(data)) + 1)
             args == Args(data) \o Args(where)
  <2>1. Builds("UPDATE", set, conditions, NoOptions, args)
    BY <1>3, UpdateIs
  <2>2. built.set = set /\ built.args = args
    <3> HIDE DEF set, conditions, args
    <3> QED BY <2>1, BuiltIs
  <2>3. call.data = data /\ IsMap(data)
    BY <1>3, MapInputs DEF CalledUpdate, NoCall
  <2>4. Args(where) \in Seq(Arg)
    BY MapInputs, EqualitiesAre
  <2> QED BY <2>2, <2>3, <2>4, AssignIsWith, WithType DEF AssignFits
<1>4. call.api \in {"Insert", "Update"}
  BY <1>1 DEF VerbFits
<1> QED BY <1>2, <1>3, <1>4 DEF Called, CalledSelectOne, CalledDelete,
           CalledSelectOneWithFilters, CalledPaginated, CalledFiltered, NoCall

\* The order asked for, and a page of so many rows after so many others.
OrderFits ==
    /\ \A i \in DOMAIN built.opts.order :
         /\ built.opts.order[i].column \in Column
         /\ built.opts.order[i].direction \in {"ASC", "DESC"}
    /\ built.opts.order = call.opts.order
    /\ built.opts.order \in Seq([column: Int, direction: STRING])
SkipFits ==
    Skip \in Nat /\ Skip = IF built.opts.offset = None THEN 0 ELSE built.opts.offset
MostFits ==
    /\ Most \in Nat
    /\ built.opts.limit # None => Most = built.opts.limit
    /\ built.opts.limit = None => Most = Cardinality(Slot)
OptionsFit == OrderFits /\ SkipFits /\ MostFits

LEMMA NoOrderFits ==
    ASSUME built.opts.order = <<>>, call.opts.order = <<>>
    PROVE  OrderFits
<1>1. DOMAIN built.opts.order = {} /\ <<>> \in Seq([column: Int, direction: STRING])
  OBVIOUS
<1> QED BY <1>1 DEF OrderFits

LEMMA OneFits ==
    ASSUME built.opts = [NoOptions EXCEPT !.limit = 1], call.opts = NoOptions,
           call.api \in {"SelectOne", "SelectOneWithFilters"}
    PROVE  OptionsFit
<1>1. /\ built.opts.order = <<>> /\ call.opts.order = <<>>
      /\ built.opts.limit = 1 /\ built.opts.offset = None /\ call.opts.offset = None
  BY DEF NoOptions
<1>2. Skip = 0 /\ Most = 1
  BY <1>1 DEF Skip, Most
<1>3. OrderFits
  BY <1>1, NoOrderFits
<1>4. SkipFits
  BY <1>1, <1>2 DEF SkipFits
<1>5. MostFits
  <2>1. built.opts.limit # None
    BY <1>1, TableAssumption
  <2> QED BY <1>1, <1>2, <2>1 DEF MostFits
<1> QED BY <1>3, <1>4, <1>5 DEF OptionsFit

LEMMA CalledOptions == Called /\ built.ok /\ built.verb = "SELECT" => OptionsFit
<1> SUFFICES ASSUME Called, built.ok, built.verb = "SELECT" PROVE OptionsFit
  OBVIOUS
<1>0. VerbFits
  BY CalledVerb
<1>1. Cardinality(Slot) \in Nat
  BY TableAssumption, FS_CardinalityType
<1>2. ASSUME NEW columns \in Lists, NEW where \in Maps, CalledSelectOne(columns, where)
      PROVE  OptionsFit
  <2> DEFINE conditions == Equalities(where, 1)
             args == Args(where)
             opts == [NoOptions EXCEPT !.limit = 1]
  <2>1. Builds("SELECT", <<>>, conditions, opts, args)
    BY <1>2, SelectOneIs
  <2>2. built.opts = opts
    <3> HIDE DEF conditions, args, opts
    <3> QED BY <2>1, BuiltIs
  <2> QED BY <1>2, <2>2, OneFits DEF CalledSelectOne, NoCall
<1>3. ASSUME NEW l \in Listings, CalledSelectOneWithFilters(l.filters)
      PROVE  OptionsFit
  <2> DEFINE w == BuildWhereFilters(l.filters)
             conditions == w.clauses
             args == w.args
             opts == [NoOptions EXCEPT !.limit = 1]
  <2>1. Builds("SELECT", <<>>, conditions, opts, args)
    BY <1>3, SelectOneWithFiltersIs
  <2>2. built.opts = opts
    <3> HIDE DEF conditions, args, opts
    <3> QED BY <2>1, BuiltIs
  <2> QED BY <1>3, <2>2, OneFits DEF CalledSelectOneWithFilters, NoCall
<1>4. ASSUME NEW user \in Value, NEW limit \in Numbers, NEW offset \in Numbers,
             CalledPaginated(user, limit, offset)
      PROVE  OptionsFit
  <2> DEFINE conditions == Equalities(Own(user), 1)
             args == Args(Own(user))
             opts == SelectOptions(limit, offset)
  <2>1. Builds("SELECT", <<>>, conditions, opts, args)
    BY <1>4, PaginatedIs
  <2>2. built.opts = opts
    <3> HIDE DEF conditions, args, opts
    <3> QED BY <2>1, BuiltIs
  <2>3. /\ call.api = "Paginated" /\ call.opts.order = <<>>
        /\ call.opts.limit = limit /\ call.opts.offset = offset
    BY <1>4 DEF CalledPaginated, NoCall, NoOptions
  <2>4. /\ built.opts.order = <<>>
        /\ built.opts.limit = IF limit < 0 THEN None ELSE limit
        /\ built.opts.offset = IF offset < 0 THEN None ELSE offset
    BY <2>2 DEF SelectOptions
  <2>5. limit \in Int /\ offset \in Int /\ limit # None /\ offset # None
    BY InputAssumption, TableAssumption
  <2>6. SkipFits
    <3>1. CASE offset < 0
      <4>1. Skip = 0 /\ built.opts.offset = None
        BY <2>3, <2>4, <3>1 DEF Skip
      <4> QED BY <4>1 DEF SkipFits
    <3>2. CASE ~(offset < 0)
      <4>1. Skip = offset /\ built.opts.offset = offset
        BY <2>3, <2>4, <2>5, <3>2 DEF Skip
      <4>2. offset \in Nat
        BY <2>5, <3>2
      <4> QED BY <2>5, <4>1, <4>2 DEF SkipFits
    <3> QED BY <3>1, <3>2
  <2>7. MostFits
    BY <1>1, <2>3, <2>4, <2>5 DEF Most, MostFits
  <2>8. OrderFits
    BY <2>3, <2>4, NoOrderFits
  <2> QED BY <2>6, <2>7, <2>8 DEF OptionsFit
<1>5. ASSUME NEW user \in Value, NEW l \in Listings,
             CalledFiltered(user, l.filters, l.opts)
      PROVE  OptionsFit
  <2> DEFINE w == BuildWhereFilters(MapFilters(user, l.filters))
             conditions == w.clauses
             args == w.args
             opts == l.opts
  <2>1. Builds("SELECT", <<>>, conditions, opts, args) /\ ValidOptions(opts)
    BY <1>5, FilteredIs
  <2>2. built.opts = opts
    <3> HIDE DEF conditions, args, opts
    <3> QED BY <2>1, BuiltIs
  <2>3. call.api = "Filtered" /\ call.opts = opts
    BY <1>5 DEF CalledFiltered, NoCall
  <2>4. /\ opts.order \in Seq([column: Int, direction: STRING])
        /\ opts.limit \in Int \cup {None} /\ opts.offset \in Int \cup {None}
    BY ListingInputs
  <2> HIDE DEF opts
  <2>5. /\ \A i \in DOMAIN opts.order : /\ opts.order[i].column \in Column
                                        /\ opts.order[i].direction \in {"ASC", "DESC"}
        /\ opts.limit # None => opts.limit \in Nat
        /\ opts.offset # None => opts.offset \in Nat
    BY <2>1, <2>4 DEF ValidOptions
  <2>6. SkipFits
    <3>1. Skip \in Nat /\ Skip = IF opts.offset = None THEN 0 ELSE opts.offset
      BY <2>3, <2>5 DEF Skip
    <3> QED BY <2>2, <3>1 DEF SkipFits, opts
  <2>7. MostFits
    <3>1. /\ Most \in Nat
          /\ opts.limit # None => Most = opts.limit
          /\ opts.limit = None => Most = Cardinality(Slot)
      BY <1>1, <2>3, <2>5 DEF Most
    <3>2. built.opts.limit = opts.limit
      BY <2>2 DEF opts
    <3> QED BY <3>1, <3>2, Zenon DEF MostFits
  <2>8. OrderFits
    <3>1. built.opts = opts
      BY <2>2 DEF opts
    <3>2. built.opts.order = opts.order /\ call.opts.order = opts.order
      BY <2>3, <3>1
    <3> QED BY <2>4, <2>5, <3>2, Zenon DEF OrderFits
  <2> QED BY <2>6, <2>7, <2>8 DEF OptionsFit
<1>6. call.api \notin {"Insert", "Update", "Delete"}
  BY <1>0 DEF VerbFits
<1> QED BY <1>2, <1>3, <1>4, <1>5, <1>6
        DEF Called, CalledInsert, CalledUpdate, CalledDelete, NoCall

\* A call is refused when it makes no sense, and only then.
LEMMA CalledSense == Called => (built.ok <=> MakesSense)
BY InsertIs, SelectOneIs, UpdateIs, DeleteIs, SelectOneWithFiltersIs, PaginatedIs,
   FilteredIs DEF Called

----------------------------------------------------------------------------
(* Pages. *)

RowsFit == DOMAIN rows \subseteq Slot /\ \A s \in DOMAIN rows : rows[s] \in Row

LEMMA ChosenIs ==
    /\ \A s \in DOMAIN rows : Wanted[s] <=> Wants(rows[s])
    /\ Chosen = {s \in DOMAIN rows : Wants(rows[s])}
<1>1. ASSUME NEW s \in DOMAIN rows
      PROVE  Wanted[s] <=> Wants(rows[s])
  BY DEF Wanted, Wants
<1> QED BY <1>1 DEF Chosen

LEMMA MatchingIsChosen ==
    ASSUME RowsFit, Sound
    PROVE  Matching = Chosen
<1>1. \A s \in DOMAIN rows : rows[s] \in Row
  BY DEF RowsFit
<1>2. Matching = {s \in DOMAIN rows : Matches(rows[s])}
  BY DEF Matching, Matches
<1>3. \A s \in DOMAIN rows : Matches(rows[s]) <=> Wants(rows[s])
  BY <1>1 DEF Sound
<1> QED BY <1>2, <1>3, ChosenIs

LEMMA BeforeIrreflexive ==
    ASSUME NEW order, \A i \in DOMAIN order : order[i].column \in Column, NEW row \in Row
    PROVE  ~Before(order, row, row)
<1>1. ASSUME NEW x \in Value \cup {None}
      PROVE  ~Less(x, x)
  <2>1. CASE x \in Value
    <3>1. x \in Int /\ x # None
      BY <2>1, TableAssumption
    <3> QED BY <3>1 DEF Less
  <2>2. CASE x = None
    BY <2>2 DEF Less
  <2> QED BY <2>1, <2>2
<1>2. \A k \in DOMAIN order : row[order[k].column] \in Value \cup {None}
  BY DEF Row
<1>3. \A k \in DOMAIN order : ~Less(row[order[k].column], row[order[k].column])
  BY <1>1, <1>2, Zenon
<1> QED BY <1>3, Zenon DEF Before

\* A set whose members all stand between two places of a list is no larger.
LEMMA Counted ==
    ASSUME NEW s, NEW a \in Int, NEW b \in Int, a <= b + 1, NEW A,
           \A t \in A : \E j \in a..b : s[j] = t
    PROVE  IsFiniteSet(A) /\ Cardinality(A) <= b + 1 - a
<1> DEFINE g == [t \in A |-> CHOOSE j \in a..b : s[j] = t]
<1>1. \A t \in A : g[t] \in a..b /\ s[g[t]] = t
  OBVIOUS
<1>2. g \in [A -> a..b]
  BY <1>1
<1>3. g \in Injection(A, a..b)
  <2> HIDE DEF g
  <2> QED BY <1>1, <1>2 DEF Injection, IsInjective
<1>4. IsFiniteSet(a..b) /\ Cardinality(a..b) = b + 1 - a
  BY FS_Interval
<1> HIDE DEF g
<1> QED BY <1>3, <1>4, FS_Injection

LEMMA Distinct ==
    ASSUME NEW C, NEW p \in Seq(C), \A i, j \in DOMAIN p : i # j => p[i] # p[j]
    PROVE  Cardinality(ToSet(p)) = Len(p)
<1>1. Len(p) \in Nat /\ DOMAIN p = 1..Len(p)
  OBVIOUS
<1>2. p \in [1..Len(p) -> ToSet(p)] /\ \A t \in ToSet(p) : \E i \in 1..Len(p) : p[i] = t
  BY <1>1 DEF ToSet
<1>3. p \in Bijection(1..Len(p), ToSet(p))
  BY <1>1, <1>2 DEF Bijection, Injection, Surjection, IsInjective
<1>4. ExistsBijection(1..Len(p), ToSet(p))
  BY <1>3 DEF ExistsBijection
<1> QED BY <1>1, <1>4, FS_CountingElements

\* What a list of the chosen rows is, in the order asked for.
Arranges(s) ==
    LET n == Cardinality(Chosen)
    IN  /\ n \in Nat /\ n <= Cardinality(Slot)
        /\ s \in Seq(Chosen) /\ Len(s) = n
        /\ \A i, j \in 1..n : i # j => s[i] # s[j]
        /\ \A t \in Chosen : \E i \in 1..n : s[i] = t
        /\ \A i, j \in 1..n : i < j => ~Before(call.opts.order, rows[s[j]], rows[s[i]])

LEMMA ArrangementsAre ==
    ASSUME RowsFit, Sound, OptionsFit, NEW s \in Arrangements
    PROVE  Arranges(s)
<1> DEFINE n == Cardinality(Chosen)
<1>1. IsFiniteSet(Chosen) /\ n \in Nat /\ n <= Cardinality(Slot)
  <2>1. Chosen \subseteq Slot
    BY DEF Chosen, RowsFit
  <2> QED BY <2>1, TableAssumption, FS_Subset, FS_CardinalityType
<1>2. /\ s \in SetToSeqs(Chosen)
      /\ \A i, j \in DOMAIN s : i < j => ~Before(call.opts.order, rows[s[j]], rows[s[i]])
  BY MatchingIsChosen DEF Arrangements, OptionsFit, OrderFits
<1>3. s \in [1..n -> Chosen] /\ \A i, j \in 1..n : i # j => s[i] # s[j]
  BY <1>2 DEF SetToSeqs
<1>4. s \in Injection(1..n, Chosen)
  BY <1>3 DEF Injection, IsInjective
<1>5. Cardinality(1..n) = n
  BY <1>1, FS_Interval
<1>6. s \in Surjection(1..n, Chosen)
  <2> HIDE DEF n
  <2> QED BY <1>1, <1>4, <1>5, FS_Injection DEF n
<1>7. \A t \in Chosen : \E i \in 1..n : s[i] = t
  BY <1>6 DEF Surjection
<1>8. DOMAIN s = 1..n
  BY <1>3
<1> HIDE DEF n
<1>9. s \in Seq(Chosen) /\ Len(s) = n
  BY <1>1, <1>3
<1> QED BY <1>1, <1>2, <1>3, <1>7, <1>8, <1>9 DEF Arranges, n

\* The page is the Most or fewer places of the list after the first Skip.
LEMMA PageIs ==
    ASSUME NEW s, Arranges(s), OptionsFit
    PROVE  LET p == Page(s)
               left == Cardinality(Chosen) - Skip
           IN  /\ p \in Seq(Chosen)
               /\ Len(p) = IF left < 0 THEN 0 ELSE IF left < Most THEN left ELSE Most
               /\ \A i \in 1..Len(p) : Skip + i \in 1..Len(s) /\ p[i] = s[Skip + i]
<1> DEFINE n == Cardinality(Chosen)
           o == Skip
           p == Page(s)
           rest == SubSeq(s, o + 1, Len(s))
<1>1. n \in Nat /\ n <= Cardinality(Slot) /\ s \in Seq(Chosen) /\ Len(s) = n /\ o \in Nat
  BY DEF Arranges, OptionsFit, SkipFits
<1>2. /\ rest \in Seq(Chosen)
      /\ Len(rest) = IF n - o < 0 THEN 0 ELSE n - o
      /\ \A i \in 1..Len(rest) : o + i \in 1..n /\ rest[i] = s[o + i]
  <2> HIDE DEF n, o
  <2> QED BY <1>1
<1>3. Most \in Nat /\ Cardinality(Slot) \in Nat
  BY TableAssumption, FS_CardinalityType DEF OptionsFit, MostFits
<1>4. p = IF built.opts.limit = None \/ built.opts.limit > Len(rest) THEN rest
          ELSE SubSeq(rest, 1, built.opts.limit)
  BY DEF Page, OptionsFit, SkipFits
<1> HIDE DEF p, rest, n, o
<1>5. CASE built.opts.limit = None
  <2>1. p = rest /\ Most = Cardinality(Slot)
    BY <1>4, <1>5 DEF OptionsFit, MostFits
  <2> QED BY <1>1, <1>2, <1>3, <2>1 DEF p, n, o
<1>6. CASE built.opts.limit # None /\ built.opts.limit > Len(rest)
  <2>1. p = rest /\ Most > Len(rest)
    BY <1>4, <1>6 DEF OptionsFit, MostFits
  <2> QED BY <1>1, <1>2, <1>3, <2>1 DEF p, n, o
<1>7. CASE built.opts.limit # None /\ ~(built.opts.limit > Len(rest))
  <2>1. p = SubSeq(rest, 1, Most) /\ ~(Most > Len(rest))
    BY <1>4, <1>7 DEF OptionsFit, MostFits
  <2>2. /\ p \in Seq(Chosen) /\ Len(p) = Most
        /\ \A i \in 1..Len(p) : i \in 1..Len(rest) /\ p[i] = rest[i]
    BY <1>2, <1>3, <2>1
  <2> QED BY <1>1, <1>2, <1>3, <2>1, <2>2 DEF p, n, o
<1> QED BY <1>5, <1>6, <1>7

LEMMA PagesAre ==
    ASSUME RowsFit, Sound, OptionsFit, NEW s \in Arrangements
    PROVE  IsPage(Page(s))
<1> DEFINE n == Cardinality(Chosen)
           o == Skip
           p == Page(s)
           left == n - o
           order == call.opts.order
           Ahead(r) == {t \in Chosen : Before(order, rows[t], rows[r])}
           Behind(r) == {t \in Chosen : Before(order, rows[r], rows[t])}
<1>1. Arranges(s)
  BY ArrangementsAre
<1>2. /\ n \in Nat /\ o \in Nat /\ Len(s) = n
      /\ \A i, j \in 1..n : i # j => s[i] # s[j]
      /\ \A t \in Chosen : \E i \in 1..n : s[i] = t
      /\ \A i, j \in 1..n : i < j => ~Before(order, rows[s[j]], rows[s[i]])
  BY <1>1 DEF Arranges, OptionsFit, SkipFits
<1>3. /\ p \in Seq(Chosen)
      /\ Len(p) = IF left < 0 THEN 0 ELSE IF left < Most THEN left ELSE Most
      /\ \A i \in 1..Len(p) : o + i \in 1..n /\ p[i] = s[o + i]
  BY <1>1, <1>2, PageIs
<1>4. ASSUME NEW t \in Chosen
      PROVE  ~Before(order, rows[t], rows[t])
  <2>1. rows[t] \in Row
    BY DEF Chosen, RowsFit
  <2> QED BY <2>1, BeforeIrreflexive DEF OptionsFit, OrderFits
<1> HIDE DEF n, o, p, order
<1>5. DOMAIN p = 1..Len(p) /\ Len(p) \in Nat
  BY <1>3
<1>6. ToSet(p) \subseteq Chosen
  BY <1>3, <1>5 DEF ToSet
<1>7. Cardinality(ToSet(p)) = Len(p)
  <2>1. \A i, j \in DOMAIN p : i # j => p[i] # p[j]
    BY <1>2, <1>3, <1>5
  <2> QED BY <1>3, <2>1, Distinct
<1>8. ASSUME NEW i \in DOMAIN p
      PROVE  /\ Cardinality(Ahead(p[i])) < o + i
             /\ Cardinality(Behind(p[i])) <= left - i
  <2> DEFINE k == o + i
             r == p[i]
  <2>1. k \in 1..n /\ r = s[k] /\ r \in Chosen /\ i \in Nat
    BY <1>3, <1>5
  <2> HIDE DEF k, r
  <2>2. \A t \in Ahead(r) : \E j \in 1..(k - 1) : s[j] = t
    <3> TAKE t \in Ahead(r)
    <3>1. t \in Chosen /\ Before(order, rows[t], rows[r])
      OBVIOUS
    <3>2. PICK j \in 1..n : s[j] = t
      BY <1>2, <3>1
    <3>3. j # k
      BY <1>4, <2>1, <3>1, <3>2
    <3>4. ~(k < j)
      BY <1>2, <2>1, <3>1, <3>2
    <3> QED BY <1>2, <2>1, <3>2, <3>3, <3>4
  <2>3. \A t \in Behind(r) : \E j \in (k + 1)..n : s[j] = t
    <3> TAKE t \in Behind(r)
    <3>1. t \in Chosen /\ Before(order, rows[r], rows[t])
      OBVIOUS
    <3>2. PICK j \in 1..n : s[j] = t
      BY <1>2, <3>1
    <3>3. j # k
      BY <1>4, <2>1, <3>1, <3>2
    <3>4. ~(j < k)
      BY <1>2, <2>1, <3>1, <3>2
    <3> QED BY <1>2, <2>1, <3>2, <3>3, <3>4
  <2> HIDE DEF Ahead, Behind
  <2>4. IsFiniteSet(Ahead(r)) /\ Cardinality(Ahead(r)) <= (k - 1) + 1 - 1
    <3> DEFINE A == Ahead(r)
               b == k - 1
    <3>1. b \in Int /\ 1 \in Int /\ 1 <= b + 1 /\ \A t \in A : \E j \in 1..b : s[j] = t
      BY <1>2, <2>1, <2>2
    <3> HIDE DEF A, b
    <3>2. IsFiniteSet(A) /\ Cardinality(A) <= b + 1 - 1
      BY <3>1, Counted, Zenon
    <3> QED BY <3>2 DEF A, b
  <2>5. IsFiniteSet(Behind(r)) /\ Cardinality(Behind(r)) <= n + 1 - (k + 1)
    <3> DEFINE A == Behind(r)
               a == k + 1
    <3>1. a \in Int /\ n \in Int /\ a <= n + 1 /\ \A t \in A : \E j \in a..n : s[j] = t
      BY <1>2, <2>1, <2>3
    <3> HIDE DEF A, a
    <3>2. IsFiniteSet(A) /\ Cardinality(A) <= n + 1 - a
      BY <3>1, Counted, Zenon
    <3> QED BY <3>2 DEF A, a
  <2>6. Cardinality(Ahead(r)) \in Nat /\ Cardinality(Behind(r)) \in Nat
    BY <2>4, <2>5, FS_CardinalityType
  <2>7. Cardinality(Ahead(r)) < o + i /\ Cardinality(Behind(r)) <= n - o - i
    BY <1>2, <2>1, <2>4, <2>5, <2>6 DEF k
  <2> QED BY <1>2, <2>1, <2>7 DEF r
<1> QED BY <1>3, <1>6, <1>7, <1>8 DEF IsPage, p, n, o, order

----------------------------------------------------------------------------
(* The invariant. *)

\* What call and built belong to: nothing when idle, else one of the calls.
CallInv ==
    /\ RowsFit
    /\ pc \in {"idle", "built", "done"}
    /\ pc = "idle" => call = NoCall /\ built = Refused
    /\ pc # "idle" => Called
    /\ pc = "done" => built.ok
    /\ pc # "done" => found = <<>>
    /\ ToSet(found) \subseteq DOMAIN rows

LEMMA NothingFound == ToSet(<<>>) = {}
BY DEF ToSet

LEMMA CallInvInit == Init => CallInv
BY NothingFound DEF Init, CallInv, RowsFit

\* Building a statement changes no row.
LEMMA MakeInv ==
    ASSUME CallInv, NEW c, NEW b, Make(c, b), Called'
    PROVE  CallInv'
BY DEF Make, CallInv, RowsFit

LEMMA CallsInv ==
    ASSUME CallInv,
           \/ Insert \/ SelectOne \/ Update \/ Delete \/ SelectOneWithFilters
           \/ GetCredentialsByUserIDPaginated \/ GetCredentialsByUserIDFiltered
    PROVE  CallInv'
<1>1. CASE Insert
  <2>1. PICK data \in Maps, returning \in Lists :
          Make([NoCall EXCEPT !.api = "Insert", !.data = data, !.columns = returning],
               BuildInsert(data, returning))
    BY <1>1 DEF Insert
  <2>2. CalledInsert(data, returning)'
    BY <2>1 DEF Make, CalledInsert
  <2> QED BY <2>1, <2>2, MakeInv DEF Called
<1>2. CASE SelectOne
  <2>1. PICK columns \in Lists, where \in Maps :
          Make([NoCall EXCEPT !.api = "SelectOne", !.columns = columns, !.where = where],
               BuildSelectOne(columns, BuildWhere(where, 1)))
    BY <1>2 DEF SelectOne
  <2>2. CalledSelectOne(columns, where)'
    BY <2>1 DEF Make, CalledSelectOne
  <2> QED BY <2>1, <2>2, MakeInv DEF Called
<1>3. CASE Update
  <2>1. PICK data \in Maps, where \in Maps :
          Make([NoCall EXCEPT !.api = "Update", !.data = data, !.where = where],
               BuildUpdate(data, where))
    BY <1>3 DEF Update
  <2>2. CalledUpdate(data, where)'
    BY <2>1 DEF Make, CalledUpdate
  <2> QED BY <2>1, <2>2, MakeInv DEF Called
<1>4. CASE Delete
  <2>1. PICK where \in Maps :
          Make([NoCall EXCEPT !.api = "Delete", !.where = where], BuildDelete(where))
    BY <1>4 DEF Delete
  <2>2. CalledDelete(where)'
    BY <2>1 DEF Make, CalledDelete
  <2> QED BY <2>1, <2>2, MakeInv DEF Called
<1>5. CASE SelectOneWithFilters
  <2>1. PICK l \in Listings :
          Make([NoCall EXCEPT !.api = "SelectOneWithFilters", !.columns = AllColumns,
                              !.filters = l.filters],
               BuildSelectOne(AllColumns, BuildWhereFilters(l.filters)))
    BY <1>5 DEF SelectOneWithFilters
  <2>2. CalledSelectOneWithFilters(l.filters)'
    BY <2>1 DEF Make, CalledSelectOneWithFilters
  <2> QED BY <2>1, <2>2, MakeInv DEF Called
<1>6. CASE GetCredentialsByUserIDPaginated
  <2>1. PICK user \in Value, limit \in Numbers, offset \in Numbers :
          Make([NoCall EXCEPT !.api = "Paginated", !.user = user, !.columns = AllColumns,
                              !.opts.limit = limit, !.opts.offset = offset],
               BuildSelect(AllColumns, BuildWhere(Own(user), 1),
                           SelectOptions(limit, offset)))
    BY <1>6 DEF GetCredentialsByUserIDPaginated, Own
  <2>2. CalledPaginated(user, limit, offset)'
    BY <2>1 DEF Make, CalledPaginated
  <2> QED BY <2>1, <2>2, MakeInv DEF Called
<1>7. CASE GetCredentialsByUserIDFiltered
  <2>1. PICK user \in Value, l \in Listings :
          Make([NoCall EXCEPT !.api = "Filtered", !.user = user, !.columns = AllColumns,
                              !.filters = l.filters, !.opts = l.opts],
               BuildSelect(AllColumns, BuildWhereFilters(MapFilters(user, l.filters)), l.opts))
    BY <1>7 DEF GetCredentialsByUserIDFiltered
  <2>2. CalledFiltered(user, l.filters, l.opts)'
    BY <2>1 DEF Make, CalledFiltered
  <2> QED BY <2>1, <2>2, MakeInv DEF Called
<1> QED BY <1>1, <1>2, <1>3, <1>4, <1>5, <1>6, <1>7

\* What is under way when a statement runs.
LEMMA Running ==
    ASSUME CallInv, NEW verb, Exec(verb)
    PROVE  /\ RowsFit /\ Called /\ built.ok /\ built.verb = verb /\ found = <<>>
           /\ Sound /\ VerbFits /\ Matching = Chosen
<1>1. RowsFit /\ Called /\ built.ok /\ built.verb = verb /\ found = <<>>
  BY DEF CallInv, Exec
<1>2. Sound /\ VerbFits
  BY <1>1, CalledSound, CalledVerb
<1> QED BY <1>1, <1>2, MatchingIsChosen

LEMMA CalledStays ==
    ASSUME Called, UNCHANGED <<call, built>>
    PROVE  Called'
BY DEF Called, CalledInsert, CalledSelectOne, CalledUpdate, CalledDelete,
       CalledSelectOneWithFilters, CalledPaginated, CalledFiltered

LEMMA DoneInv ==
    ASSUME CallInv, NEW verb, Exec(verb), UNCHANGED <<call, built>>, RowsFit',
           ToSet(found') \subseteq DOMAIN rows'
    PROVE  CallInv'
<1>1. Called /\ built.ok
  BY Running
<1>2. Called'
  BY <1>1, CalledStays
<1> QED BY <1>1, <1>2 DEF CallInv, Exec

\* A row of nulls, which INSERT fills.
LEMMA EmptyRow == [c \in Column |-> None] \in Row
BY DEF Row

LEMMA RunsInv ==
    ASSUME CallInv, RunInsert \/ RunSelect \/ RunUpdate \/ RunDelete
    PROVE  CallInv'
<1>1. CASE RunInsert
  <2>1. /\ Exec("INSERT") /\ UNCHANGED <<call, built, found>>
        /\ \E s \in Slot \ DOMAIN rows : rows' = Added(s, Assign([c \in Column |-> None]))
    BY <1>1 DEF RunInsert
  <2>2. RowsFit /\ found = <<>> /\ AssignFits
    BY <2>1, Running, CalledAssign
  <2>3. PICK s \in Slot : rows' = Added(s, Assign([c \in Column |-> None]))
    BY <2>1
  <2>4. Assign([c \in Column |-> None]) \in Row
    BY <2>2, EmptyRow DEF AssignFits
  <2>5. RowsFit'
    BY <2>2, <2>3, <2>4 DEF RowsFit, Added
  <2> QED BY <2>1, <2>2, <2>5, NothingFound, DoneInv
<1>2. CASE RunSelect
  <2>1. /\ Exec("SELECT") /\ UNCHANGED <<rows, call, built>>
        /\ \E s \in Arrangements : found' = Page(s)
    BY <1>2 DEF RunSelect
  <2>2. RowsFit /\ Sound /\ OptionsFit
    BY <2>1, Running, CalledOptions
  <2>3. IsPage(found')
    BY <2>1, <2>2, PagesAre
  <2>4. ToSet(found') \subseteq DOMAIN rows
    BY <2>3 DEF IsPage, Chosen
  <2>5. RowsFit'
    BY <2>1, <2>2 DEF RowsFit
  <2> QED BY <2>1, <2>4, <2>5, DoneInv
<1>3. CASE RunUpdate
  <2>1. /\ Exec("UPDATE") /\ UNCHANGED <<call, built, found>>
        /\ rows' = [s \in DOMAIN rows |-> IF s \in Matching THEN Assign(rows[s]) ELSE rows[s]]
    BY <1>3 DEF RunUpdate
  <2>2. RowsFit /\ found = <<>> /\ AssignFits
    BY <2>1, Running, CalledAssign
  <2>3. RowsFit'
    BY <2>1, <2>2 DEF RowsFit, AssignFits
  <2> QED BY <2>1, <2>2, <2>3, NothingFound, DoneInv
<1>4. CASE RunDelete
  <2>1. /\ Exec("DELETE") /\ UNCHANGED <<call, built, found>>
        /\ rows' = [s \in DOMAIN rows \ Matching |-> rows[s]]
    BY <1>4 DEF RunDelete
  <2>2. RowsFit /\ found = <<>>
    BY <2>1, Running
  <2>3. RowsFit'
    BY <2>1, <2>2 DEF RowsFit
  <2> QED BY <2>1, <2>2, <2>3, NothingFound, DoneInv
<1> QED BY <1>1, <1>2, <1>3, <1>4

LEMMA CallInvNext == CallInv /\ [Next]_vars => CallInv'
<1> SUFFICES ASSUME CallInv, [Next]_vars PROVE CallInv'
  OBVIOUS
<1>1. CASE Return
  <2>1. /\ pc' = "idle" /\ call' = NoCall /\ built' = Refused /\ found' = <<>>
        /\ rows' = rows
    BY <1>1 DEF Return
  <2> QED BY <2>1, NothingFound DEF CallInv, RowsFit
<1>2. CASE UNCHANGED vars
  <2>1. UNCHANGED <<call, built>> /\ UNCHANGED <<rows, pc, found>>
    BY <1>2 DEF vars
  <2>2. Called => Called'
    BY <2>1, CalledStays
  <2> QED BY <2>1, <2>2 DEF CallInv, RowsFit
<1> QED BY <1>1, <1>2, CallsInv, RunsInv DEF Next

\* At every moment the call under way is one that the repositories made, and built is
\* what orm.go makes of it; a statement that was refused never runs.
THEOREM QueryInvariance == Spec => []CallInv
<1>1. Init => CallInv
  BY CallInvInit
<1>2. CallInv /\ [Next]_vars => CallInv'
  BY CallInvNext
<1> QED BY <1>1, <1>2, PTL DEF Spec

----------------------------------------------------------------------------
(* What it means. *)

LEMMA CalledApi ==
    Called => call.api \in {"Insert", "SelectOne", "Update", "Delete",
                            "SelectOneWithFilters", "Paginated", "Filtered"}
BY DEF Called, CalledInsert, CalledSelectOne, CalledUpdate, CalledDelete,
       CalledSelectOneWithFilters, CalledPaginated, CalledFiltered, NoCall

LEMMA CalledRefused == Called /\ ~built.ok => built = Refused
BY InsertIs, SelectOneIs, UpdateIs, DeleteIs, SelectOneWithFiltersIs, PaginatedIs,
   FilteredIs DEF Called, Builds

\* The statement's part of TypeOK.
BuiltOK ==
    /\ built.verb \in {"none", "INSERT", "SELECT", "UPDATE", "DELETE"}
    /\ built.ok <=> built.verb # "none"
    /\ ToSet(built.args) \subseteq Value \cup {None}
    /\ \A i \in DOMAIN built.where : built.where[i].op # "IN" =>
         \A n \in ToSet(built.where[i].at) : built.args[n] \in Value

LEMMA CallInvTypes == CallInv => TypeOK
<1> SUFFICES ASSUME CallInv PROVE TypeOK
  OBVIOUS
<1>1. ASSUME built = Refused PROVE BuiltOK
  <2>1. /\ built.verb = "none" /\ built.ok = FALSE /\ built.args = <<>>
        /\ built.where = <<>>
    BY <1>1 DEF Refused
  <2>2. built.ok <=> built.verb # "none"
    BY <2>1
  <2>3. ToSet(built.args) = {} /\ DOMAIN built.where = {}
    BY <2>1, NothingFound
  <2> QED BY <2>1, <2>2, <2>3 DEF BuiltOK
<1>2. ASSUME built # Refused PROVE BuiltOK
  <2>1. Called /\ built.ok
    BY <1>2, CalledRefused DEF CallInv
  <2>2. Sound /\ VerbFits
    BY <2>1, CalledSound, CalledVerb
  <2>3. ToSet(built.args) \subseteq Value \cup {None}
    BY <2>2 DEF Sound, ToSet, Arg
  <2>4. /\ built.verb \in {"none", "INSERT", "SELECT", "UPDATE", "DELETE"}
        /\ built.ok <=> built.verb # "none"
    BY <2>1, <2>2 DEF VerbFits
  <2> QED BY <2>2, <2>3, <2>4, Zenon DEF Sound, BuiltOK
<1>3. BuiltOK
  BY <1>1, <1>2
<1>4. call.api \in {"none", "Insert", "SelectOne", "Update", "Delete",
                    "SelectOneWithFilters", "Paginated", "Filtered"}
  <2>1. CASE pc = "idle"
    BY <2>1 DEF CallInv, NoCall
  <2>2. CASE pc # "idle"
    BY <2>2, CalledApi DEF CallInv
  <2> QED BY <2>1, <2>2
<1> QED BY <1>3, <1>4, Zenon DEF TypeOK, BuiltOK, CallInv, RowsFit

\* Statements of five kinds over rows of the table; no condition but the list of an IN
\* is given a nil to compare with, whatever maps and filters callers pass.
THEOREM QueryTypes == Spec => []TypeOK
<1>1. CallInv => TypeOK
  BY CallInvTypes
<1> QED BY <1>1, QueryInvariance, PTL

\* The placeholders of every statement are $1 to $n for its n arguments, each once and
\* in order, for any number of columns, conditions and members of the lists of IN.
THEOREM PlaceholdersAlwaysFit == Spec => []PlaceholdersFit
<1>1. CallInv => PlaceholdersFit
  BY CalledFits, RefusedFits DEF CallInv
<1> QED BY <1>1, QueryInvariance, PTL

\* orm.go refuses a call when and only when it makes no sense: a name that is no column,
\* conditions that name nothing, a comparison with nil, an empty IN, a negative limit.
THEOREM SenselessIsRefused == Spec => []RefusedIfSenseless
<1>1. CallInv => RefusedIfSenseless
  BY CalledSense DEF CallInv, RefusedIfSenseless
<1> QED BY <1>1, QueryInvariance, PTL

\* What StatementMeansCall says of a step.
Means ==
    CASE call.api = "Insert" ->
           \E s \in Slot \ DOMAIN rows : rows' = Added(s, With([c \in Column |-> None]))
      [] call.api = "Update" ->
           rows' = [s \in DOMAIN rows |-> IF Wanted[s] THEN With(rows[s]) ELSE rows[s]]
      [] call.api = "Delete" ->
           rows' = [s \in DOMAIN rows \ Chosen |-> rows[s]]
      [] OTHER -> rows' = rows /\ IsPage(found')

LEMMA StepMeans ==
    ASSUME CallInv, Next, pc = "built", pc' = "done"
    PROVE  Means
<1>1. CASE RunInsert
  <2>1. Exec("INSERT")
    BY <1>1 DEF RunInsert
  <2>2. AssignFits /\ call.api = "Insert"
    BY <2>1, Running, CalledAssign DEF VerbFits
  <2>3. Assign([c \in Column |-> None]) = With([c \in Column |-> None])
    BY <2>2, EmptyRow DEF AssignFits
  <2>4. \E s \in Slot \ DOMAIN rows : rows' = Added(s, With([c \in Column |-> None]))
    BY <1>1, <2>3 DEF RunInsert
  <2> QED BY <2>2, <2>4 DEF Means
<1>2. CASE RunUpdate
  <2>1. Exec("UPDATE")
    BY <1>2 DEF RunUpdate
  <2>2. AssignFits /\ call.api = "Update" /\ Matching = Chosen /\ RowsFit
    BY <2>1, Running, CalledAssign DEF VerbFits
  <2>3. ASSUME NEW s \in DOMAIN rows
        PROVE  (IF s \in Matching THEN Assign(rows[s]) ELSE rows[s])
                 = IF Wanted[s] THEN With(rows[s]) ELSE rows[s]
    <3>1. Assign(rows[s]) = With(rows[s])
      BY <2>2 DEF AssignFits, RowsFit
    <3>2. s \in Matching <=> Wanted[s]
      BY <2>2 DEF Chosen
    <3> QED BY <3>1, <3>2
  <2>4. rows' = [s \in DOMAIN rows |-> IF Wanted[s] THEN With(rows[s]) ELSE rows[s]]
    BY <1>2, <2>3 DEF RunUpdate
  <2> QED BY <2>2, <2>4 DEF Means
<1>3. CASE RunDelete
  <2>1. Exec("DELETE")
    BY <1>3 DEF RunDelete
  <2>2. call.api = "Delete" /\ Matching = Chosen
    BY <2>1, Running DEF VerbFits
  <2>3. rows' = [s \in DOMAIN rows \ Chosen |-> rows[s]]
    BY <1>3, <2>2 DEF RunDelete
  <2> QED BY <2>2, <2>3 DEF Means
<1>4. CASE RunSelect
  <2>1. Exec("SELECT")
    BY <1>4 DEF RunSelect
  <2>2. RowsFit /\ Sound /\ OptionsFit /\ call.api \notin {"Insert", "Update", "Delete"}
    BY <2>1, Running, CalledOptions DEF VerbFits
  <2>3. rows' = rows /\ IsPage(found')
    BY <1>4, <2>2, PagesAre DEF RunSelect
  <2> QED BY <2>2, <2>3 DEF Means
<1>5. RunInsert \/ RunSelect \/ RunUpdate \/ RunDelete
  BY DEF Next, Insert, SelectOne, Update, Delete, SelectOneWithFilters,
         GetCredentialsByUserIDPaginated, GetCredentialsByUserIDFiltered, Make, Return
<1> QED BY <1>1, <1>2, <1>3, <1>4, <1>5

\* What PostgreSQL makes of the statement is what the call means: for every table, map,
\* list of filters, order, limit and offset it inserts, changes, deletes or returns the
\* rows the call names, and a listing never a row of another user.
THEOREM StatementsMeanCalls == Spec => StatementMeansCall
<1>1. CallInv /\ [Next]_vars => [pc = "built" /\ pc' = "done" => Means]_vars
  BY StepMeans
<1> QED BY <1>1, QueryInvariance, PTL DEF Spec, StatementMeansCall, Means
=============================================================================
