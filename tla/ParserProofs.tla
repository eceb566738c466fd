------------------------------ MODULE ParserProofs ------------------------------
(***************************************************************************)
(* Theorems about the parser's two graph algorithms and the drawing of the *)
(* editor, for definitions of any size and shape: validateAndSortDAG sorts *)
(* what can be sorted and calls a cycle only what cannot, detectCycles     *)
(* agrees with it, and DagView shows the order.                            *)
(*                                                                         *)
(* The arguments: a step waits in inDegree for exactly the entries not yet *)
(* walked, so what is never queued waits for steps that are never queued   *)
(* (SortInv); as long as detectCycles has reported nothing, all that a     *)
(* BLACK node leads to is BLACK and nothing BLACK waits in a circle        *)
(* (SearchInv); a step that has a column depends on such steps only, and   *)
(* every sweep but the last places one (DrawInv).                          *)
(***************************************************************************)
EXTENDS DagView, FiniteSetTheorems, TLAPS

-------------------------------------------------------------------------------
(* Numbers and finite sets.                                                 *)

LEMMA LeastNumber ==
  ASSUME NEW S \in SUBSET Nat, S # {}
  PROVE  \E n \in S : \A m \in S : n <= m
<1>1. PICK n \in S : \A m \in S : ~(<<m, n>> \in OpToRel(<, Nat))
  BY NatLessThanWellFounded, WFMin
<1>2. \A m \in S : ~(m < n)
  BY <1>1 DEF OpToRel
<1>3. QED
  BY <1>2

\* A set with an upper bound has a greatest member.
LEMMA GreatestNumber ==
  ASSUME NEW S \in SUBSET Int, S # {}, NEW b \in Int, \A n \in S : n <= b
  PROVE  \E n \in S : \A m \in S : n >= m
<1> DEFINE T == {d \in Nat : \E n \in S : d = b - n}
<1>1. PICK m \in S : TRUE
  OBVIOUS
<1>2. b - m \in T
  OBVIOUS
<1>3. PICK d \in T : \A c \in T : d <= c
  BY <1>2, LeastNumber
<1>4. PICK n \in S : d = b - n
  OBVIOUS
<1>5. \A k \in S : b - k \in T
  OBVIOUS
<1>6. QED
  BY <1>3, <1>4, <1>5

\* Finite sets of numbers have upper bounds.
LEMMA FiniteIsBounded ==
  ASSUME NEW S \in SUBSET Int, IsFiniteSet(S)
  PROVE  \E b \in Int : \A n \in S : n <= b
<1> DEFINE Bad == {c \in Nat : \E T \in SUBSET S :
                      IsFiniteSet(T) /\ Cardinality(T) = c /\ ~\E b \in Int : \A n \in T : n <= b}
<1>1. SUFFICES ASSUME Bad # {} PROVE FALSE
  <2>1. Cardinality(S) \in Nat
    BY FS_CardinalityType
  <2>2. QED
    BY <1>1, <2>1
<1>2. PICK c \in Bad : \A d \in Bad : c <= d
  BY <1>1, LeastNumber
<1>3. PICK T \in SUBSET S :
        IsFiniteSet(T) /\ Cardinality(T) = c /\ ~\E b \in Int : \A n \in T : n <= b
  OBVIOUS
<1>4. PICK x \in T : TRUE
  BY <1>3
<1>5. IsFiniteSet(T \ {x}) /\ Cardinality(T \ {x}) = c - 1 /\ c - 1 \in Nat
  BY <1>3, <1>4, FS_RemoveElement, FS_CardinalityType, FS_EmptySet
<1>6. PICK b \in Int : \A n \in T \ {x} : n <= b
  BY <1>2, <1>5
<1>7. CASE x <= b
  BY <1>3, <1>6, <1>7
<1>8. CASE x > b
  BY <1>3, <1>4, <1>6, <1>8
<1>9. QED
  BY <1>4, <1>7, <1>8

LEMMA GreatestOfFinite ==
  ASSUME NEW S \in SUBSET Int, IsFiniteSet(S), S # {}
  PROVE  Max(S) \in S /\ \A m \in S : Max(S) >= m
<1>1. \E n \in S : \A m \in S : n >= m
  BY FiniteIsBounded, GreatestNumber
<1>2. QED
  BY <1>1 DEF Max

-------------------------------------------------------------------------------
(* Definitions.                                                             *)

\* What an entry is.
LEMMA EntryFacts ==
  ASSUME NEW d \in Seq(Step), NEW e \in Entries(d)
  PROVE  /\ e = <<e[1], e[2]>> /\ e[1] \in Nat /\ e[2] \in Nat
         /\ e[1] \in DOMAIN d /\ e[2] \in DOMAIN d[e[1]].depends_on
         /\ DepAt(d, e) \in Names /\ StepAt(d, e) \in StepIds(d) /\ StepAt(d, e) \in Names
<1>1. PICK i \in DOMAIN d : e \in {i} \X DOMAIN d[i].depends_on
  BY DEF Entries
<1>2. d[i] \in Step /\ i \in Nat
  OBVIOUS
<1>3. d[i].depends_on \in Seq(Names) /\ d[i].id \in Names
  BY <1>2 DEF Step
<1>4. PICK j \in DOMAIN d[i].depends_on : e = <<i, j>>
  BY <1>1
<1>5. j \in Nat /\ d[i].depends_on[j] \in Names
  BY <1>3, <1>4
<1>6. QED
  BY <1>2, <1>3, <1>4, <1>5 DEF DepAt, StepAt, StepIds

\* Every dependency of a step is an entry.
LEMMA EntryOf ==
  ASSUME NEW d, NEW i \in DOMAIN d, NEW j \in DOMAIN d[i].depends_on
  PROVE  /\ <<i, j>> \in Entries(d)
         /\ DepAt(d, <<i, j>>) = d[i].depends_on[j] /\ StepAt(d, <<i, j>>) = d[i].id
BY DEF Entries, DepAt, StepAt

LEMMA EntriesFinite ==
  ASSUME NEW d \in Seq(Step)
  PROVE  IsFiniteSet(Entries(d))
<1> DEFINE Of(i) == {i} \X DOMAIN d[i].depends_on
           Lists == {Of(i) : i \in DOMAIN d}
           f == [i \in DOMAIN d |-> Of(i)]
<1>1. IsFiniteSet(DOMAIN d)
  <2>1. DOMAIN d = 1..Len(d) /\ Len(d) \in Nat
    OBVIOUS
  <2>2. QED
    BY <2>1, FS_Interval
<1>2. f \in Surjection(DOMAIN d, Lists)
  BY DEF Surjection
<1>3. IsFiniteSet(Lists)
  BY <1>1, <1>2, FS_Surjection
<1>4. ASSUME NEW i \in DOMAIN d
      PROVE  IsFiniteSet(Of(i))
  <2>1. d[i].depends_on \in Seq(Names)
    <3>1. d[i] \in Step
      OBVIOUS
    <3>2. QED
      BY <3>1 DEF Step
  <2>2. DOMAIN d[i].depends_on = 1..Len(d[i].depends_on) /\ Len(d[i].depends_on) \in Nat
    BY <2>1
  <2>3. IsFiniteSet(1..Len(d[i].depends_on))
    BY <2>2, FS_Interval
  <2>4. IsFiniteSet({i})
    BY FS_Singleton
  <2>5. QED
    BY <2>2, <2>3, <2>4, FS_Product
<1>5. Entries(d) = UNION Lists
  BY DEF Entries
<1>6. \A T \in Lists : IsFiniteSet(T)
  BY <1>4
<1> HIDE DEF Lists
<1>7. QED
  BY <1>3, <1>5, <1>6, FS_UNION

\* The loops find an entry as long as one is left.
LEMMA EarliestIsEntry ==
  ASSUME NEW d \in Seq(Step), NEW E \in SUBSET Entries(d), E # {}
  PROVE  Earliest(E) \in E
<1> DEFINE Steps == {e[1] : e \in E}
<1>1. \A e \in E : e = <<e[1], e[2]>> /\ e[1] \in Nat /\ e[2] \in Nat
  BY EntryFacts
<1>2. Steps \in SUBSET Nat /\ Steps # {}
  BY <1>1
<1>3. PICK i \in Steps : \A k \in Steps : i <= k
  BY <1>2, LeastNumber
<1> DEFINE Places == {e[2] : e \in {e \in E : e[1] = i}}
<1>4. Places \in SUBSET Nat /\ Places # {}
  BY <1>1
<1>5. PICK j \in Places : \A k \in Places : j <= k
  BY <1>4, LeastNumber
<1>6. PICK e \in E : e[1] = i /\ e[2] = j
  OBVIOUS
<1>7. ASSUME NEW f \in E
      PROVE  f = e \/ Before(e, f)
  <2>1. f[1] \in Steps /\ i <= f[1] /\ i \in Nat /\ f[1] \in Nat
    BY <1>1, <1>2, <1>3
  <2>2. CASE f[1] = i
    <3>1. f[2] \in Places /\ j <= f[2] /\ j \in Nat /\ f[2] \in Nat
      BY <1>1, <1>4, <1>5, <2>2
    <3>2. f[2] = j => f = e
      BY <1>1, <1>6, <2>2
    <3>3. QED
      BY <1>6, <2>2, <3>1, <3>2 DEF Before
  <2>3. CASE f[1] # i
    BY <1>6, <2>1, <2>3 DEF Before
  <2>4. QED
    BY <2>2, <2>3
<1>8. QED
  BY <1>7 DEF Earliest

\* The steps that some step precedes, and that it precedes.
LEMMA PrecedesByEntry ==
  ASSUME NEW d, NEW x, NEW y
  PROVE  <<x, y>> \in Precedes(d) <=> \E e \in Entries(d) : DepAt(d, e) = x /\ StepAt(d, e) = y
BY DEF Precedes

\* The ids of a definition are finitely many, and as many as its steps if none is repeated.
LEMMA IdsFinite ==
  ASSUME NEW d \in Seq(Step)
  PROVE  /\ IsFiniteSet(StepIds(d)) /\ Cardinality(StepIds(d)) <= Len(d)
         /\ StepIds(d) \subseteq Names /\ Len(d) \in Nat
         /\ DuplicateIds(d) = {} =>
              /\ Cardinality(StepIds(d)) = Len(d)
              /\ \A i, j \in DOMAIN d : d[i].id = d[j].id => i = j
<1> DEFINE f == [i \in DOMAIN d |-> d[i].id]
<1>1. DOMAIN d = 1..Len(d) /\ Len(d) \in Nat
  OBVIOUS
<1>2. IsFiniteSet(DOMAIN d) /\ Cardinality(DOMAIN d) = Len(d)
  BY <1>1, FS_Interval
<1>3. f \in Surjection(DOMAIN d, StepIds(d))
  BY DEF Surjection, StepIds
<1>4. IsFiniteSet(StepIds(d)) /\ Cardinality(StepIds(d)) <= Len(d)
  BY <1>2, <1>3, FS_Surjection
<1>5. ASSUME NEW i \in DOMAIN d
      PROVE  d[i].id \in Names
  <2>1. d[i] \in Step
    OBVIOUS
  <2>2. QED
    BY <2>1 DEF Step
<1>6. ASSUME DuplicateIds(d) = {}, NEW i \in DOMAIN d, NEW j \in DOMAIN d, d[i].id = d[j].id
      PROVE  i = j
  <2>1. ASSUME NEW k \in DOMAIN d, NEW l \in DOMAIN d, k < l
        PROVE  d[k].id # d[l].id
    <3>1. k \in 1..(l - 1)
      BY <1>1, <2>1
    <3>2. QED
      BY <1>6, <3>1 DEF DuplicateIds
  <2>2. QED
    BY <1>1, <1>6, <2>1
<1>7. DuplicateIds(d) = {} => Cardinality(StepIds(d)) = Len(d)
  <2>1. DuplicateIds(d) = {} => f \in Injection(DOMAIN d, StepIds(d))
    BY <1>6 DEF Injection, IsInjective, StepIds
  <2>2. QED
    BY <1>2, <1>3, <2>1, FS_Surjection
<1>8. QED
  BY <1>1, <1>4, <1>5, <1>6, <1>7 DEF StepIds

\* Finitely many ids have an alphabetical order.
LEMMA InOrder ==
  ASSUME NEW ids \in SUBSET Nat, IsFiniteSet(ids)
  PROVE  /\ Alphabetical(ids) \in [1..Cardinality(ids) -> ids]
         /\ \A i, j \in 1..Cardinality(ids) : i < j => Alphabetical(ids)[i] < Alphabetical(ids)[j]
<1> DEFINE Sorts(q, T) ==
             /\ q \in [1..Cardinality(T) -> T]
             /\ \A i, j \in DOMAIN q : i < j => q[i] < q[j]
           Bad == {c \in Nat : \E T \in SUBSET ids :
                      IsFiniteSet(T) /\ Cardinality(T) = c /\ ~\E q : Sorts(q, T)}
<1>1. SUFFICES ASSUME Bad # {} PROVE FALSE
  <2>1. Cardinality(ids) \in Nat
    BY FS_CardinalityType
  <2>2. \E q : Sorts(q, ids)
    BY <1>1, <2>1
  <2>3. \E q \in [1..Cardinality(ids) -> ids] : \A i, j \in DOMAIN q : i < j => q[i] < q[j]
    BY <2>2
  <2>4. QED
    BY <2>3 DEF Alphabetical
<1>2. PICK c \in Bad : \A b \in Bad : c <= b
  BY <1>1, LeastNumber
<1>3. PICK T \in SUBSET ids : IsFiniteSet(T) /\ Cardinality(T) = c /\ ~\E q : Sorts(q, T)
  OBVIOUS
<1>4. CASE T = {}
  <2>1. Cardinality(T) = 0
    BY <1>4, FS_EmptySet
  <2>2. Sorts([i \in 1..0 |-> 0], T)
    BY <2>1
  <2>3. QED
    BY <1>3, <2>2
<1>5. CASE T # {}
  <2>0. T \in SUBSET Int
    OBVIOUS
  <2>1. PICK m \in T : \A n \in T : m >= n
    BY <1>3, <1>5, <2>0, GreatestOfFinite
  <2>2. IsFiniteSet(T \ {m}) /\ Cardinality(T \ {m}) = c - 1 /\ c - 1 \in Nat
    BY <1>3, <2>1, FS_RemoveElement, FS_CardinalityType, FS_EmptySet
  <2>3. PICK q : Sorts(q, T \ {m})
    <3> HIDE DEF Sorts
    <3>1. c - 1 \notin Bad
      BY <1>2, <2>2
    <3>2. QED
      BY <2>2, <3>1
  <2>8. q \in [1..(c - 1) -> T \ {m}] /\ \A i, j \in 1..(c - 1) : i < j => q[i] < q[j]
    BY <2>2, <2>3
  <2>9. c \in Nat /\ T \subseteq Nat
    OBVIOUS
  <2> DEFINE r == [i \in 1..c |-> IF i = c THEN m ELSE q[i]]
  <2>4. \A i \in 1..c : i # c => i \in DOMAIN q /\ q[i] \in T \ {m} /\ q[i] < m
    <3>1. \A n \in T \ {m} : n < m
      BY <2>1, <2>9
    <3>2. \A i \in 1..c : i # c => i \in 1..(c - 1)
      BY <2>9
    <3>3. QED
      BY <2>8, <3>1, <3>2
  <2>5. r \in [1..c -> T]
    BY <2>1, <2>4
  <2>6. \A i, j \in 1..c : i < j => r[i] < r[j]
    BY <2>4, <2>8, <2>9
  <2>7. QED
    BY <1>3, <2>5, <2>6
<1>6. QED
  BY <1>4, <1>5

-------------------------------------------------------------------------------
(* Sequences without repetitions.                                           *)

Distinct(q) == \A i, j \in DOMAIN q : q[i] = q[j] => i = j

\* No id is in both, or twice in one of them.
Apart(s, q) == Distinct(s) /\ Distinct(q) /\ ToSet(s) \cap ToSet(q) = {}

LEMMA AppendedSet ==
  ASSUME NEW S, NEW s \in Seq(S), NEW x \in S
  PROVE  /\ ToSet(Append(s, x)) = ToSet(s) \cup {x}
         /\ Distinct(s) /\ x \notin ToSet(s) => Distinct(Append(s, x))
<1> DEFINE n == Len(s) + 1
           t == Append(s, x)
<1>1. /\ DOMAIN t = 1..n /\ DOMAIN s = 1..(n - 1) /\ n \in Nat \ {0}
      /\ \A i \in 1..(n - 1) : t[i] = s[i]
      /\ t[n] = x
  OBVIOUS
<1> HIDE DEF t, n
<1>2. ToSet(t) = ToSet(s) \cup {x}
  BY <1>1 DEF ToSet
<1>3. Distinct(s) /\ x \notin ToSet(s) => Distinct(t)
  BY <1>1 DEF ToSet, Distinct
<1>4. QED
  BY <1>2, <1>3 DEF t

LEMMA HeadAndTail ==
  ASSUME NEW S, NEW q \in Seq(S), q # <<>>
  PROVE  /\ Head(q) \in S /\ Tail(q) \in Seq(S)
         /\ ToSet(q) = ToSet(Tail(q)) \cup {Head(q)}
         /\ Distinct(q) => Distinct(Tail(q)) /\ Head(q) \notin ToSet(Tail(q))
<1> DEFINE n == Len(q)
           t == Tail(q)
<1>1. /\ DOMAIN q = 1..n /\ DOMAIN t = 1..(n - 1) /\ n \in Nat \ {0}
      /\ \A i \in 1..(n - 1) : t[i] = q[i + 1]
      /\ Head(q) = q[1] /\ Head(q) \in S /\ t \in Seq(S)
  OBVIOUS
<1> HIDE DEF t, n
<1>2. \A i \in 1..n : i = 1 \/ (i - 1 \in 1..(n - 1) /\ q[i] = t[i - 1])
  BY <1>1
<1>3. \A i \in 1..(n - 1) : i + 1 \in 1..n /\ i + 1 # 1
  BY <1>1
<1>4. ToSet(q) = ToSet(t) \cup {Head(q)}
  <2>1. \A x : x \in ToSet(q) <=> \E i \in 1..n : x = q[i]
    BY <1>1 DEF ToSet
  <2>2. \A x : x \in ToSet(t) <=> \E i \in 1..(n - 1) : x = t[i]
    BY <1>1 DEF ToSet
  <2>3. \A x \in ToSet(q) : x \in ToSet(t) \cup {Head(q)}
    BY <1>1, <1>2, <2>1, <2>2
  <2>4. \A x \in ToSet(t) \cup {Head(q)} : x \in ToSet(q)
    BY <1>1, <1>3, <2>1, <2>2
  <2>5. QED
    BY <2>3, <2>4
<1>5. ASSUME Distinct(q), NEW i \in 1..(n - 1), NEW j \in 1..(n - 1), t[i] = t[j]
      PROVE  i = j
  <2>1. q[i + 1] = q[j + 1] /\ i + 1 \in DOMAIN q /\ j + 1 \in DOMAIN q
    BY <1>1, <1>3, <1>5
  <2>2. i + 1 = j + 1
    BY <1>5, <2>1 DEF Distinct
  <2>3. QED
    BY <1>1, <2>2
<1>6. ASSUME Distinct(q), NEW i \in 1..(n - 1)
      PROVE  t[i] # Head(q)
  <2>1. t[i] = q[i + 1] /\ i + 1 \in DOMAIN q /\ 1 \in DOMAIN q /\ i + 1 # 1
    BY <1>1, <1>3
  <2>2. QED
    BY <1>1, <1>6, <2>1 DEF Distinct
<1>7. Distinct(q) => Distinct(t) /\ Head(q) \notin ToSet(t)
  BY <1>1, <1>5, <1>6 DEF Distinct, ToSet
<1>8. QED
  BY <1>1, <1>4, <1>7 DEF t

\* The first of a queue goes to the end of the other sequence.
LEMMA Shifted ==
  ASSUME NEW S, NEW s \in Seq(S), NEW q \in Seq(S), q # <<>>, Apart(s, q)
  PROVE  Apart(Append(s, Head(q)), Tail(q))
<1>1. Head(q) \notin ToSet(s)
  BY HeadAndTail DEF Apart
<1>2. QED
  BY <1>1, HeadAndTail, AppendedSet DEF Apart

\* A sequence without repetitions of as many ids as there are has all of them.
LEMMA Complete ==
  ASSUME NEW ids, IsFiniteSet(ids), NEW s \in Seq(ids), Distinct(s)
  PROVE  Len(s) = Cardinality(ids) <=> ToSet(s) = ids
<1>1. s \in Injection(1..Len(s), ids)
  BY DEF Injection, IsInjective, Distinct
<1>2. Cardinality(1..Len(s)) = Len(s)
  <2>1. Len(s) \in Nat
    OBVIOUS
  <2>2. Cardinality(1..Len(s)) = IF 1 > Len(s) THEN 0 ELSE Len(s) - 1 + 1
    BY <2>1, FS_Interval
  <2>3. QED
    BY <2>1, <2>2
<1>3. Len(s) = Cardinality(ids) <=> s \in Surjection(1..Len(s), ids)
  BY <1>1, <1>2, FS_Injection
<1>4. s \in Surjection(1..Len(s), ids) <=> ToSet(s) = ids
  <2>1. DOMAIN s = 1..Len(s) /\ s \in [1..Len(s) -> ids]
    OBVIOUS
  <2>2. QED
    BY <2>1 DEF Surjection, ToSet
<1>5. QED
  BY <1>3, <1>4

\* Steps that can be put in an order never wait for each other.
LEMMA OrderHasNoDeadlock ==
  ASSUME NEW d, NEW ids, NEW order \in Seq(ids), ToSet(order) = ids,
         \A i, j \in DOMAIN order : <<order[i], order[j]>> \in Precedes(d) => i < j
  PROVE  ~HasDeadlock(d, ids)
<1>1. SUFFICES ASSUME NEW S \in SUBSET ids, S # {},
                      \A s \in S : \E t \in S : <<t, s>> \in Precedes(d)
               PROVE  FALSE
  BY DEF HasDeadlock
<1> DEFINE T == {i \in DOMAIN order : order[i] \in S}
<1>2. T \in SUBSET Nat /\ T # {}
  BY <1>1 DEF ToSet
<1>3. PICK i \in T : \A j \in T : i <= j
  BY <1>2, LeastNumber
<1>4. PICK t \in S : <<t, order[i]>> \in Precedes(d)
  BY <1>1
<1>5. PICK k \in DOMAIN order : order[k] = t
  BY DEF ToSet
<1>6. k < i /\ k \in T /\ k \in Nat /\ i \in Nat
  BY <1>4, <1>5
<1>7. QED
  BY <1>3, <1>6

-------------------------------------------------------------------------------
(* The queue of validateAndSortDAG.                                         *)

Clean == DuplicateIds(def) = {} /\ Dangling = {}

Into(s) == {e \in Entries(def) : StepAt(def, e) = s}

\* The entries that have been counted down: those that name a sorted step, but for
\* what is left of the last one's.
Walked == {e \in Entries(def) : DepAt(def, e) \in ToSet(sorted)} \ children

SortTypes ==
  /\ queue \in Seq(StepIds(def)) /\ sorted \in Seq(StepIds(def))
  /\ inDegree \in [StepIds(def) -> Nat]
  /\ children \subseteq Entries(def)
  /\ \A e \in children : DepAt(def, e) \in ToSet(sorted)

\* inDegree is what is left to count, and a step is queued when nothing is left.
Counted ==
  \A s \in StepIds(def) :
    /\ inDegree[s] = Cardinality(Into(s) \ Walked)
    /\ s \in ToSet(sorted) \cup ToSet(queue) <=> Into(s) \subseteq Walked

\* The steps it depends on are before a step.
Ordered ==
  \A j \in DOMAIN sorted : \A e \in Into(sorted[j]) :
    \E i \in DOMAIN sorted : i < j /\ sorted[i] = DepAt(def, e)

SortInv == Clean /\ SortTypes /\ Apart(sorted, queue) /\ Counted /\ Ordered

Judged ==
  /\ AcceptedIsSorted /\ CycleIffDeadlock
  /\ pc = "done" => (result.ok <=> Clean /\ ~HasDeadlock(def, StepIds(def)))

Unsorted == queue = <<>> /\ children = {} /\ sorted = <<>>

ParserInv ==
  /\ def \in Definitions
  /\ pc \notin {"sort", "refused", "done"} => Unsorted
  /\ pc = "sort" => SortInv
  /\ Judged

LEMMA IsDefinition ==
  ASSUME def \in Definitions
  PROVE  def \in Seq(Step)
BY DefinitionsAssumption

\* The counts of what is left are finite.
LEMMA IntoFinite ==
  ASSUME def \in Definitions, NEW s, NEW W
  PROVE  IsFiniteSet(Into(s) \ W) /\ Cardinality(Into(s) \ W) \in Nat
<1>1. Into(s) \ W \in SUBSET Entries(def)
  BY DEF Into
<1>2. IsFiniteSet(Into(s) \ W)
  BY <1>1, IsDefinition, EntriesFinite, FS_Subset
<1>3. QED
  BY <1>2, FS_CardinalityType

LEMMA BuildSorts ==
  ASSUME ParserInv, BuildGraph
  PROVE  SortInv'
<1> USE DEF ParserInv
<1> DEFINE roots == {s \in StepIds(def) : Degree(s) = 0}
<1>1. /\ def \in Seq(Step) /\ def' = def /\ children' = {} /\ sorted' = <<>>
      /\ inDegree' = [s \in StepIds(def) |-> Degree(s)] /\ queue' = Alphabetical(roots)
      /\ Clean
  BY IsDefinition DEF BuildGraph, Unsorted, Clean
<1>2. ASSUME NEW s \in StepIds(def)
      PROVE  Degree(s) = Cardinality(Into(s) \ {}) /\ Degree(s) \in Nat
  <2>1. Into(s) \ {} = {e \in Entries(def) : StepAt(def, e) = s}
    BY DEF Into
  <2>2. Cardinality(Into(s) \ {}) \in Nat
    BY IntoFinite
  <2>3. QED
    BY <2>1, <2>2 DEF Degree
<1>3. IsFiniteSet(roots) /\ roots \in SUBSET Nat /\ roots \subseteq StepIds(def)
  <2>1. roots \in SUBSET StepIds(def) /\ IsFiniteSet(StepIds(def)) /\ StepIds(def) \subseteq Nat
    BY <1>1, IdsFinite, DefinitionsAssumption
  <2>2. QED
    BY <2>1, FS_Subset
<1> DEFINE n == Cardinality(roots)
<1>4. n \in Nat /\ n = Cardinality(roots)
  BY <1>3, FS_CardinalityType
<1>5. queue' \in [1..n -> roots] /\ \A i, j \in 1..n : i < j => queue'[i] < queue'[j]
  BY <1>1, <1>3, InOrder
<1> HIDE DEF n, roots
<1>6. queue' \in Seq(roots) /\ queue' \in Seq(StepIds(def)) /\ DOMAIN queue' = 1..n /\ Len(queue') = n
  <2>1. queue' \in Seq(roots) /\ DOMAIN queue' = 1..n /\ Len(queue') = n
    BY <1>4, <1>5
  <2>2. queue' \in [1..n -> StepIds(def)]
    BY <1>3, <1>5
  <2>3. QED
    BY <1>4, <2>1, <2>2
<1>7. Distinct(queue')
  <2>1. \A i \in 1..n : queue'[i] \in Nat
    BY <1>3, <1>5
  <2>2. \A i, j \in 1..n : i < j \/ j < i \/ i = j
    BY <1>4
  <2>3. QED
    BY <1>5, <1>6, <2>1, <2>2 DEF Distinct
<1>8. ToSet(queue') = roots
  BY <1>3, <1>4, <1>6, <1>7, Complete
<1>9. Walked' = {} /\ ToSet(sorted') = {} /\ Distinct(sorted')
  BY <1>1 DEF Walked, ToSet, Distinct
<1>10. \A s \in StepIds(def) : s \in roots <=> Into(s) \subseteq {}
  <2>1. ASSUME NEW s \in StepIds(def)
        PROVE  Cardinality(Into(s) \ {}) = 0 <=> Into(s) \ {} = {}
    BY IntoFinite, FS_EmptySet
  <2>2. QED
    BY <1>2, <2>1 DEF roots
<1>11. \A s : Into(s)' = Into(s)
  BY <1>1 DEF Into
<1>12. Counted'
  BY <1>1, <1>2, <1>8, <1>9, <1>10, <1>11 DEF Counted
<1>13. SortTypes'
  BY <1>1, <1>2, <1>6 DEF SortTypes
<1>14. Clean' /\ Ordered' /\ Apart(sorted, queue)'
  BY <1>1, <1>7, <1>9 DEF Clean, Dangling, Ordered, Apart
<1>15. QED
  BY <1>12, <1>13, <1>14 DEF SortInv

\* Taking the first of the queue counts nothing: what it precedes is left to count.
LEMMA ShiftSorts ==
  ASSUME ParserInv, ShiftNode
  PROVE  SortInv'
<1> USE DEF ParserInv
<1> DEFINE h == Head(queue)
<1>1. /\ SortInv /\ def \in Seq(Step) /\ queue # <<>> /\ children = {}
      /\ queue' = Tail(queue) /\ sorted' = Append(sorted, h) /\ children' = Adjacency(h)
      /\ UNCHANGED <<def, inDegree>>
  BY IsDefinition DEF ShiftNode
<1>2. /\ h \in StepIds(def) /\ queue' \in Seq(StepIds(def)) /\ sorted' \in Seq(StepIds(def))
      /\ ToSet(queue) = ToSet(queue') \cup {h} /\ ToSet(sorted') = ToSet(sorted) \cup {h}
      /\ Distinct(queue)
  BY <1>1, HeadAndTail, AppendedSet DEF SortInv, SortTypes, Apart
<1>3. Apart(sorted', queue') /\ h \notin ToSet(sorted)
  BY <1>1, <1>2, Shifted DEF SortInv, SortTypes, Apart
<1>4. Walked' = Walked
  BY <1>1, <1>2, <1>3 DEF Walked, Adjacency
<1>5. \A s : Into(s)' = Into(s)
  BY <1>1 DEF Into
<1>6. SortTypes'
  BY <1>1, <1>2 DEF SortInv, SortTypes, Adjacency
<1>7. Counted'
  BY <1>1, <1>2, <1>4, <1>5 DEF SortInv, Counted
<1>8. Ordered'
  <2> DEFINE n == Len(sorted)
  <2>1. /\ n \in Nat /\ DOMAIN sorted = 1..n /\ DOMAIN sorted' = 1..(n + 1)
        /\ \A i \in 1..n : sorted'[i] = sorted[i]
        /\ sorted'[n + 1] = h
    BY <1>1, <1>2 DEF SortInv, SortTypes
  <2> HIDE DEF n
  <2>2. ASSUME NEW j \in 1..n, NEW e \in Into(sorted[j])
        PROVE  \E i \in 1..(n + 1) : i < j /\ sorted'[i] = DepAt(def, e)
    BY <1>1, <2>1, <2>2 DEF SortInv, Ordered
  <2>3. ASSUME NEW e \in Into(h)
        PROVE  \E i \in 1..(n + 1) : i < n + 1 /\ sorted'[i] = DepAt(def, e)
    <3>1. Into(h) \subseteq Walked
      BY <1>1, <1>2 DEF SortInv, Counted
    <3>2. DepAt(def, e) \in ToSet(sorted)
      BY <2>3, <3>1 DEF Walked
    <3>3. QED
      BY <2>1, <3>2 DEF ToSet
  <2>4. \A j \in 1..(n + 1) : j \in 1..n \/ j = n + 1
    BY <2>1
  <2>5. QED
    BY <1>1, <1>5, <2>1, <2>2, <2>3, <2>4 DEF Ordered
<1>9. QED
  BY <1>1, <1>3, <1>6, <1>7, <1>8 DEF SortInv, Clean, Dangling

\* Counting an entry: its step is queued when it was the last one into it.
LEMMA CountSorts ==
  ASSUME ParserInv, CountChild
  PROVE  SortInv'
<1> USE DEF ParserInv
<1> DEFINE e == Earliest(children)
           c == StepAt(def, e)
           left(s) == Into(s) \ Walked
<1>1. /\ SortInv /\ def \in Seq(Step) /\ children # {}
      /\ children' = children \ {e} /\ inDegree' = [inDegree EXCEPT ![c] = @ - 1]
      /\ queue' = IF inDegree[c] = 1 THEN Append(queue, c) ELSE queue
      /\ UNCHANGED <<def, sorted>>
  BY IsDefinition DEF CountChild
<1>2. e \in children /\ e \in Entries(def) /\ c \in StepIds(def) /\ DepAt(def, e) \in ToSet(sorted)
  BY <1>1, EarliestIsEntry, EntryFacts DEF SortInv, SortTypes
<1> HIDE DEF e
<1>3. Walked' = Walked \cup {e} /\ e \notin Walked
  BY <1>1, <1>2 DEF Walked
<1>4. \A s : Into(s)' = Into(s)
  BY <1>1 DEF Into
<1>5. e \in left(c) /\ \A s : s # c => e \notin Into(s)
  BY <1>2, <1>3 DEF Into
<1>6. ASSUME NEW s \in StepIds(def)
      PROVE  /\ IsFiniteSet(left(s)) /\ Cardinality(left(s)) \in Nat
             /\ Cardinality(Into(s) \ Walked') = IF s = c THEN Cardinality(left(s)) - 1
                                                 ELSE Cardinality(left(s))
             /\ Cardinality(Into(s) \ Walked') \in Nat
  <2>1. IsFiniteSet(left(s)) /\ Cardinality(left(s)) \in Nat
    BY IntoFinite
  <2>2. Into(s) \ Walked' = left(s) \ {e}
    BY <1>3
  <2>3. /\ Cardinality(left(s) \ {e}) = IF e \in left(s) THEN Cardinality(left(s)) - 1
                                         ELSE Cardinality(left(s))
        /\ IsFiniteSet(left(s) \ {e})
    BY <2>1, FS_RemoveElement
  <2>4. Cardinality(Into(s) \ Walked') \in Nat
    BY IntoFinite
  <2>5. QED
    BY <1>5, <2>1, <2>2, <2>3, <2>4
<1>7. inDegree[c] = 1 <=> Into(c) \subseteq Walked'
  <2>1. inDegree[c] = Cardinality(left(c))
    BY <1>1, <1>2 DEF SortInv, Counted
  <2>2. Cardinality(left(c)) = 1 <=> \E x : left(c) = {x}
    BY <1>2, <1>6, FS_Singleton
  <2>3. Cardinality(left(c)) = 1 <=> left(c) = {e}
    BY <1>5, <2>2
  <2>4. left(c) = {e} <=> Into(c) \subseteq Walked'
    BY <1>3, <1>5
  <2>5. QED
    BY <2>1, <2>3, <2>4
<1>8. c \notin ToSet(sorted) \cup ToSet(queue)
  BY <1>1, <1>2, <1>5 DEF SortInv, Counted
<1>9. /\ queue' \in Seq(StepIds(def))
      /\ ToSet(queue') = IF inDegree[c] = 1 THEN ToSet(queue) \cup {c} ELSE ToSet(queue)
      /\ Distinct(queue')
  <2>1. queue \in Seq(StepIds(def)) /\ Distinct(queue) /\ c \notin ToSet(queue)
    BY <1>1, <1>8 DEF SortInv, SortTypes, Apart
  <2>2. /\ Append(queue, c) \in Seq(StepIds(def)) /\ Distinct(Append(queue, c))
        /\ ToSet(Append(queue, c)) = ToSet(queue) \cup {c}
    BY <1>2, <2>1, AppendedSet
  <2>3. QED
    BY <1>1, <2>1, <2>2
<1>10. SortTypes'
  <2>1. inDegree[c] - 1 \in Nat
    BY <1>1, <1>2, <1>6 DEF SortInv, Counted
  <2>2. QED
    BY <1>1, <1>9, <2>1 DEF SortInv, SortTypes
<1>11. Counted'
  <2>1. ASSUME NEW s \in StepIds(def)
        PROVE  /\ inDegree'[s] = Cardinality(Into(s) \ Walked')
               /\ s \in ToSet(sorted) \cup ToSet(queue') <=> Into(s) \subseteq Walked'
    <3>1. inDegree[s] = Cardinality(left(s)) /\ inDegree \in [StepIds(def) -> Nat]
      BY <1>1 DEF SortInv, SortTypes, Counted
    <3>2. CASE s = c
      BY <1>1, <1>6, <1>7, <1>8, <1>9, <3>1, <3>2
    <3>3. CASE s # c
      <4>1. Into(s) \subseteq Walked' <=> Into(s) \subseteq Walked
        BY <1>3, <1>5, <3>3
      <4>2. s \in ToSet(queue') <=> s \in ToSet(queue)
        BY <1>9, <3>3
      <4>3. QED
        BY <1>1, <1>6, <3>1, <3>3, <4>1, <4>2 DEF SortInv, Counted
    <3>4. QED
      BY <3>2, <3>3
  <2>2. QED
    BY <1>1, <1>4, <2>1 DEF Counted
<1>12. Ordered' /\ Apart(sorted, queue)' /\ Clean'
  BY <1>1, <1>4, <1>8, <1>9 DEF SortInv, Ordered, Apart, Clean, Dangling
<1>13. QED
  BY <1>10, <1>11, <1>12 DEF SortInv

\* When nothing is queued any more, what is not sorted waits for each other.
LEMMA FinishJudges ==
  ASSUME ParserInv, Finish
  PROVE  Judged'
<1> USE DEF ParserInv
<1> DEFINE ids == StepIds(def)
           left == ids \ ToSet(sorted)
           value == IF Len(sorted) # Cardinality(ids) THEN Failure({Error(NoStep, "cycle")})
                    ELSE [ok |-> TRUE, sorted |-> sorted]
<1>1. /\ SortInv /\ def \in Seq(Step) /\ queue = <<>> /\ children = {}
      /\ result' = value /\ pc' = "done" /\ UNCHANGED <<def, sorted>>
  BY IsDefinition DEF Finish, Return
<1>2. /\ sorted \in Seq(ids) /\ Distinct(sorted) /\ IsFiniteSet(ids)
      /\ DuplicateIds(def) = {} /\ Dangling = {} /\ Cardinality(ids) = Len(def)
  BY <1>1, IdsFinite DEF SortInv, SortTypes, Apart, Clean
<1>3. Len(sorted) = Cardinality(ids) <=> ToSet(sorted) = ids
  BY <1>2, Complete
<1>4. ASSUME NEW i \in DOMAIN sorted, NEW j \in DOMAIN sorted, <<sorted[i], sorted[j]>> \in Precedes(def)
      PROVE  i < j
  <2>1. PICK e \in Entries(def) : DepAt(def, e) = sorted[i] /\ StepAt(def, e) = sorted[j]
    BY <1>4, PrecedesByEntry
  <2>2. PICK k \in DOMAIN sorted : k < j /\ sorted[k] = sorted[i]
    BY <1>1, <2>1 DEF SortInv, Ordered, Into
  <2>3. QED
    BY <1>2, <2>2 DEF Distinct
<1>5. ToSet(sorted) = ids => ~HasDeadlock(def, ids)
  BY <1>2, <1>4, OrderHasNoDeadlock
<1>6. ASSUME NEW s \in left
      PROVE  \E d \in left : <<d, s>> \in Precedes(def)
  <2>1. s \notin ToSet(queue)
    BY <1>1 DEF ToSet
  <2>2. PICK e \in Into(s) : e \notin Walked
    BY <1>1, <1>6, <2>1 DEF SortInv, Counted
  <2>3. e \in Entries(def) /\ StepAt(def, e) = s /\ DepAt(def, e) \notin ToSet(sorted)
    BY <1>1, <2>2 DEF Into, Walked
  <2>4. <<DepAt(def, e), s>> \in Precedes(def)
    BY <2>3, PrecedesByEntry
  <2>5. DepAt(def, e) \in ids
    BY <1>2, <2>4 DEF Dangling
  <2>6. QED
    BY <2>3, <2>4, <2>5
<1>7. ToSet(sorted) \subseteq ids
  BY <1>2 DEF ToSet
<1>8. ToSet(sorted) # ids => HasDeadlock(def, ids)
  <2>1. left \in SUBSET ids /\ (ToSet(sorted) # ids => left # {})
    BY <1>7
  <2>2. QED
    BY <1>6, <2>1 DEF HasDeadlock
<1>9. CASE ToSet(sorted) = ids
  <2>1. result' = [ok |-> TRUE, sorted |-> sorted]
    BY <1>1, <1>3, <1>9
  <2>2. result'.ok = TRUE /\ result'.sorted = sorted
    BY <2>1
  <2>3. result' # Failure({Error(NoStep, "cycle")})
    BY <2>2 DEF Failure
  <2>4. AcceptedIsSorted'
    BY <1>1, <1>2, <1>3, <1>4, <1>9, <2>2 DEF AcceptedIsSorted
  <2>5. QED
    BY <1>1, <1>2, <1>5, <1>9, <2>2, <2>3, <2>4 DEF Judged, CycleIffDeadlock, Clean, Dangling
<1>10. CASE ToSet(sorted) # ids
  <2>1. result' = Failure({Error(NoStep, "cycle")})
    BY <1>1, <1>3, <1>10
  <2>2. result'.ok = FALSE
    BY <2>1 DEF Failure
  <2>3. QED
    BY <1>1, <1>2, <1>8, <1>10, <2>1, <2>2 DEF Judged, AcceptedIsSorted, CycleIffDeadlock, Clean, Dangling
<1>11. QED
  BY <1>9, <1>10

\* What is refused for its ids or names is not called a cycle.
LEMMA RejectJudges ==
  ASSUME ParserInv, RejectDuplicates \/ RejectDangling
  PROVE  Judged'
<1> DEFINE cycle == Failure({Error(NoStep, "cycle")})
<1>1. /\ ~Clean /\ pc' = "done" /\ UNCHANGED def
      /\ \E errors : /\ result' = Failure(errors)
                     /\ \A x \in errors : x.issue # "cycle"
  <2>1. CASE RejectDuplicates
    BY <2>1 DEF RejectDuplicates, Return, Clean, Error
  <2>2. CASE RejectDangling
    BY <2>2 DEF RejectDangling, Return, Clean, Error
  <2>3. QED
    BY <2>1, <2>2
<1>2. PICK errors : result' = Failure(errors) /\ \A x \in errors : x.issue # "cycle"
  BY <1>1
<1>3. result'.ok = FALSE /\ result'.errors = errors
  BY <1>2 DEF Failure
<1>4. cycle.errors = {Error(NoStep, "cycle")} /\ Error(NoStep, "cycle").issue = "cycle"
  BY DEF Failure, Error
<1>5. result' # cycle
  <2>1. result' = cycle => Error(NoStep, "cycle") \in errors
    BY <1>3, <1>4
  <2>2. QED
    BY <1>2, <1>4, <2>1
<1>6. QED
  BY <1>1, <1>3, <1>5 DEF Judged, AcceptedIsSorted, CycleIffDeadlock, Clean, Dangling

LEMMA ParserStep ==
  ASSUME ParserInv, Parse \/ UNCHANGED vars
  PROVE  ParserInv'
<1> USE DEF ParserInv
<1>1. def' = def
  BY DEF Parse, Next, ReadText, CheckStepCount, CheckShape, CheckConfigs, Refuse, GoOn, vars,
         RejectDuplicates, RejectDangling, Return, BuildGraph, ShiftNode, CountChild, Finish
<1>2. CASE ReadText \/ CheckStepCount \/ CheckShape \/ CheckConfigs
  <2>1. pc' \notin {"sort", "done"} /\ UNCHANGED <<queue, children, sorted>> /\ Unsorted
    BY <1>2 DEF ReadText, CheckStepCount, CheckShape, CheckConfigs, Refuse, GoOn
  <2>2. QED
    BY <1>1, <2>1 DEF Unsorted, Judged, AcceptedIsSorted, CycleIffDeadlock
<1>3. CASE RejectDuplicates \/ RejectDangling
  <2>1. pc' = "done"
    BY <1>3 DEF RejectDuplicates, RejectDangling, Return
  <2>2. QED
    BY <1>1, <1>3, <2>1, RejectJudges
<1>4. CASE Finish
  <2>1. pc' = "done"
    BY <1>4 DEF Finish, Return
  <2>2. QED
    BY <1>1, <1>4, <2>1, FinishJudges
<1>5. CASE BuildGraph \/ ShiftNode \/ CountChild
  <2>1. pc' = "sort"
    BY <1>5 DEF BuildGraph, ShiftNode, CountChild
  <2>2. SortInv'
    BY <1>5, BuildSorts, ShiftSorts, CountSorts
  <2>3. QED
    BY <1>1, <2>1, <2>2 DEF Judged, AcceptedIsSorted, CycleIffDeadlock
<1>6. CASE UNCHANGED vars
  <2>1. Clean' = Clean /\ Dangling' = Dangling
    BY <1>6 DEF vars, Clean, Dangling
  <2>2. Counted' = Counted /\ Ordered' = Ordered
    BY <1>6 DEF vars, Counted, Ordered, Into, Walked
  <2>3. SortInv => SortInv'
    BY <1>6, <2>1, <2>2 DEF vars, SortInv, SortTypes
  <2>4. Judged'
    BY <1>6, <2>1 DEF vars, Judged, AcceptedIsSorted, CycleIffDeadlock
  <2>5. QED
    BY <1>6, <2>3, <2>4 DEF vars, Unsorted
<1>7. QED
  BY <1>2, <1>3, <1>4, <1>5, <1>6 DEF Parse, Next

LEMMA ParserInitially ==
  ASSUME ParseInit
  PROVE  ParserInv
BY DEF ParseInit, InitAt, ParserInv, Unsorted, Judged, AcceptedIsSorted, CycleIffDeadlock

-------------------------------------------------------------------------------
(* The colours of detectCycles.                                             *)

Black == {n \in Nodes : color[n] = "BLACK"}

SearchTypes ==
  /\ color \in [Nodes -> {"WHITE", "GRAY", "BLACK"}]
  /\ path \in Seq(Nodes) /\ Distinct(path) /\ cycles \in Seq(Seq(Nodes))
  /\ todo \in Seq(SUBSET Entries(def)) /\ Len(todo) = Len(path)
  /\ \A i \in DOMAIN path : todo[i] \subseteq Adjacency(path[i])
  /\ \A n \in Nodes : color[n] = "GRAY" <=> n \in ToSet(path)

\* Each node on the path waits for the one before.
PathWaits == \A i \in 1..(Len(path) - 1) : <<path[i], path[i + 1]>> \in Precedes(def)

IsCycle(c) ==
  /\ Len(c) > 1 /\ c[1] = c[Len(c)]
  /\ \A i \in 1..(Len(c) - 1) : <<c[i], c[i + 1]>> \in Precedes(def)
  /\ \A i, j \in 1..(Len(c) - 1) : c[i] = c[j] => i = j

\* What entry e leads to has been searched, or is being searched from path[i].
Followed(i, e) ==
  \/ color[StepAt(def, e)] = "BLACK"
  \/ i + 1 \in DOMAIN path /\ path[i + 1] = StepAt(def, e)

\* As long as nothing is reported, the search has missed nothing behind it.
NothingMissed ==
  /\ \A e \in Entries(def) : color[DepAt(def, e)] = "BLACK" => color[StepAt(def, e)] = "BLACK"
  /\ \A i \in DOMAIN path : \A e \in Adjacency(path[i]) \ todo[i] : Followed(i, e)
  /\ ~HasDeadlock(def, Black)

SearchInv ==
  /\ SearchTypes /\ PathWaits
  /\ \A k \in DOMAIN cycles : IsCycle(cycles[k])
  /\ cycles = <<>> => NothingMissed
  /\ done => pc = "done" /\ path = <<>> /\ \A n \in Nodes : color[n] # "WHITE"

\* An entry joins two nodes.
LEMMA EntryNodes ==
  ASSUME def \in Definitions, NEW e \in Entries(def)
  PROVE  /\ DepAt(def, e) \in Nodes /\ StepAt(def, e) \in Nodes
         /\ <<DepAt(def, e), StepAt(def, e)>> \in Precedes(def)
         /\ e \in Adjacency(DepAt(def, e))
BY IsDefinition, EntryFacts, PrecedesByEntry DEF Nodes, Adjacency

\* Searching a node that is still white, from the last one on the path or from nowhere.
LEMMA EnterSearches ==
  ASSUME def \in Definitions, SearchInv, ~done, UNCHANGED <<vars, done, cycles>>,
         NEW n \in Nodes, color[n] = "WHITE",
         NEW rest \in Seq(SUBSET Entries(def)), Len(rest) = Len(path), Enter(n, rest),
         \A i \in DOMAIN path : rest[i] \subseteq todo[i],
         path # <<>> => <<path[Len(path)], n>> \in Precedes(def),
         \A i \in DOMAIN path : \A e \in todo[i] \ rest[i] : i = Len(path) /\ StepAt(def, e) = n
  PROVE  SearchInv'
<1> DEFINE k == Len(path)
<1>1. /\ color' = [color EXCEPT ![n] = "GRAY"] /\ path' = Append(path, n)
      /\ todo' = Append(rest, Adjacency(n)) /\ UNCHANGED <<def, pc, cycles, done>>
  BY DEF Enter, vars
<1>2. /\ k \in Nat /\ DOMAIN path = 1..k /\ DOMAIN path' = 1..(k + 1) /\ Len(path') = k + 1
      /\ \A i \in 1..k : path'[i] = path[i] /\ path[i] \in Nodes
      /\ path'[k + 1] = n
  BY <1>1 DEF SearchInv, SearchTypes
<1>3. /\ todo' \in Seq(SUBSET Entries(def)) /\ Len(todo') = k + 1
      /\ \A i \in 1..k : todo'[i] = rest[i] /\ todo'[i] \subseteq todo[i]
      /\ todo'[k + 1] = Adjacency(n)
  <2>1. Adjacency(n) \in SUBSET Entries(def)
    BY DEF Adjacency
  <2>2. DOMAIN rest = 1..k /\ Len(rest) = k
    BY <1>2
  <2>3. QED
    BY <1>1, <1>2, <2>1, <2>2
<1>4. \A i \in 1..(k + 1) : i \in 1..k \/ i = k + 1
  BY <1>2
<1>5. n \notin ToSet(path)
  BY DEF SearchInv, SearchTypes
<1>6. path' \in Seq(Nodes) /\ Distinct(path') /\ ToSet(path') = ToSet(path) \cup {n}
  BY <1>1, <1>5, AppendedSet DEF SearchInv, SearchTypes
<1> HIDE DEF k
<1>7. Nodes' = Nodes /\ Entries(def)' = Entries(def) /\ \A m : Adjacency(m)' = Adjacency(m)
  BY <1>1 DEF Nodes, Adjacency
<1>8. SearchTypes'
  <2>1. color' \in [Nodes -> {"WHITE", "GRAY", "BLACK"}]
    <3>1. color \in [Nodes -> {"WHITE", "GRAY", "BLACK"}]
      BY DEF SearchInv, SearchTypes
    <3>2. QED
      BY <1>1, <3>1
  <2>2. \A i \in DOMAIN path' : todo'[i] \subseteq Adjacency(path'[i])
    <3>1. \A i \in 1..k : todo'[i] \subseteq Adjacency(path'[i])
      BY <1>2, <1>3 DEF SearchInv, SearchTypes
    <3>2. todo'[k + 1] \subseteq Adjacency(path'[k + 1])
      BY <1>2, <1>3
    <3>3. QED
      BY <1>2, <1>4, <3>1, <3>2
  <2>3. \A m \in Nodes : color'[m] = "GRAY" <=> m \in ToSet(path')
    BY <1>1, <1>6 DEF SearchInv, SearchTypes
  <2>4. QED
    BY <1>1, <1>2, <1>3, <1>6, <1>7, <2>1, <2>2, <2>3 DEF SearchInv, SearchTypes
<1>9. PathWaits'
  <2>1. ASSUME NEW i \in 1..k
        PROVE  <<path'[i], path'[i + 1]>> \in Precedes(def)
    <3>1. CASE i = k
      BY <1>2, <2>1, <3>1 DEF k
    <3>2. CASE i # k
      BY <1>2, <2>1, <3>2 DEF SearchInv, PathWaits, k
    <3>3. QED
      BY <3>1, <3>2
  <2>2. (k + 1) - 1 = k
    BY <1>2
  <2>3. QED
    BY <1>1, <1>2, <2>1, <2>2 DEF PathWaits
<1>10. cycles = <<>> => NothingMissed'
  <2>1. SUFFICES ASSUME cycles = <<>>
                 PROVE  NothingMissed'
    OBVIOUS
  <2>2. NothingMissed
    BY <2>1 DEF SearchInv
  <2>3. \A m \in Nodes : color'[m] = "BLACK" <=> color[m] = "BLACK"
    BY <1>1 DEF SearchInv, SearchTypes
  <2>4. Black' = Black
    BY <1>7, <2>3 DEF Black
  <2>5. \A e \in Entries(def) : color'[DepAt(def, e)] = "BLACK" => color'[StepAt(def, e)] = "BLACK"
    BY <2>2, <2>3, EntryNodes DEF NothingMissed
  <2>6. ASSUME NEW i \in 1..k, NEW e \in Adjacency(path[i]) \ rest[i]
        PROVE  color'[StepAt(def, e)] = "BLACK" \/ path'[i + 1] = StepAt(def, e)
    <3>1. e \in Entries(def) /\ StepAt(def, e) \in Nodes
      BY <2>6, EntryNodes DEF Adjacency
    <3>2. CASE e \in todo[i]
      BY <1>2, <2>6, <3>2 DEF k
    <3>3. CASE e \notin todo[i]
      <4>1. Followed(i, e)
        BY <1>2, <2>2, <2>6, <3>3 DEF NothingMissed
      <4>2. QED
        BY <1>2, <2>3, <3>1, <4>1 DEF Followed
    <3>4. QED
      BY <3>2, <3>3
  <2>7. \A i \in 1..(k + 1) : \A e \in Adjacency(path'[i]) \ todo'[i] : Followed(i, e)'
    <3>1. \A i \in 1..k : i + 1 \in 1..(k + 1)
      BY <1>2
    <3>2. QED
      BY <1>1, <1>2, <1>3, <1>4, <2>6, <3>1 DEF Followed
  <2>8. QED
    BY <1>1, <1>2, <1>7, <2>2, <2>4, <2>5, <2>7 DEF NothingMissed
<1>11. QED
  BY <1>1, <1>8, <1>9, <1>10 DEF SearchInv, IsCycle

\* The call in progress and the entry it has come to.
LEMMA AtTop ==
  ASSUME def \in Definitions, SearchTypes, path # <<>>, todo[Top] # {}
  PROVE  /\ Top \in DOMAIN path /\ path[Top] \in Nodes
         /\ NextEntry \in todo[Top] /\ NextEntry \in Entries(def) /\ NextChild \in Nodes
         /\ DepAt(def, NextEntry) = path[Top] /\ <<path[Top], NextChild>> \in Precedes(def)
         /\ RestOfTop \in Seq(SUBSET Entries(def)) /\ Len(RestOfTop) = Len(path)
         /\ \A i \in DOMAIN path :
              RestOfTop[i] = IF i = Top THEN todo[i] \ {NextEntry} ELSE todo[i]
<1>1. Top \in DOMAIN path /\ path[Top] \in Nodes /\ Top = Len(path)
  BY DEF SearchTypes, Top
<1>2. /\ todo[Top] \subseteq Adjacency(path[Top]) /\ todo[Top] \in SUBSET Entries(def)
      /\ DOMAIN todo = DOMAIN path
  BY <1>1 DEF SearchTypes, Adjacency
<1>3. NextEntry \in todo[Top]
  BY <1>2, IsDefinition, EarliestIsEntry DEF NextEntry
<1>4. NextEntry \in Entries(def) /\ DepAt(def, NextEntry) = path[Top]
  BY <1>2, <1>3 DEF Adjacency
<1>5. /\ RestOfTop \in Seq(SUBSET Entries(def)) /\ Len(RestOfTop) = Len(path)
      /\ \A i \in DOMAIN path :
              RestOfTop[i] = IF i = Top THEN todo[i] \ {NextEntry} ELSE todo[i]
  <2>1. todo[Top] \ {NextEntry} \in SUBSET Entries(def)
    BY <1>2
  <2>2. todo \in Seq(SUBSET Entries(def)) /\ Len(todo) = Len(path)
    BY DEF SearchTypes
  <2>3. RestOfTop \in [1..Len(path) -> SUBSET Entries(def)] /\ Len(path) \in Nat
    BY <1>1, <1>2, <2>1, <2>2 DEF RestOfTop, SearchTypes
  <2>4. RestOfTop \in Seq(SUBSET Entries(def)) /\ Len(RestOfTop) = Len(path)
    BY <2>3
  <2>5. QED
    BY <1>1, <1>2, <2>2, <2>4 DEF RestOfTop
<1>6. QED
  BY <1>1, <1>3, <1>4, <1>5, EntryNodes DEF NextChild

\* Passing over an entry: a step searched before, or one that closes a cycle.
LEMMA PassSearches ==
  ASSUME def \in Definitions, SearchInv, ~done, UNCHANGED vars, SkipChild \/ ReportCycle
  PROVE  SearchInv'
<1> DEFINE x == NextChild
           start == CHOOSE i \in DOMAIN path :
                      path[i] = NextChild /\ \A j \in 1..(i - 1) : path[j] # NextChild
           c == Append(SubSeq(path, start, Top), x)
<1>1. /\ path # <<>> /\ todo[Top] # {} /\ SearchTypes
      /\ todo' = RestOfTop /\ UNCHANGED <<def, pc, color, path, done>>
      /\ \/ SkipChild /\ color[x] = "BLACK" /\ UNCHANGED cycles
         \/ ReportCycle /\ color[x] = "GRAY" /\ cycles' = Append(cycles, c)
  BY DEF SkipChild, ReportCycle, SearchInv, vars
<1>2. /\ Top \in DOMAIN path /\ path[Top] \in Nodes /\ x \in Nodes
      /\ NextEntry \in Entries(def) /\ <<path[Top], x>> \in Precedes(def)
      /\ todo' \in Seq(SUBSET Entries(def)) /\ Len(todo') = Len(path)
      /\ \A i \in DOMAIN path : todo'[i] = IF i = Top THEN todo[i] \ {NextEntry} ELSE todo[i]
  BY <1>1, AtTop
<1>3. Nodes' = Nodes /\ Entries(def)' = Entries(def) /\ (\A m : Adjacency(m)' = Adjacency(m)) /\ Black' = Black
  BY <1>1 DEF Nodes, Adjacency, Black
<1>4. \A i \in DOMAIN path : todo'[i] \subseteq Adjacency(path[i])'
  BY <1>1, <1>2, <1>3 DEF SearchTypes
<1>5. CASE SkipChild /\ color[x] = "BLACK" /\ UNCHANGED cycles
  <2>1. SearchTypes'
    BY <1>1, <1>2, <1>3, <1>4, <1>5 DEF SearchTypes
  <2>2. cycles = <<>> => NothingMissed'
    <3>1. SUFFICES ASSUME cycles = <<>> PROVE NothingMissed'
      OBVIOUS
    <3>2. NothingMissed
      BY <3>1 DEF SearchInv
    <3>3. ASSUME NEW i \in DOMAIN path, NEW e \in Adjacency(path[i]) \ todo'[i]
          PROVE  Followed(i, e)
      <4>1. CASE e \in Adjacency(path[i]) \ todo[i]
        BY <3>2, <4>1 DEF NothingMissed
      <4>2. CASE e \in todo[i]
        <5>1. e = NextEntry
          BY <1>2, <3>3, <4>2
        <5>2. QED
          BY <1>5, <5>1 DEF Followed, NextChild
      <4>3. QED
        BY <3>3, <4>1, <4>2
    <3>4. QED
      BY <1>1, <1>3, <3>2, <3>3 DEF NothingMissed, Followed
  <2>3. QED
    BY <1>1, <1>5, <2>1, <2>2 DEF SearchInv, PathWaits, IsCycle
<1>6. CASE ReportCycle /\ color[x] = "GRAY" /\ cycles' = Append(cycles, c)
  <2>1. PICK i \in DOMAIN path : path[i] = x
    BY <1>1, <1>2, <1>6 DEF SearchTypes, ToSet
  <2>2. \A j \in 1..(i - 1) : path[j] # x
    BY <1>1, <2>1 DEF SearchTypes, Distinct
  <2>3. start \in DOMAIN path /\ path[start] = x
    BY <2>1, <2>2
  <2> HIDE DEF start
  <2> DEFINE n == Top - start + 1
             q == SubSeq(path, start, Top)
  <2>4. DOMAIN path = 1..Top /\ Top \in Nat
    BY <1>1 DEF SearchTypes, Top
  <2>5. n \in Nat \ {0} /\ \A j \in 1..n : start + j - 1 \in 1..Top
    BY <2>3, <2>4
  <2>6. /\ q \in Seq(Nodes) /\ Len(q) = n
        /\ \A j \in 1..n : q[j] = path[start + j - 1]
    BY <1>1, <2>3, <2>4, <2>5 DEF SearchTypes
  <2>7. /\ c \in Seq(Nodes) /\ Len(c) = n + 1 /\ c[n + 1] = x
        /\ \A j \in 1..n : c[j] = path[start + j - 1]
    BY <1>2, <2>5, <2>6
  <2> HIDE DEF q, n, c
  <2>8. IsCycle(c)
    <3>1. c[1] = x
      BY <2>3, <2>4, <2>5, <2>7
    <3>2. ASSUME NEW j \in 1..n
          PROVE  <<c[j], c[j + 1]>> \in Precedes(def)
      <4>1. CASE j = n
        <5>1. start + j - 1 = Top
          BY <2>3, <2>4, <4>1 DEF n
        <5>2. c[j] = path[Top] /\ c[j + 1] = x
          BY <2>7, <4>1, <5>1
        <5>3. QED
          BY <1>2, <5>2
      <4>2. CASE j # n
        <5>1. j + 1 \in 1..n /\ start + j - 1 \in 1..(Top - 1) /\ start + (j + 1) - 1 = (start + j - 1) + 1
          BY <2>3, <2>4, <2>5, <4>2 DEF n
        <5>2. <<path[start + j - 1], path[(start + j - 1) + 1]>> \in Precedes(def)
          BY <5>1 DEF SearchInv, PathWaits, Top
        <5>3. QED
          BY <2>7, <5>1, <5>2
      <4>3. QED
        BY <4>1, <4>2
    <3>3. ASSUME NEW j \in 1..n, NEW m \in 1..n, c[j] = c[m]
          PROVE  j = m
      <4>1. start + j - 1 = start + m - 1
        BY <1>1, <2>4, <2>5, <2>7, <3>3 DEF SearchTypes, Distinct
      <4>2. QED
        BY <2>3, <2>4, <2>5, <4>1
    <3>4. (n + 1) - 1 = n /\ n + 1 > 1
      BY <2>5
    <3>5. QED
      BY <2>7, <3>1, <3>2, <3>3, <3>4 DEF IsCycle
  <2>9. /\ cycles' \in Seq(Seq(Nodes)) /\ cycles' # <<>>
        /\ \A k \in DOMAIN cycles' : cycles'[k] = c \/ (k \in DOMAIN cycles /\ cycles'[k] = cycles[k])
    <3> DEFINE All == Seq(Nodes)
    <3>1. c \in All /\ cycles \in Seq(All)
      BY <1>1, <2>7 DEF SearchTypes
    <3> HIDE DEF All
    <3>2. /\ Append(cycles, c) \in Seq(All) /\ Append(cycles, c) # <<>>
          /\ DOMAIN Append(cycles, c) = 1..(Len(cycles) + 1) /\ DOMAIN cycles = 1..Len(cycles)
          /\ \A k \in 1..Len(cycles) : Append(cycles, c)[k] = cycles[k]
          /\ Append(cycles, c)[Len(cycles) + 1] = c /\ Len(cycles) \in Nat
      BY <3>1
    <3>3. \A k \in 1..(Len(cycles) + 1) : k \in 1..Len(cycles) \/ k = Len(cycles) + 1
      BY <3>2
    <3>4. QED
      BY <1>6, <3>2, <3>3 DEF All
  <2>10. SearchTypes'
    BY <1>1, <1>2, <1>3, <1>4, <2>9 DEF SearchTypes
  <2>11. \A k \in DOMAIN cycles' : IsCycle(cycles'[k])
    BY <2>8, <2>9 DEF SearchInv
  <2>12. QED
    BY <1>1, <2>9, <2>10, <2>11 DEF SearchInv, PathWaits, IsCycle
<1>7. QED
  BY <1>1, <1>5, <1>6

\* The end of a call: what the node leads to has been searched, so the node waits
\* for none of the steps searched, nor they for it.
LEMMA LeaveSearches ==
  ASSUME def \in Definitions, SearchInv, ~done, UNCHANGED vars, Leave
  PROVE  SearchInv'
<1> DEFINE k == Len(path) - 1
           n == path[Top]
<1>1. /\ path # <<>> /\ todo[Top] = {} /\ SearchTypes
      /\ color' = [color EXCEPT ![n] = "BLACK"] /\ path' = Front(path) /\ todo' = Front(todo)
      /\ UNCHANGED <<def, pc, cycles, done>>
  BY DEF Leave, SearchInv, vars
<1>2. /\ k \in Nat /\ Top = k + 1 /\ DOMAIN path = 1..(k + 1) /\ n \in Nodes
      /\ path' \in Seq(Nodes) /\ DOMAIN path' = 1..k /\ Len(path') = k
      /\ \A i \in 1..k : path'[i] = path[i] /\ path[i] \in Nodes
  BY <1>1 DEF SearchTypes, Front, Top
<1>3. /\ todo' \in Seq(SUBSET Entries(def)) /\ Len(todo') = k
      /\ \A i \in 1..k : todo'[i] = todo[i]
  <2>1. todo \in Seq(SUBSET Entries(def)) /\ Len(todo) = k + 1
    BY <1>1, <1>2 DEF SearchTypes
  <2>2. QED
    BY <1>1, <1>2, <2>1 DEF Front
<1> HIDE DEF k
<1>4. \A i \in 1..(k + 1) : i \in 1..k \/ i = k + 1
  BY <1>2
<1>5. ASSUME NEW i \in 1..k
      PROVE  i \in 1..(k + 1) /\ path[i] # n
  <2>1. i \in DOMAIN path /\ Top \in DOMAIN path /\ i # Top
    BY <1>2
  <2>2. Distinct(path)
    BY <1>1 DEF SearchTypes
  <2>3. QED
    BY <1>2, <2>1, <2>2 DEF Distinct
<1>6. Distinct(path') /\ ToSet(path') = ToSet(path) \ {n}
  <2>1. Distinct(path')
    BY <1>1, <1>2, <1>5 DEF SearchTypes, Distinct
  <2>2. ToSet(path') = ToSet(path) \ {n}
    BY <1>2, <1>4, <1>5 DEF ToSet
  <2>3. QED
    BY <2>1, <2>2
<1>7. Nodes' = Nodes /\ Entries(def)' = Entries(def) /\ \A m : Adjacency(m)' = Adjacency(m)
  BY <1>1 DEF Nodes, Adjacency
<1>8. \A m \in Nodes : color'[m] = IF m = n THEN "BLACK" ELSE color[m]
  BY <1>1 DEF SearchTypes
<1>9. color[n] = "GRAY"
  BY <1>1, <1>2 DEF SearchTypes, ToSet
<1>10. SearchTypes'
  <2>1. color' \in [Nodes -> {"WHITE", "GRAY", "BLACK"}]
    BY <1>1 DEF SearchTypes
  <2>2. \A i \in DOMAIN path' : todo'[i] \subseteq Adjacency(path'[i])
    BY <1>1, <1>2, <1>3, <1>5 DEF SearchTypes
  <2>3. \A m \in Nodes : color'[m] = "GRAY" <=> m \in ToSet(path')
    BY <1>1, <1>6, <1>8 DEF SearchTypes
  <2>4. QED
    BY <1>1, <1>2, <1>3, <1>6, <1>7, <2>1, <2>2, <2>3 DEF SearchTypes
<1>11. PathWaits'
  <2>1. \A i \in 1..(k - 1) : i \in 1..k /\ i + 1 \in 1..k /\ i \in 1..((k + 1) - 1)
    BY <1>2
  <2>2. Len(path) = k + 1
    BY <1>2 DEF Top
  <2>3. \A i \in 1..(k - 1) : <<path[i], path[i + 1]>> \in Precedes(def)
    BY <2>1, <2>2 DEF SearchInv, PathWaits
  <2>4. QED
    BY <1>1, <1>2, <2>1, <2>3 DEF PathWaits
<1>12. cycles = <<>> => NothingMissed'
  <2>1. SUFFICES ASSUME cycles = <<>> PROVE NothingMissed'
    OBVIOUS
  <2>2. NothingMissed
    BY <2>1 DEF SearchInv
  <2>3. ASSUME NEW e \in Entries(def), DepAt(def, e) = n
        PROVE  color[StepAt(def, e)] = "BLACK"
    <3>1. e \in Adjacency(path[Top]) \ todo[Top]
      BY <1>1, <2>3, EntryNodes
    <3>2. Followed(Top, e)
      BY <1>2, <2>2, <3>1 DEF NothingMissed
    <3>3. Top + 1 \notin DOMAIN path
      BY <1>2
    <3>4. QED
      BY <3>2, <3>3 DEF Followed
  <2>4. ASSUME NEW e \in Entries(def), color'[DepAt(def, e)] = "BLACK"
        PROVE  color[StepAt(def, e)] = "BLACK" /\ color'[StepAt(def, e)] = "BLACK"
    <3>1. DepAt(def, e) \in Nodes /\ StepAt(def, e) \in Nodes
      BY EntryNodes
    <3>2. color[StepAt(def, e)] = "BLACK"
      BY <1>8, <2>2, <2>3, <2>4, <3>1 DEF NothingMissed
    <3>3. QED
      BY <1>8, <3>1, <3>2
  <2>5. ASSUME NEW i \in 1..k, NEW e \in Adjacency(path[i]) \ todo[i]
        PROVE  Followed(i, e)'
    <3>1. StepAt(def, e) \in Nodes
      BY <2>5, EntryNodes DEF Adjacency
    <3>2. Followed(i, e)
      BY <1>2, <1>5, <2>2, <2>5 DEF NothingMissed
    <3>3. CASE color[StepAt(def, e)] = "BLACK" \/ StepAt(def, e) = n
      BY <1>1, <1>8, <3>1, <3>3 DEF Followed
    <3>4. CASE i + 1 \in DOMAIN path /\ path[i + 1] = StepAt(def, e) /\ StepAt(def, e) # n
      <4>1. i + 1 \in 1..k
        BY <1>2, <1>4, <3>4
      <4>2. QED
        BY <1>1, <1>2, <3>4, <4>1 DEF Followed
    <3>5. QED
      BY <3>2, <3>3, <3>4 DEF Followed
  <2>6. Black' = Black \cup {n}
    BY <1>2, <1>7, <1>8 DEF Black
  <2>7. ~HasDeadlock(def, Black')
    <3>1. SUFFICES ASSUME NEW S \in SUBSET (Black \cup {n}), S # {},
                          \A s \in S : \E t \in S : <<t, s>> \in Precedes(def)
                   PROVE  FALSE
      BY <2>6 DEF HasDeadlock
    <3>2. n \in S
      BY <2>2, <3>1 DEF NothingMissed, HasDeadlock
    <3>3. PICK t \in S : <<t, n>> \in Precedes(def)
      BY <3>1, <3>2
    <3>4. PICK e \in Entries(def) : DepAt(def, e) = t /\ StepAt(def, e) = n
      BY <3>3, PrecedesByEntry
    <3>5. color'[t] = "BLACK"
      BY <1>2, <1>8, <3>1 DEF Black
    <3>6. QED
      BY <1>9, <2>4, <3>4, <3>5
  <2>8. QED
    BY <1>1, <1>2, <1>3, <1>7, <2>4, <2>5, <2>7 DEF NothingMissed
<1>13. QED
  BY <1>1, <1>10, <1>11, <1>12 DEF SearchInv, IsCycle

LEMMA SearchStep ==
  ASSUME def \in Definitions, SearchInv, pc = "done", UNCHANGED vars, Search
  PROVE  SearchInv'
<1>1. CASE StartSearch
  <2>1. /\ path = <<>> /\ ~done
        /\ \E n \in Nodes : color[n] = "WHITE" /\ Enter(n, <<>>)
    BY <1>1 DEF StartSearch
  <2>2. PICK n \in Nodes : color[n] = "WHITE" /\ Enter(n, <<>>)
    BY <2>1
  <2>3. <<>> \in Seq(SUBSET Entries(def)) /\ Len(<<>>) = Len(path) /\ DOMAIN path = {}
    BY <2>1
  <2>4. QED
    BY <2>1, <2>2, <2>3, EnterSearches DEF Enter
<1>2. CASE VisitChild
  <2>1. /\ path # <<>> /\ todo[Top] # {} /\ color[NextChild] = "WHITE"
        /\ Enter(NextChild, RestOfTop) /\ UNCHANGED <<cycles, done>> /\ SearchTypes /\ Top = Len(path)
    BY <1>2 DEF VisitChild, Enter, SearchInv, Top
  <2>2. ~done
    BY <2>1 DEF SearchInv
  <2>3. /\ NextChild \in Nodes /\ <<path[Top], NextChild>> \in Precedes(def)
        /\ RestOfTop \in Seq(SUBSET Entries(def)) /\ Len(RestOfTop) = Len(path)
        /\ \A i \in DOMAIN path :
              RestOfTop[i] = IF i = Top THEN todo[i] \ {NextEntry} ELSE todo[i]
    BY <2>1, AtTop
  <2>4. \A i \in DOMAIN path : RestOfTop[i] \subseteq todo[i]
    BY <2>3
  <2>5. \A i \in DOMAIN path : \A e \in todo[i] \ RestOfTop[i] :
          i = Len(path) /\ StepAt(def, e) = NextChild
    BY <2>1, <2>3 DEF NextChild
  <2> HIDE DEF NextChild, RestOfTop
  <2>6. QED
    BY <2>1, <2>2, <2>3, <2>4, <2>5, EnterSearches
<1>3. CASE ReportCycle \/ SkipChild
  <2>1. ~done
    BY <1>3 DEF ReportCycle, SkipChild, SearchInv
  <2>2. QED
    BY <1>3, <2>1, PassSearches
<1>4. CASE Leave
  <2>1. ~done
    BY <1>4 DEF Leave, SearchInv
  <2>2. QED
    BY <1>4, <2>1, LeaveSearches
<1>5. CASE EndSearch
  BY <1>5 DEF EndSearch, vars, SearchInv, SearchTypes, PathWaits, IsCycle, NothingMissed, Followed, Black,
              Nodes, Adjacency
<1>6. QED
  BY <1>1, <1>2, <1>3, <1>4, <1>5 DEF Search

\* The nodes of a reported path wait for each other.
LEMMA CycleIsDeadlock ==
  ASSUME NEW c \in Seq(Nodes), IsCycle(c)
  PROVE  HasDeadlock(def, Nodes)
<1> DEFINE n == Len(c)
           S == ToSet(c)
<1>1. n \in Nat /\ n > 1 /\ DOMAIN c = 1..n
  BY DEF IsCycle
<1>2. S \in SUBSET Nodes /\ S # {}
  BY <1>1 DEF ToSet
<1>3. ASSUME NEW s \in S
      PROVE  \E t \in S : <<t, s>> \in Precedes(def)
  <2>1. PICK i \in 2..n : c[i] = s
    <3>1. PICK i \in 1..n : c[i] = s
      BY <1>1 DEF ToSet
    <3>2. c[1] = c[n] /\ n \in 2..n
      BY <1>1 DEF IsCycle
    <3>3. i = 1 \/ i \in 2..n
      BY <1>1
    <3>4. QED
      BY <3>1, <3>2, <3>3
  <2>2. i - 1 \in 1..(n - 1) /\ i - 1 \in 1..n /\ (i - 1) + 1 = i
    BY <1>1
  <2>3. <<c[i - 1], c[(i - 1) + 1]>> \in Precedes(def)
    BY <2>2 DEF IsCycle
  <2>4. c[i - 1] \in S
    BY <1>1, <2>2 DEF ToSet
  <2>5. QED
    BY <2>1, <2>2, <2>3, <2>4
<1>4. QED
  BY <1>2, <1>3 DEF HasDeadlock

LEMMA SearchReports ==
  ASSUME ParserInv, SearchInv
  PROVE  ReportsAreTheCycles
<1>1. \A k \in DOMAIN cycles : IsCycle(cycles[k])
  BY DEF SearchInv
<1>2. ASSUME cycles # <<>>
      PROVE  HasDeadlock(def, Nodes)
  <2>1. 1 \in DOMAIN cycles /\ cycles[1] \in Seq(Nodes)
    <3> DEFINE All == Seq(Nodes)
    <3>1. cycles \in Seq(All)
      BY DEF SearchInv, SearchTypes
    <3> HIDE DEF All
    <3>2. 1 \in DOMAIN cycles /\ cycles[1] \in All
      BY <1>2, <3>1
    <3>3. QED
      BY <3>2 DEF All
  <2>2. QED
    BY <1>1, <2>1, CycleIsDeadlock
<1>3. ASSUME done, cycles = <<>>
      PROVE  ~HasDeadlock(def, Nodes)
  <2>1. Black = Nodes
    BY <1>3 DEF SearchInv, SearchTypes, Black, ToSet
  <2>2. QED
    BY <1>3, <2>1 DEF SearchInv, NothingMissed
<1>4. ASSUME Dangling = {}
      PROVE  Nodes = StepIds(def)
  <2>1. ASSUME NEW e \in Entries(def)
        PROVE  DepAt(def, e) \in StepIds(def)
    <3>1. <<DepAt(def, e), StepAt(def, e)>> \in Precedes(def)
      BY EntryNodes DEF ParserInv
    <3>2. <<DepAt(def, e), StepAt(def, e)>>[1] \in StepIds(def)
      BY <1>4, <3>1 DEF Dangling
    <3>3. QED
      BY <3>2
  <2>2. QED
    BY <2>1 DEF Nodes
<1>5. ASSUME done
      PROVE  /\ result.ok => Clean /\ ~HasDeadlock(def, StepIds(def))
             /\ result = Failure({Error(NoStep, "cycle")}) =>
                  Clean /\ HasDeadlock(def, StepIds(def))
  BY <1>5 DEF SearchInv, ParserInv, Judged, CycleIffDeadlock, Clean
<1>6. QED
  BY <1>1, <1>2, <1>3, <1>4, <1>5 DEF ReportsAreTheCycles, IsCycle, Clean

-------------------------------------------------------------------------------
(* The columns of the drawing.                                              *)

\* The names a step depends on.
Needs(s) == {e[1] : e \in {e \in Precedes(def) : e[2] = s}}

DrawTypes ==
  /\ levels \in [DOMAIN levels -> Nat]
  /\ unresolved \subseteq StepIds(def)
  /\ iterations \in Nat /\ iterations <= MaxIterations
  /\ turn \in 1..(Len(def) + 1) /\ resolvedAny \in BOOLEAN

\* The steps with a column have it behind those of all they depend on, and do not
\* wait for each other.
Placed ==
  /\ DOMAIN levels = StepIds(def) \ unresolved
  /\ DOMAIN levels \cap Stuck = {}
  /\ \A s \in DOMAIN levels : Needs(s) \subseteq DOMAIN levels /\ levels[s] = Column(Needs(s))

\* A sweep that has placed no step has passed over none that could be placed.
Swept ==
  ~resolvedAny =>
    \A i \in 1..(turn - 1) : def[i].id \in unresolved => ~(Needs(def[i].id) \subseteq DOMAIN levels)

\* Every sweep before this one has placed a step.
Progress ==
  Cardinality(unresolved) + iterations <= Cardinality(StepIds(def)) + IF resolvedAny THEN 0 ELSE 1

Drawn ==
  /\ Len(def) <= MaxIterations => DOMAIN levels = StepIds(def)
  /\ DOMAIN levels = StepIds(def) =>
       \A s \in StepIds(def) :
         IF s \in Stuck THEN \A t \in StepIds(def) \ Stuck : levels[t] < levels[s]
         ELSE levels[s] = Column(Needs(s))

DrawInv ==
  DuplicateIds(def) = {} =>
    IF drawn THEN Drawn ELSE DrawTypes /\ Placed /\ Swept /\ Progress

\* The names listed by the one step with an id are those it needs, and finitely many.
LEMMA NeedsOfStep ==
  ASSUME def \in Definitions, DuplicateIds(def) = {}, NEW i \in DOMAIN def
  PROVE  Needs(def[i].id) = ToSet(def[i].depends_on)
<1>1. def \in Seq(Step)
  BY IsDefinition
<1>2. ASSUME NEW d \in Needs(def[i].id)
      PROVE  d \in ToSet(def[i].depends_on)
  <2>1. PICK e \in Entries(def) : DepAt(def, e) = d /\ StepAt(def, e) = def[i].id
    BY <1>2 DEF Needs, Precedes
  <2>2. e[1] \in DOMAIN def /\ e[2] \in DOMAIN def[e[1]].depends_on
    BY <1>1, EntryFacts
  <2>3. e[1] = i
    BY <1>1, <2>1, <2>2, IdsFinite DEF StepAt
  <2>4. QED
    BY <2>1, <2>2, <2>3 DEF DepAt, ToSet
<1>3. ASSUME NEW d \in ToSet(def[i].depends_on)
      PROVE  d \in Needs(def[i].id)
  <2>1. PICK j \in DOMAIN def[i].depends_on : def[i].depends_on[j] = d
    BY <1>3 DEF ToSet
  <2>2. <<d, def[i].id>> \in Precedes(def)
    BY <2>1, EntryOf, PrecedesByEntry
  <2>3. QED
    BY <2>2 DEF Needs
<1>4. QED
  BY <1>2, <1>3

LEMMA NeedsFinite ==
  ASSUME def \in Definitions, NEW s
  PROVE  IsFiniteSet(Needs(s))
<1> DEFINE f == [e \in Entries(def) |-> DepAt(def, e)]
           deps == {DepAt(def, e) : e \in Entries(def)}
<1>1. IsFiniteSet(Entries(def))
  BY IsDefinition, EntriesFinite
<1>2. f \in Surjection(Entries(def), deps)
  BY DEF Surjection
<1>3. IsFiniteSet(deps)
  BY <1>1, <1>2, FS_Surjection
<1>4. Needs(s) \in SUBSET deps
  BY DEF Needs, Precedes
<1>5. QED
  BY <1>3, <1>4, FS_Subset

\* The columns of finitely many steps are finitely many numbers.
LEMMA ColumnsFinite ==
  ASSUME NEW ids, IsFiniteSet(ids), \A s \in ids : levels[s] \in Nat
  PROVE  IsFiniteSet(Columns(ids)) /\ Columns(ids) \in SUBSET Nat
<1> DEFINE f == [s \in ids |-> levels[s]]
<1>1. f \in Surjection(ids, Columns(ids))
  BY DEF Surjection, Columns
<1>2. QED
  BY <1>1, FS_Surjection DEF Columns

LEMMA ColumnIsNumber ==
  ASSUME NEW ids, IsFiniteSet(ids), \A s \in ids : levels[s] \in Nat
  PROVE  Column(ids) \in Nat
<1>1. IsFiniteSet(Columns(ids)) /\ Columns(ids) \in SUBSET Nat
  BY ColumnsFinite
<1>2. CASE ids # {}
  <2>1. Columns(ids) # {} /\ Columns(ids) \in SUBSET Int
    BY <1>1, <1>2 DEF Columns
  <2>2. Max(Columns(ids)) \in Nat
    BY <1>1, <2>1, GreatestOfFinite
  <2>3. QED
    BY <1>2, <2>2 DEF Column
<1>3. QED
  BY <1>2 DEF Column

\* Columns already given are not moved by new ones.
LEMMA ColumnStays ==
  ASSUME NEW ids, \A s \in ids : levels'[s] = levels[s]
  PROVE  \A S : S = ids => Column(S)' = Column(S)
<1>1. {levels'[s] : s \in ids} = {levels[s] : s \in ids}
  OBVIOUS
<1>2. QED
  BY <1>1 DEF Column, Columns

\* Stuck steps wait for each other or for missing ones.
LEMMA StuckWaits ==
  ASSUME NEW s \in Stuck
  PROVE  s \in StepIds(def) /\ \E e \in Precedes(def) :
           e[2] = s /\ (e[1] \in Stuck \/ e[1] \notin StepIds(def))
<1>1. PICK S \in SUBSET StepIds(def) :
        /\ s \in S
        /\ \A t \in S : \E e \in Precedes(def) : e[2] = t /\ (e[1] \in S \/ e[1] \notin StepIds(def))
  BY DEF Stuck
<1>2. S \subseteq Stuck
  BY <1>1 DEF Stuck
<1>3. QED
  BY <1>1, <1>2

\* Steps that wait for each other or for missing ones are stuck.
LEMMA WaitingIsStuck ==
  ASSUME NEW S \in SUBSET StepIds(def),
         \A t \in S : \E e \in Precedes(def) : e[2] = t /\ (e[1] \in S \/ e[1] \notin StepIds(def))
  PROVE  S \subseteq Stuck
BY DEF Stuck

\* Nothing is stuck exactly if the parser finds nothing to refuse.
LEMMA StuckIsRefused ==
  ASSUME def \in Definitions, DuplicateIds(def) = {}
  PROVE  Stuck = {} <=> Clean /\ ~HasDeadlock(def, StepIds(def))
<1>1. \A e \in Precedes(def) : e = <<e[1], e[2]>> /\ e[2] \in StepIds(def)
  BY IsDefinition, EntryFacts DEF Precedes
<1>2. ASSUME Stuck = {}
      PROVE  Dangling = {} /\ ~HasDeadlock(def, StepIds(def))
  <2>1. ASSUME NEW e \in Dangling
        PROVE  FALSE
    <3>1. e \in Precedes(def) /\ e[1] \notin StepIds(def) /\ {e[2]} \in SUBSET StepIds(def)
      BY <1>1 DEF Dangling
    <3>2. {e[2]} \subseteq Stuck
      BY <3>1, WaitingIsStuck
    <3>3. QED
      BY <1>2, <3>2
  <2>2. ASSUME NEW S \in SUBSET StepIds(def), S # {},
               \A s \in S : \E d \in S : <<d, s>> \in Precedes(def)
        PROVE  FALSE
    <3>1. ASSUME NEW t \in S
          PROVE  \E e \in Precedes(def) : e[2] = t /\ (e[1] \in S \/ e[1] \notin StepIds(def))
      <4>1. PICK d \in S : <<d, t>> \in Precedes(def)
        BY <2>2
      <4>2. <<d, t>>[1] = d /\ <<d, t>>[2] = t
        OBVIOUS
      <4>3. QED
        BY <4>1, <4>2
    <3>2. S \subseteq Stuck
      BY <3>1, WaitingIsStuck
    <3>3. QED
      BY <1>2, <2>2, <3>2
  <2>3. QED
    BY <2>1, <2>2 DEF HasDeadlock
<1>3. ASSUME Dangling = {}, Stuck # {}
      PROVE  HasDeadlock(def, StepIds(def))
  <2>1. Stuck \in SUBSET StepIds(def)
    BY StuckWaits
  <2>2. ASSUME NEW s \in Stuck
        PROVE  \E d \in Stuck : <<d, s>> \in Precedes(def)
    <3>1. PICK e \in Precedes(def) : e[2] = s /\ (e[1] \in Stuck \/ e[1] \notin StepIds(def))
      BY StuckWaits
    <3>2. e[1] \in Stuck /\ <<e[1], s>> = e
      BY <1>1, <1>3, <3>1 DEF Dangling
    <3>3. QED
      BY <3>1, <3>2
  <2>3. QED
    BY <1>3, <2>1, <2>2 DEF HasDeadlock
<1>4. QED
  BY <1>2, <1>3 DEF Clean

\* The next step of a sweep gets its column as soon as all it depends on have theirs.
LEMMA VisitDraws ==
  ASSUME def \in Definitions, DuplicateIds(def) = {}, ~drawn, UNCHANGED <<vars, searchVars>>,
         DrawTypes, Placed, Swept, Progress, VisitStep
  PROVE  (DrawTypes /\ Placed /\ Swept /\ Progress)'
<1> DEFINE id == def[turn].id
           n == Len(def)
<1>1. def \in Seq(Step) /\ n \in Nat /\ DOMAIN def = 1..n /\ IsFiniteSet(StepIds(def))
  BY IsDefinition, IdsFinite
<1>2. turn \in DOMAIN def /\ turn' = turn + 1 /\ turn' \in 1..(n + 1) /\ id \in StepIds(def)
  BY <1>1 DEF VisitStep, DrawTypes, StepIds
<1>3. ToSet(def[turn].depends_on) = Needs(id)
  BY <1>2, NeedsOfStep
<1>4. /\ UNCHANGED <<def, iterations, drawn>>
      /\ IF id \in unresolved /\ Needs(id) \subseteq DOMAIN levels
         THEN /\ levels' = [s \in DOMAIN levels \cup {id} |->
                             IF s = id THEN Column(Needs(id)) ELSE levels[s]]
              /\ unresolved' = unresolved \ {id} /\ resolvedAny' = TRUE
         ELSE UNCHANGED <<levels, unresolved, resolvedAny>>
  BY <1>3 DEF VisitStep, vars
<1>5. (\A s : Needs(s)' = Needs(s)) /\ Stuck' = Stuck
  BY <1>4 DEF Needs, Stuck
<1>6. CASE id \in unresolved /\ Needs(id) \subseteq DOMAIN levels
  <2>1. /\ DOMAIN levels' = DOMAIN levels \cup {id} /\ id \notin DOMAIN levels
        /\ levels'[id] = Column(Needs(id))
        /\ \A s \in DOMAIN levels : levels'[s] = levels[s]
        /\ levels' \in [DOMAIN levels \cup {id} -> Nat]
    <3>1. id \notin DOMAIN levels
      BY <1>6 DEF Placed
    <3>2. Column(Needs(id)) \in Nat
      BY <1>6, NeedsFinite, ColumnIsNumber DEF DrawTypes
    <3> DEFINE c == Column(Needs(id))
    <3> HIDE DEF c, id
    <3>3. levels' = [s \in DOMAIN levels \cup {id} |-> IF s = id THEN c ELSE levels[s]]
      BY <1>4, <1>6 DEF c
    <3>4. \A s \in DOMAIN levels : levels[s] \in Nat
      BY DEF DrawTypes
    <3>5. QED
      BY <3>1, <3>2, <3>3, <3>4 DEF c
  <2>2. unresolved' = unresolved \ {id} /\ resolvedAny' = TRUE /\ unresolved \subseteq StepIds(def)
    BY <1>4, <1>6 DEF DrawTypes
  <2>3. \A s : Needs(s) \subseteq DOMAIN levels => Column(Needs(s))' = Column(Needs(s))
    <3>1. ASSUME NEW s, Needs(s) \subseteq DOMAIN levels
          PROVE  Column(Needs(s))' = Column(Needs(s))
      <4>1. {levels'[t] : t \in Needs(s)} = {levels[t] : t \in Needs(s)}
        BY <2>1, <3>1
      <4>2. QED
        BY <1>5, <4>1 DEF Column, Columns
    <3>2. QED
      BY <3>1
  <2>4. id \notin Stuck
    <3>1. SUFFICES ASSUME id \in Stuck PROVE FALSE
      OBVIOUS
    <3>2. PICK e \in Precedes(def) : e[2] = id /\ (e[1] \in Stuck \/ e[1] \notin StepIds(def))
      BY <3>1, StuckWaits
    <3>3. e[1] \in DOMAIN levels
      BY <1>6, <3>2 DEF Needs
    <3>4. QED
      BY <3>2, <3>3 DEF Placed
  <2>5. Placed'
    <3>1. DOMAIN levels' = StepIds(def) \ unresolved' /\ DOMAIN levels' \cap Stuck = {}
      BY <1>2, <2>1, <2>2, <2>4 DEF Placed
    <3>2. ASSUME NEW s \in DOMAIN levels'
          PROVE  Needs(s) \subseteq DOMAIN levels' /\ levels'[s] = Column(Needs(s))'
      <4>1. Needs(s) \subseteq DOMAIN levels /\ levels'[s] = Column(Needs(s))
        BY <1>6, <2>1 DEF Placed
      <4>2. QED
        BY <2>1, <2>3, <4>1
    <3>3. QED
      BY <1>4, <1>5, <3>1, <3>2 DEF Placed
  <2>6. Progress'
    <3>1. Cardinality(unresolved') = Cardinality(unresolved) - 1 /\ Cardinality(unresolved) \in Nat
      BY <1>1, <1>6, <2>2, FS_Subset, FS_RemoveElement, FS_CardinalityType
    <3>2. Cardinality(StepIds(def)) \in Nat
      BY <1>1, FS_CardinalityType
    <3>3. QED
      BY <1>4, <2>2, <3>1, <3>2 DEF Progress, DrawTypes
  <2>7. QED
    BY <1>2, <1>4, <2>1, <2>2, <2>5, <2>6 DEF DrawTypes, Swept
<1>7. CASE ~(id \in unresolved /\ Needs(id) \subseteq DOMAIN levels)
  <2>1. UNCHANGED <<def, levels, unresolved, iterations, resolvedAny>>
    BY <1>4, <1>7
  <2>2. Placed'
    BY <1>5, <2>1 DEF Placed, Column, Columns
  <2>3. Swept'
    <3>1. \A i \in 1..(turn' - 1) : i \in 1..(turn - 1) \/ i = turn
      BY <1>1, <1>2
    <3>2. QED
      BY <1>5, <1>7, <2>1, <3>1 DEF Swept
  <2>4. QED
    BY <1>2, <2>1, <2>2, <2>3 DEF DrawTypes, Progress
<1>8. QED
  BY <1>6, <1>7

\* What no sweep can place is what is stuck.
LEMMA RestIsStuck ==
  ASSUME def \in Definitions, DuplicateIds(def) = {}, DrawTypes, Placed, Swept,
         turn > Len(def), ~resolvedAny
  PROVE  unresolved = Stuck
<1>1. def \in Seq(Step) /\ Len(def) \in Nat /\ DOMAIN def = 1..Len(def) /\ turn = Len(def) + 1
  BY IsDefinition DEF DrawTypes
<1>2. ASSUME NEW s \in unresolved
      PROVE  \E e \in Precedes(def) : e[2] = s /\ (e[1] \in unresolved \/ e[1] \notin StepIds(def))
  <2>1. PICK i \in DOMAIN def : def[i].id = s
    BY DEF DrawTypes, StepIds
  <2>2. i \in 1..(turn - 1)
    BY <1>1
  <2>3. ~(Needs(s) \subseteq DOMAIN levels)
    BY <2>1, <2>2 DEF Swept
  <2>4. PICK e \in Precedes(def) : e[2] = s /\ e[1] \notin DOMAIN levels
    BY <2>3 DEF Needs
  <2>5. QED
    BY <2>4 DEF Placed
<1>3. unresolved \subseteq Stuck
  BY <1>2, WaitingIsStuck DEF DrawTypes
<1>4. Stuck \subseteq unresolved
  BY StuckWaits DEF Placed
<1>5. QED
  BY <1>3, <1>4

LEMMA PlaceRestDraws ==
  ASSUME def \in Definitions, DuplicateIds(def) = {}, UNCHANGED <<vars, searchVars>>,
         DrawTypes, Placed, Swept, PlaceRest
  PROVE  Drawn'
<1> DEFINE last == Max(Columns(DOMAIN levels) \cup {-1})
<1>1. /\ turn > Len(def) /\ ~resolvedAny
      /\ levels' = [s \in DOMAIN levels \cup unresolved |->
                        IF s \in unresolved THEN last + 1 ELSE levels[s]]
      /\ UNCHANGED def
  BY DEF PlaceRest, SweepOver, vars
<1>2. unresolved = Stuck
  BY <1>1, RestIsStuck
<1>3. DOMAIN levels = StepIds(def) \ Stuck /\ Stuck \subseteq StepIds(def)
  BY <1>2 DEF Placed, DrawTypes
<1>4. last \in Int /\ \A t \in DOMAIN levels : levels[t] \in Nat /\ levels[t] <= last
  <2>1. IsFiniteSet(DOMAIN levels)
    BY <1>3, IsDefinition, IdsFinite, FS_Subset
  <2>2. \A t \in DOMAIN levels : levels[t] \in Nat
    BY DEF DrawTypes
  <2>3. IsFiniteSet(Columns(DOMAIN levels)) /\ Columns(DOMAIN levels) \in SUBSET Nat
    BY <2>1, <2>2, ColumnsFinite
  <2>4. IsFiniteSet(Columns(DOMAIN levels) \cup {-1})
    BY <2>3, FS_AddElement
  <2>5. Columns(DOMAIN levels) \cup {-1} \in SUBSET Int /\ Columns(DOMAIN levels) \cup {-1} # {}
    BY <2>3
  <2>6. last \in Columns(DOMAIN levels) \cup {-1} /\ \A m \in Columns(DOMAIN levels) \cup {-1} : last >= m
    BY <2>4, <2>5, GreatestOfFinite
  <2>7. \A t \in DOMAIN levels : levels[t] \in Columns(DOMAIN levels)
    BY DEF Columns
  <2>8. QED
    BY <2>2, <2>3, <2>6, <2>7
<1> HIDE DEF last
<1>5. /\ DOMAIN levels' = StepIds(def)
      /\ \A t \in DOMAIN levels : levels'[t] = levels[t]
      /\ \A s \in Stuck : levels'[s] = last + 1
  BY <1>1, <1>2, <1>3
<1>6. (\A s : Needs(s)' = Needs(s)) /\ Stuck' = Stuck
  BY <1>1 DEF Needs, Stuck
<1>7. ASSUME NEW s \in StepIds(def) \ Stuck
      PROVE  levels'[s] = Column(Needs(s))'
  <2>1. Needs(s) \subseteq DOMAIN levels /\ levels'[s] = Column(Needs(s))
    BY <1>3, <1>5 DEF Placed
  <2>2. {levels'[t] : t \in Needs(s)} = {levels[t] : t \in Needs(s)}
    BY <1>5, <2>1
  <2>3. QED
    BY <1>6, <2>1, <2>2 DEF Column, Columns
<1>8. ASSUME NEW s \in Stuck, NEW t \in StepIds(def) \ Stuck
      PROVE  levels'[t] < levels'[s]
  BY <1>3, <1>4, <1>5
<1>9. QED
  BY <1>1, <1>5, <1>6, <1>7, <1>8 DEF Drawn

\* As many sweeps as there are steps have placed them all.
LEMMA EndDraws ==
  ASSUME def \in Definitions, DuplicateIds(def) = {}, UNCHANGED <<vars, searchVars>>,
         DrawTypes, Placed, Progress, EndDrawing
  PROVE  Drawn'
<1>1. resolvedAny /\ Exhausted /\ UNCHANGED <<def, levels>>
  BY DEF EndDrawing, vars
<1>2. IsFiniteSet(StepIds(def)) /\ Cardinality(StepIds(def)) = Len(def) /\ Len(def) \in Nat
  BY IsDefinition, IdsFinite
<1>3. Len(def) <= MaxIterations => DOMAIN levels = StepIds(def)
  <2>1. SUFFICES ASSUME Len(def) <= MaxIterations PROVE unresolved = {}
    BY DEF Placed
  <2>2. CASE iterations = MaxIterations
    <3>1. IsFiniteSet(unresolved) /\ Cardinality(unresolved) \in Nat
      BY <1>2, FS_Subset, FS_CardinalityType DEF DrawTypes
    <3>2. Cardinality(unresolved) = 0
      BY <1>1, <1>2, <2>1, <2>2, <3>1, DagViewAssumption DEF Progress
    <3>3. QED
      BY <3>1, <3>2, FS_EmptySet
  <2>3. QED
    BY <1>1, <2>2 DEF Exhausted
<1>4. DOMAIN levels = StepIds(def) =>
        \A s \in StepIds(def) : s \notin Stuck /\ levels[s] = Column(Needs(s))
  BY DEF Placed
<1>5. (\A s : Needs(s)' = Needs(s)) /\ Stuck' = Stuck
  BY <1>1 DEF Needs, Stuck
<1>6. QED
  BY <1>1, <1>3, <1>4, <1>5 DEF Drawn, Column, Columns

LEMMA DrawStep ==
  ASSUME def \in Definitions, DrawInv, UNCHANGED <<vars, searchVars>>, Draw
  PROVE  DrawInv'
<1>1. def' = def /\ ~drawn
  BY DEF vars, Draw, StartSweep, SweepOver, VisitStep, PlaceRest, EndDrawing
<1>2. SUFFICES ASSUME DuplicateIds(def) = {}
               PROVE  IF drawn' THEN Drawn' ELSE (DrawTypes /\ Placed /\ Swept /\ Progress)'
  BY <1>1 DEF DrawInv
<1>3. DrawTypes /\ Placed /\ Swept /\ Progress
  BY <1>1, <1>2 DEF DrawInv
<1>4. CASE StartSweep
  <2>1. /\ iterations' = iterations + 1 /\ turn' = 1 /\ resolvedAny' = FALSE /\ resolvedAny
        /\ iterations # MaxIterations /\ UNCHANGED <<levels, unresolved, drawn>>
    BY <1>4 DEF StartSweep, Exhausted
  <2>2. Len(def) \in Nat /\ IsFiniteSet(StepIds(def))
    BY IsDefinition, IdsFinite
  <2>3. Cardinality(unresolved) \in Nat /\ Cardinality(StepIds(def)) \in Nat
    BY <1>3, <2>2, FS_Subset, FS_CardinalityType DEF DrawTypes
  <2>4. DrawTypes'
    <3>1. iterations + 1 \in Nat /\ iterations + 1 <= MaxIterations
      BY <1>3, <2>1, DagViewAssumption DEF DrawTypes
    <3>2. 1 \in 1..(Len(def) + 1)
      BY <2>2
    <3>3. QED
      BY <1>1, <1>3, <2>1, <3>1, <3>2 DEF DrawTypes
  <2>5. Placed'
    <3>1. (\A s : Needs(s)' = Needs(s)) /\ Stuck' = Stuck
      BY <1>1 DEF Needs, Stuck
    <3>2. \A s : Column(Needs(s))' = Column(Needs(s))
      BY <2>1, <3>1 DEF Column, Columns
    <3>3. QED
      BY <1>1, <1>3, <2>1, <3>1, <3>2 DEF Placed
  <2>6. Swept'
    BY <2>1 DEF Swept
  <2>7. Progress'
    BY <1>1, <1>3, <2>1, <2>3 DEF Progress, DrawTypes
  <2>8. QED
    BY <1>1, <2>1, <2>4, <2>5, <2>6, <2>7
<1>5. CASE VisitStep
  <2>1. ~drawn'
    BY <1>1, <1>5 DEF VisitStep
  <2>2. QED
    BY <1>1, <1>2, <1>3, <1>5, <2>1, VisitDraws
<1>6. CASE PlaceRest
  <2>1. drawn'
    BY <1>6 DEF PlaceRest
  <2>2. QED
    BY <1>2, <1>3, <1>6, <2>1, PlaceRestDraws
<1>7. CASE EndDrawing
  <2>1. drawn'
    BY <1>7 DEF EndDrawing
  <2>2. QED
    BY <1>2, <1>3, <1>7, <2>1, EndDraws
<1>8. QED
  BY <1>4, <1>5, <1>6, <1>7 DEF Draw

\* The drawing is right, and nothing is stuck exactly if the definition was accepted.
LEMMA DrawingFollows ==
  ASSUME ParserInv, DrawInv
  PROVE  ColumnsFollowDependencies
<1>1. SUFFICES ASSUME drawn, DuplicateIds(def) = {}
               PROVE  Drawn /\ (pc = "done" => (result.ok <=> Stuck = {}))
  BY DEF ColumnsFollowDependencies, Drawn, Needs
<1>2. Drawn
  BY <1>1 DEF DrawInv
<1>3. pc = "done" => (result.ok <=> Stuck = {})
  BY <1>1, StuckIsRefused DEF ParserInv, Judged
<1>4. QED
  BY <1>2, <1>3

-------------------------------------------------------------------------------
(* Draft, parser and search together.                                       *)

DraftInv == ParserInv /\ SearchInv /\ DrawInv

LEMMA SearchInitially ==
  ASSUME def \in Definitions, SearchInit
  PROVE  SearchInv
<1>1. /\ color = [n \in Nodes |-> "WHITE"] /\ path = <<>> /\ todo = <<>> /\ cycles = <<>> /\ ~done
  BY DEF SearchInit
<1>2. DOMAIN path = {} /\ DOMAIN cycles = {} /\ ToSet(path) = {} /\ Len(path) = 0
  BY <1>1 DEF ToSet
<1>3. SearchTypes
  <2> DEFINE All == Seq(Nodes)
  <2>1. cycles \in Seq(All)
    BY <1>1
  <2>2. path \in Seq(Nodes) /\ todo \in Seq(SUBSET Entries(def)) /\ Len(todo) = Len(path)
    BY <1>1
  <2>3. \A n \in Nodes : color[n] # "GRAY"
    BY <1>1
  <2>4. QED
    BY <1>1, <1>2, <2>1, <2>2, <2>3 DEF SearchTypes, Distinct
<1>4. Black = {}
  BY <1>1 DEF Black
<1>5. \A e \in Entries(def) : color[DepAt(def, e)] # "BLACK"
  BY <1>1, EntryNodes
<1>6. NothingMissed
  BY <1>2, <1>4, <1>5 DEF NothingMissed, HasDeadlock
<1>7. PathWaits
  BY <1>2 DEF PathWaits
<1>8. QED
  BY <1>1, <1>2, <1>3, <1>6, <1>7 DEF SearchInv

LEMMA DrawInitially ==
  ASSUME def \in Definitions, DrawInit
  PROVE  DrawInv
<1>1. /\ DOMAIN levels = {} /\ unresolved = StepIds(def) /\ iterations = 0
      /\ turn = Len(def) + 1 /\ resolvedAny = TRUE /\ drawn = FALSE
      /\ levels = [s \in {} |-> 0]
  BY DEF DrawInit
<1>2. Len(def) \in Nat /\ Cardinality(StepIds(def)) \in Nat
  BY IsDefinition, IdsFinite, FS_CardinalityType
<1>3. DrawTypes
  BY <1>1, <1>2, DagViewAssumption DEF DrawTypes
<1>4. Placed
  BY <1>1 DEF Placed
<1>5. QED
  BY <1>1, <1>2, <1>3, <1>4 DEF DrawInv, Swept, Progress

\* The search stays as it is while the draft is drawn and parsed.
LEMMA SearchWaits ==
  ASSUME SearchInv, UNCHANGED <<def, searchVars>>, done => pc' = "done"
  PROVE  SearchInv'
<1>1. UNCHANGED <<def, color, path, todo, cycles, done>>
  BY DEF searchVars
<1>2. SearchTypes' = SearchTypes /\ PathWaits' = PathWaits
  BY <1>1 DEF SearchTypes, PathWaits, Nodes, Adjacency
<1>3. NothingMissed' = NothingMissed
  BY <1>1 DEF NothingMissed, Followed, Black, Nodes, Adjacency
<1>4. \A k : IsCycle(cycles[k])' = IsCycle(cycles[k])
  BY <1>1 DEF IsCycle
<1>5. Nodes' = Nodes
  BY <1>1 DEF Nodes
<1>6. QED
  BY <1>1, <1>2, <1>3, <1>4, <1>5 DEF SearchInv

\* The drawing stays as it is while the draft is parsed and searched.
LEMMA DrawWaits ==
  ASSUME DrawInv, UNCHANGED <<def, drawing>>
  PROVE  DrawInv'
<1>1. UNCHANGED <<def, levels, unresolved, iterations, turn, resolvedAny, drawn>>
  BY DEF drawing
<1>2. (\A s : Needs(s)' = Needs(s)) /\ Stuck' = Stuck
  BY <1>1 DEF Needs, Stuck
<1>3. \A s : Column(Needs(s))' = Column(Needs(s))
  BY <1>1, <1>2 DEF Column, Columns
<1>4. DrawTypes' = DrawTypes /\ Progress' = Progress
  BY <1>1 DEF DrawTypes, Progress
<1>5. Placed' = Placed /\ Swept' = Swept /\ Drawn' = Drawn
  BY <1>1, <1>2, <1>3 DEF Placed, Swept, Drawn
<1>6. QED
  BY <1>1, <1>4, <1>5 DEF DrawInv

\* The invariant of the draft: it holds at first and every step keeps it.
THEOREM DraftInvariant == DraftSpec => []DraftInv
<1>1. DraftInit => DraftInv
  <2>1. DraftInit => ParserInv /\ def \in Definitions
    BY ParserInitially DEF DraftInit, ParserInv
  <2>2. QED
    BY <2>1, SearchInitially, DrawInitially DEF DraftInit, DraftInv
<1>2. DraftInv /\ [DraftNext]_<<vars, searchVars, drawing>> => DraftInv'
  <2>1. SUFFICES ASSUME DraftInv, DraftNext \/ UNCHANGED <<vars, searchVars, drawing>>
                 PROVE  DraftInv'
    OBVIOUS
  <2>2. def \in Definitions /\ ParserInv /\ SearchInv /\ DrawInv
    BY <2>1 DEF DraftInv, ParserInv
  <2>3. done => pc = "done"
    BY <2>2 DEF SearchInv
  <2>4. CASE Draw /\ UNCHANGED <<vars, searchVars>>
    <3>1. UNCHANGED <<def, searchVars, pc>> /\ UNCHANGED vars
      BY <2>4 DEF vars
    <3>2. QED
      BY <2>2, <2>3, <2>4, <3>1, ParserStep, SearchWaits, DrawStep DEF DraftInv
  <2>5. CASE Parse /\ UNCHANGED <<searchVars, drawing>>
    <3>1. def' = def /\ pc # "done"
      BY <2>5 DEF Parse, Next, ReadText, CheckStepCount, CheckShape, CheckConfigs, Refuse, GoOn,
                  RejectDuplicates, RejectDangling, Return, BuildGraph, ShiftNode, CountChild, Finish
    <3>2. QED
      BY <2>2, <2>3, <2>5, <3>1, ParserStep, SearchWaits, DrawWaits DEF DraftInv
  <2>6. CASE pc = "done" /\ Search /\ UNCHANGED <<vars, drawing>>
    <3>1. UNCHANGED vars /\ UNCHANGED <<def, drawing>>
      BY <2>6 DEF vars
    <3>2. QED
      BY <2>2, <2>6, <3>1, ParserStep, SearchStep, DrawWaits DEF DraftInv
  <2>7. CASE UNCHANGED <<vars, searchVars, drawing>>
    <3>1. UNCHANGED vars /\ UNCHANGED <<def, drawing>> /\ UNCHANGED <<def, searchVars, pc>>
      BY <2>7 DEF vars
    <3>2. QED
      BY <2>2, <2>3, <3>1, ParserStep, SearchWaits, DrawWaits DEF DraftInv
  <2>8. QED
    BY <2>1, <2>4, <2>5, <2>6, <2>7 DEF DraftNext
<1>3. QED
  BY <1>1, <1>2, PTL DEF DraftSpec

\* Whatever definition is accepted comes back as a topological order of all its
\* steps (the sorted list that validateAndSortDAG returns).
THEOREM SortIsRight == DraftSpec => []AcceptedIsSorted
<1>1. DraftInv => AcceptedIsSorted
  BY DEF DraftInv, ParserInv, Judged
<1>2. QED
  BY <1>1, DraftInvariant, PTL

\* validateAndSortDAG reports "cycle" exactly for the definitions with ids and
\* names in order in which some steps wait for each other, of whatever size.
THEOREM CycleIsRight == DraftSpec => []CycleIffDeadlock
<1>1. DraftInv => CycleIffDeadlock
  BY DEF DraftInv, ParserInv, Judged
<1>2. QED
  BY <1>1, DraftInvariant, PTL

\* detectCycles reports cycles of the definition and nothing else, at least one if
\* there is any, and never disagrees with validateAndSortDAG.
THEOREM SearchIsRight == DraftSpec => []ReportsAreTheCycles
<1>1. DraftInv => ReportsAreTheCycles
  BY SearchReports DEF DraftInv
<1>2. QED
  BY <1>1, DraftInvariant, PTL

\* DagView puts every step behind those it depends on, sets apart exactly those
\* the parser refuses the definition for, and needs no more sweeps than steps.
THEOREM DrawingIsRight == DraftSpec => []ColumnsFollowDependencies
<1>1. DraftInv => ColumnsFollowDependencies
  BY DrawingFollows DEF DraftInv
<1>2. QED
  BY <1>1, DraftInvariant, PTL

===============================================================================
