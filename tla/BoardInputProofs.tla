---------------------------- MODULE BoardInputProofs ----------------------------
(***************************************************************************)
(* Theorems about BoardInput: for any number of issues, projects, columns  *)
(* and filters, and any sequence of keys, clicks, commands and failures,   *)
(* the selection is one of the listed issues, a form acts on the issue it  *)
(* was opened for, and a click selects what is drawn where it was made.    *)
(*                                                                         *)
(* Each handler is shown to be a BoardStep: it keeps the types, ends with  *)
(* ensure_selection, leaves at most one form open, and changes titles only *)
(* as the edit form does.  That BoardSteps keep IInv is then one argument  *)
(* for all of them.  Rows are counted in the orders of the lists: an       *)
(* element stands in the position given by how many come before it.        *)
(***************************************************************************)
EXTENDS BoardInput, FiniteSetTheorems, FunctionTheorems, SequenceTheorems,
        WellFoundedInduction, TLAPS

-----------------------------------------------------------------------------
(* Induction and recursion *)

(* A set of numbers that is not empty has a least element.                 *)
LEMMA LeastNumber ==
  ASSUME NEW T \in SUBSET Nat, T # {}
  PROVE  \E n \in T : \A m \in T : n <= m
<1> DEFINE R == OpToRel(<, Nat)
<1>1. IsWellFoundedOn(R, Nat)
  BY NatLessThanWellFounded
<1>2. PICK n \in T : \A m \in T : ~(<<m, n>> \in R)
  <2> HIDE DEF R
  <2> QED BY <1>1, WFMin
<1>3. \A m \in T : ~(m < n)
  BY <1>2 DEF OpToRel
<1> QED
  BY <1>3

(* A recursive function exists: its values are built up one by one.        *)
LEMMA Recursion ==
  ASSUME NEW U, NEW a \in U, NEW n \in Nat, NEW F \in [1..n -> [U -> U]]
  PROVE  \E t \in [0..n -> U] : t[0] = a /\ \A k \in 1..n : t[k] = F[k][t[k - 1]]
<1> DEFINE UpTo(m, t) == t[0] = a /\ \A k \in 1..m : t[k] = F[k][t[k - 1]]
           Bad == {m \in 0..n : ~ \E t \in [0..m -> U] : UpTo(m, t)}
<1>1. SUFFICES ASSUME Bad # {} PROVE FALSE
  <2>1. n \in 0..n
    OBVIOUS
  <2>2. Bad = {} => \E t \in [0..n -> U] : UpTo(n, t)
    BY <2>1
  <2> QED
    BY <2>2
<1>2. Bad \in SUBSET Nat
  OBVIOUS
<1>3. PICK m \in Bad : \A k \in Bad : m <= k
  BY <1>1, <1>2, LeastNumber
<1>4. m \in 0..n /\ m \in Nat /\ ~ \E t \in [0..m -> U] : UpTo(m, t)
  OBVIOUS
<1>5. CASE m = 0
  <2> DEFINE t == [k \in 0..0 |-> a]
  <2>1. t \in [0..m -> U] /\ UpTo(m, t)
    BY <1>5
  <2> QED
    BY <1>4, <2>1
<1>6. CASE m # 0
  <2>1. m - 1 \in 0..n /\ ~(m <= m - 1) /\ m \in 1..n
    BY <1>4, <1>6
  <2>2. m - 1 \notin Bad
    BY <1>3, <2>1
  <2>3. PICK t \in [0..(m - 1) -> U] : UpTo(m - 1, t)
    BY <2>1, <2>2
  <2> DEFINE u == [k \in 0..m |-> IF k = m THEN F[m][t[m - 1]] ELSE t[k]]
  <2>4. t[m - 1] \in U /\ F[m][t[m - 1]] \in U
    BY <2>1, <2>3
  <2>5. u \in [0..m -> U]
    BY <1>4, <2>4
  <2>6. u[0] = a
    BY <1>4, <1>6, <2>3
  <2>7. ASSUME NEW k \in 1..m PROVE u[k] = F[k][u[k - 1]]
    <3>1. k \in 0..m /\ k - 1 \in 0..m /\ k - 1 # m
      BY <1>4, <2>7
    <3>2. u[k - 1] = t[k - 1]
      BY <3>1
    <3>3. CASE k = m
      BY <3>1, <3>2, <3>3
    <3>4. CASE k # m
      <4>1. k \in 1..(m - 1) /\ u[k] = t[k]
        BY <1>4, <2>7, <3>1, <3>4
      <4> QED
        BY <2>3, <3>2, <4>1
    <3> QED
      BY <3>3, <3>4
  <2> HIDE DEF u
  <2>8. UpTo(m, u)
    BY <2>6, <2>7
  <2> QED
    BY <1>4, <2>5, <2>8
<1> QED
  BY <1>5, <1>6

-----------------------------------------------------------------------------
(* Orders *)

TotalOrder(S, R) ==
  /\ \A x \in S : <<x, x>> \notin R
  /\ \A x, y, z \in S : <<x, y>> \in R /\ <<y, z>> \in R => <<x, z>> \in R
  /\ \A x, y \in S : x # y => <<x, y>> \in R \/ <<y, x>> \in R

(* The more come before an element, the later it is; and no two elements   *)
(* have equally many before them.                                          *)
LEMMA BelowGrows ==
  ASSUME NEW S, NEW R, IsFiniteSet(S), TotalOrder(S, R), NEW x \in S, NEW y \in S
  PROVE  /\ Cardinality(Below(S, R, x)) \in 0..Cardinality(S) - 1
         /\ <<x, y>> \in R => Cardinality(Below(S, R, x)) < Cardinality(Below(S, R, y))
         /\ Cardinality(Below(S, R, x)) = Cardinality(Below(S, R, y)) => x = y
<1>1. ASSUME NEW u \in S
      PROVE  /\ Below(S, R, u) \in SUBSET S /\ u \notin Below(S, R, u)
             /\ IsFiniteSet(Below(S, R, u)) /\ Cardinality(Below(S, R, u)) \in Nat
             /\ Cardinality(Below(S, R, u)) < Cardinality(S)
  <2>1. Below(S, R, u) \in SUBSET S /\ u \notin Below(S, R, u)
    BY DEF Below, TotalOrder
  <2>2. /\ IsFiniteSet(Below(S, R, u)) /\ Cardinality(Below(S, R, u)) <= Cardinality(S)
        /\ Cardinality(Below(S, R, u)) # Cardinality(S)
    BY <2>1, FS_Subset
  <2> QED
    BY <2>1, <2>2, FS_CardinalityType
<1>2. ASSUME NEW u \in S, NEW v \in S, <<u, v>> \in R
      PROVE  Cardinality(Below(S, R, u)) < Cardinality(Below(S, R, v))
  <2>1. Below(S, R, u) \in SUBSET Below(S, R, v)
    BY <1>2 DEF Below, TotalOrder
  <2>2. u \in Below(S, R, v) /\ u \notin Below(S, R, u)
    BY <1>1, <1>2 DEF Below
  <2>3. /\ Cardinality(Below(S, R, u)) <= Cardinality(Below(S, R, v))
        /\ Cardinality(Below(S, R, v)) # Cardinality(Below(S, R, u))
    BY <1>1, <2>1, <2>2, FS_Subset
  <2> QED
    BY <1>1, <2>3
<1>3. Cardinality(S) \in Nat
  BY FS_CardinalityType
<1>4. x # y => <<x, y>> \in R \/ <<y, x>> \in R
  BY DEF TotalOrder
<1>5. Cardinality(Below(S, R, x)) = Cardinality(Below(S, R, y)) => x = y
  <2> SUFFICES ASSUME Cardinality(Below(S, R, x)) = Cardinality(Below(S, R, y)), x # y
               PROVE  FALSE
    OBVIOUS
  <2>1. Cardinality(Below(S, R, x)) \in Nat /\ Cardinality(Below(S, R, y)) \in Nat
    BY <1>1
  <2>2. \/ Cardinality(Below(S, R, x)) < Cardinality(Below(S, R, y))
        \/ Cardinality(Below(S, R, y)) < Cardinality(Below(S, R, x))
    BY <1>2, <1>4
  <2> QED
    BY <2>1, <2>2
<1>6. Cardinality(Below(S, R, x)) \in 0..Cardinality(S) - 1
  BY <1>1, <1>3
<1> QED
  BY <1>2, <1>5, <1>6

(* So each position has an element.                                        *)
LEMMA EachPosition ==
  ASSUME NEW S, NEW R, IsFiniteSet(S), TotalOrder(S, R),
         NEW n \in 1..Cardinality(S)
  PROVE  \E x \in S : Cardinality(Below(S, R, x)) = n - 1
<1> DEFINE P == 0..Cardinality(S) - 1
           f == [x \in S |-> Cardinality(Below(S, R, x))]
<1>1. Cardinality(S) \in Nat
  BY FS_CardinalityType
<1>2. IsFiniteSet(P) /\ Cardinality(P) = Cardinality(S)
  <2>1. 0 \in Int /\ Cardinality(S) - 1 \in Int
    BY <1>1
  <2>2. /\ IsFiniteSet(0..Cardinality(S) - 1)
        /\ Cardinality(0..Cardinality(S) - 1)
             = IF 0 > Cardinality(S) - 1 THEN 0 ELSE Cardinality(S) - 1 - 0 + 1
    BY <2>1, FS_Interval
  <2> QED
    BY <1>1, <2>2
<1>3. f \in [S -> P]
  BY BelowGrows
<1>4. \A x, y \in S : f[x] = f[y] => x = y
  BY BelowGrows
<1> HIDE DEF f
<1>5. f \in Injection(S, P)
  BY <1>3, <1>4, Fun_IsInj
<1>6. f \in Surjection(S, P)
  BY <1>2, <1>5, FS_Injection
<1>7. n - 1 \in P
  BY <1>1
<1>8. PICK x \in S : f[x] = n - 1
  BY <1>6, <1>7 DEF Surjection
<1> QED
  BY <1>8 DEF f

(* q lists the elements of S in the order R: as a sequence without         *)
(* repetitions, each after those that come before it.                      *)
Lists(q, S, R) ==
  /\ q \in Seq(S) /\ Len(q) = Cardinality(S) /\ DOMAIN q = 1..Cardinality(S)
  /\ \A n \in 1..Cardinality(S) : q[n] \in S /\ Cardinality(Below(S, R, q[n])) = n - 1

LEMMA OrderedLists ==
  ASSUME NEW S, NEW R, IsFiniteSet(S), TotalOrder(S, R)
  PROVE  Lists(Ordered(S, R), S, R)
<1> DEFINE At(n) == CHOOSE x \in S : Cardinality(Below(S, R, x)) = n - 1
<1>1. ASSUME NEW n \in 1..Cardinality(S)
      PROVE  At(n) \in S /\ Cardinality(Below(S, R, At(n))) = n - 1
  BY EachPosition
<1>2. Ordered(S, R) = [n \in 1..Cardinality(S) |-> At(n)]
  BY DEF Ordered
<1> HIDE DEF At
<1>3. Cardinality(S) \in Nat
  BY FS_CardinalityType
<1>4. Ordered(S, R) \in [1..Cardinality(S) -> S]
  BY <1>1, <1>2
<1>5. Ordered(S, R) \in Seq(S) /\ Len(Ordered(S, R)) = Cardinality(S)
  BY <1>3, <1>4
<1> QED
  BY <1>1, <1>2, <1>5 DEF Lists

LEMMA ListsAll ==
  ASSUME NEW S, NEW R, IsFiniteSet(S), TotalOrder(S, R), NEW q, Lists(q, S, R)
  PROVE  \A x \in S : /\ Cardinality(Below(S, R, x)) + 1 \in DOMAIN q
                      /\ q[Cardinality(Below(S, R, x)) + 1] = x
<1>1. Cardinality(S) \in Nat
  BY FS_CardinalityType
<1> TAKE x \in S
<1>2. PICK k : k = Cardinality(Below(S, R, x))
  OBVIOUS
<1>3. k \in 0..Cardinality(S) - 1
  BY <1>2, BelowGrows
<1>4. k + 1 \in 1..Cardinality(S) /\ (k + 1) - 1 = k
  BY <1>1, <1>3
<1>5. q[k + 1] \in S /\ Cardinality(Below(S, R, q[k + 1])) = k
  BY <1>4 DEF Lists
<1>6. q[k + 1] = x
  BY <1>2, <1>5, BelowGrows
<1> QED
  BY <1>2, <1>4, <1>6 DEF Lists

(* If there are elements, one comes before all others.                     *)
LEMMA FirstExists ==
  ASSUME NEW S, NEW R, IsFiniteSet(S), TotalOrder(S, R), S # {}
  PROVE  \E x \in S : \A y \in S \ {x} : <<x, y>> \in R
<1>1. Cardinality(S) \in Nat /\ Cardinality(S) # 0
  BY FS_CardinalityType, FS_EmptySet
<1>2. 1 \in 1..Cardinality(S) /\ 1 - 1 = 0
  BY <1>1
<1>3. PICK x \in S : Cardinality(Below(S, R, x)) = 0
  BY <1>2, EachPosition
<1>4. Below(S, R, x) = {}
  <2>1. Below(S, R, x) \in SUBSET S
    BY DEF Below
  <2> QED
    BY <1>3, <2>1, FS_Subset, FS_EmptySet
<1> QED
  BY <1>4 DEF Below, TotalOrder

-----------------------------------------------------------------------------
(* The orders of the board *)

IssueRecords ==
  [status : StatusSet \cup {OtherStatus, "absent", "deleted"},
   title : Issues, project : Projects \cup {None}, cwd : BOOLEAN,
   session : {"none", "live", "stale"}]

LEMMA StatusesListed ==
  /\ Len(Statuses) \in Nat /\ DOMAIN Statuses = 1..Len(Statuses)
  /\ Len(Statuses) > 0 /\ 1 \in DOMAIN Statuses
  /\ \A n \in DOMAIN Statuses : Statuses[n] \in StatusSet
  /\ \A st \in StatusSet : \E n \in DOMAIN Statuses : Statuses[n] = st
BY BoardInputAssumption DEF StatusSet

(* The columns are numbered, and what is no column comes after them.       *)
LEMMA RankOfColumn ==
  ASSUME NEW st
  PROVE  /\ Rank(st) \in 1..Len(Statuses) + 1 /\ Rank(st) \in Nat
         /\ st \in StatusSet => Rank(st) \in DOMAIN Statuses /\ Statuses[Rank(st)] = st
         /\ st \notin StatusSet => Rank(st) = Len(Statuses) + 1
         /\ \A n \in DOMAIN Statuses : Statuses[n] = st => Rank(st) = n
<1>1. CASE st \in StatusSet
  <2>1. Rank(st) \in DOMAIN Statuses /\ Statuses[Rank(st)] = st
    BY <1>1, StatusesListed DEF Rank
  <2>2. \A n \in DOMAIN Statuses : Statuses[n] = st => Rank(st) = n
    BY <2>1, BoardInputAssumption
  <2> QED
    BY <1>1, <2>1, <2>2, StatusesListed
<1>2. CASE st \notin StatusSet
  BY <1>2, StatusesListed DEF Rank
<1> QED
  BY <1>1, <1>2

LEMMA BeforeIsOrder ==
  ASSUME NEW is, NEW S \in SUBSET Issues
  PROVE  TotalOrder(S, IssueOrder(is)) /\ IsFiniteSet(S)
<1> DEFINE r == [i \in Issues |-> Rank(is[i].status)]
<1>1. \A i \in Issues : r[i] \in Nat /\ i \in Nat
  BY RankOfColumn, BoardInputAssumption
<1>2. \A i, j \in Issues : <<i, j>> \in IssueOrder(is) <=> r[i] < r[j] \/ (r[i] = r[j] /\ i < j)
  BY DEF IssueOrder, Before
<1> HIDE DEF r
<1>3. TotalOrder(S, IssueOrder(is))
  <2>1. \A x \in S : <<x, x>> \notin IssueOrder(is)
    BY <1>1, <1>2
  <2>2. ASSUME NEW x \in S, NEW y \in S, NEW z \in S,
               <<x, y>> \in IssueOrder(is), <<y, z>> \in IssueOrder(is)
        PROVE  <<x, z>> \in IssueOrder(is)
    <3>1. /\ x \in Issues /\ y \in Issues /\ z \in Issues
          /\ x \in Nat /\ y \in Nat /\ z \in Nat /\ r[x] \in Nat /\ r[y] \in Nat /\ r[z] \in Nat
      BY <1>1
    <3>2. r[x] < r[y] \/ (r[x] = r[y] /\ x < y)
      BY <1>2, <2>2, <3>1
    <3>3. r[y] < r[z] \/ (r[y] = r[z] /\ y < z)
      BY <1>2, <2>2, <3>1
    <3>4. r[x] < r[z] \/ (r[x] = r[z] /\ x < z)
      BY <3>1, <3>2, <3>3
    <3> QED
      BY <1>2, <3>1, <3>4
  <2>3. ASSUME NEW x \in S, NEW y \in S, x # y
        PROVE  <<x, y>> \in IssueOrder(is) \/ <<y, x>> \in IssueOrder(is)
    <3>1. x \in Issues /\ y \in Issues /\ x \in Nat /\ y \in Nat /\ r[x] \in Nat /\ r[y] \in Nat
      BY <1>1
    <3> QED
      BY <1>2, <2>3, <3>1
  <2> QED
    BY <2>1, <2>2, <2>3 DEF TotalOrder
<1> QED
  BY <1>3, FS_Subset, BoardInputAssumption

LEMMA NumbersAreOrder ==
  ASSUME NEW S \in SUBSET Projects
  PROVE  TotalOrder(S, ProjectOrder) /\ IsFiniteSet(S)
<1>1. \A q \in S : q \in Projects /\ q \in Nat
  BY BoardInputAssumption
<1>2. \A x, y \in S : <<x, y>> \in ProjectOrder <=> x < y
  BY DEF ProjectOrder
<1>3. TotalOrder(S, ProjectOrder)
  BY <1>1, <1>2 DEF TotalOrder
<1> QED
  BY <1>3, FS_Subset, BoardInputAssumption

-----------------------------------------------------------------------------
(* Selection *)

LEMMA EnsuredListed ==
  ASSUME NEW is, NEW f, NEW sel
  PROVE  /\ IF Listed(is, f) = {} THEN Ensured(sel, is, f) = None
                                  ELSE Ensured(sel, is, f) \in Listed(is, f)
         /\ sel \in Listed(is, f) => Ensured(sel, is, f) = sel
         /\ Listed(is, f) \subseteq Issues
         /\ Ensured(sel, is, f) \in Issues \cup {None}
<1>1. Listed(is, f) \in SUBSET Issues
  BY DEF Listed
<1>2. Listed(is, f) # {} => FirstListed(is, f) \in Listed(is, f)
  <2> SUFFICES ASSUME Listed(is, f) # {} PROVE FirstListed(is, f) \in Listed(is, f)
    OBVIOUS
  <2>1. PICK i \in Listed(is, f) : \A j \in Listed(is, f) \ {i} : <<i, j>> \in IssueOrder(is)
    BY <1>1, BeforeIsOrder, FirstExists
  <2>2. \A j \in Listed(is, f) \ {i} : Before(is, i, j)
    BY <2>1 DEF IssueOrder
  <2> QED
    BY <2>2 DEF FirstListed
<1> QED
  BY <1>1, <1>2 DEF Ensured

LEMMA SelectsListed ==
  ASSUME NEW sel, Selects(sel)
  PROVE  selected' \in Issues \cup {None}
BY EnsuredListed DEF Selects

LEMMA SomeProjectsListed ==
  ASSUME NEW S \in SUBSET Projects
  PROVE  /\ Ordered(S, ProjectOrder) \in Seq(Projects)
         /\ Len(Ordered(S, ProjectOrder)) \in 0..Cardinality(Projects)
<1>1. Lists(Ordered(S, ProjectOrder), S, ProjectOrder)
  BY NumbersAreOrder, OrderedLists
<1>2. PICK q : q = Ordered(S, ProjectOrder)
  OBVIOUS
<1>3. q \in Seq(S) /\ Len(q) = Cardinality(S)
  BY <1>1, <1>2 DEF Lists
<1>4. q \in Seq(Projects)
  BY <1>3
<1>5. Cardinality(S) \in 0..Cardinality(Projects)
  <2>1. IsFiniteSet(Projects) /\ IsFiniteSet(S) /\ Cardinality(S) <= Cardinality(Projects)
    BY FS_Subset, BoardInputAssumption
  <2>2. Cardinality(S) \in Nat /\ Cardinality(Projects) \in Nat
    BY <2>1, FS_CardinalityType
  <2> QED
    BY <2>1, <2>2
<1> QED
  BY <1>2, <1>3, <1>4, <1>5

LEMMA ProjectsListed ==
  ASSUME TypeOK
  PROVE  /\ ProjectsSorted \in Seq(Projects)
         /\ Options \in Seq(Projects) /\ Len(Options) \in 0..Cardinality(Projects)
         /\ \A sel : EnsuredProject(sel) \in Projects \cup {None}
<1>1. ProjectsSorted \in Seq(Projects)
  BY SomeProjectsListed DEF ProjectsSorted
<1>2. Options \in Seq(Projects) /\ Len(Options) \in 0..Cardinality(Projects)
  <2>1. {q \in form.query : projects[q] # "absent"} \in SUBSET Projects
    BY DEF TypeOK
  <2> QED
    BY <2>1, SomeProjectsListed DEF Options
<1>3. \A sel : EnsuredProject(sel) \in Projects \cup {None}
  <2> DEFINE q == ProjectsSorted
  <2>1. q \in Seq(Projects)
    BY <1>1
  <2> HIDE DEF q
  <2>2. q # <<>> => Head(q) \in Projects
    BY <2>1
  <2>3. Range(q) \subseteq Projects
    BY <2>1 DEF Range
  <2> QED
    BY <2>2, <2>3 DEF EnsuredProject, q
<1> QED
  BY <1>1, <1>2, <1>3

(* Up and down, modulo the length.                                         *)
LEMMA Modulo ==
  ASSUME NEW a \in Nat, NEW b \in Nat, b > 0
  PROVE  a % b \in 0..b - 1
OBVIOUS

LEMMA StepInList ==
  ASSUME NEW S, NEW s \in Seq(S), NEW cur, NEW down \in BOOLEAN
  PROVE  Step(s, cur, down) \in S \cup {cur}
<1> DEFINE at == IF \E n \in DOMAIN s : s[n] = cur
                   THEN (CHOOSE n \in DOMAIN s : s[n] = cur) - 1 ELSE 0
           k == at + (IF down THEN 1 ELSE Len(s) - 1)
<1>1. CASE s = <<>>
  BY <1>1 DEF Step
<1>2. CASE s # <<>> /\ cur = None
  BY <1>2 DEF Step
<1>3. CASE s # <<>> /\ cur # None
  <2>1. Len(s) \in Nat /\ Len(s) > 0 /\ DOMAIN s = 1..Len(s)
    BY <1>3
  <2>2. at \in Nat
    BY <2>1
  <2> HIDE DEF at
  <2>3. k \in Nat
    BY <2>1, <2>2
  <2>4. Step(s, cur, down) = s[(k % Len(s)) + 1]
    BY <1>3 DEF Step, at
  <2> HIDE DEF k
  <2>5. k % Len(s) \in 0..Len(s) - 1
    BY <2>1, <2>3, Modulo
  <2>6. (k % Len(s)) + 1 \in 1..Len(s)
    BY <2>1, <2>5
  <2> QED
    BY <2>1, <2>4, <2>6
<1> QED
  BY <1>1, <1>2, <1>3

-----------------------------------------------------------------------------
(* What one step does *)

(* Every handler that keeps the application up ends with ensure_selection. *)
Reselects == phase' # "up" \/ \E sel : Selects(sel)

(* The form stays open.  What is done to the board meanwhile shows in      *)
(* clicked, if the form is one of those it matters to.                     *)
FormStays ==
  /\ form'.kind = form.kind /\ form'.of = form.of
  /\ form.kind = "SelectIssueProject" => form' = form
  /\ projects' = projects
  /\ \/ form.kind \notin {"EditIssue", "Terminal"}
     \/ clicked'
     \/ /\ Selects(selected) /\ filter' = filter /\ clicked' = clicked
        /\ \A i \in Issues : issues'[i].status = issues[i].status
        /\ form.kind = "Terminal" => issues' = issues

FormStep ==
  \/ form'.kind \notin {"EditIssue", "Terminal", "SelectIssueProject"}
  \/ form'.kind = "SelectIssueProject" /\ form'.index = 0
  \/ \E down \in BOOLEAN : SelectProjectMove(down)
  \/ FormStays
  \/ selected # None /\ Opens(EditForm) /\ Selects(selected) /\ issues' = issues /\ filter' = filter
  \/ /\ Opens(Form("Terminal")) /\ Selects(selected) /\ filter' = filter /\ selected # None
     /\ issues' = Launching("launched") \/ (CanType /\ issues' = issues)

TitleStep ==
  \/ \A i \in Issues : issues'[i].title = issues[i].title \/ issues'[i].title = i
  \/ /\ form.kind = "EditIssue" /\ selected # None
     /\ issues' = [issues EXCEPT ![selected].title = issues[form.of].title]

EditFormHasIssue == form.kind = "EditIssue" => form.of # None

BoardStep == TypeOK' /\ Reselects /\ FormStep /\ TitleStep

(* Forms as they are opened.                                               *)
FormRecords ==
  [kind : Kinds, text : {"empty", "wrong", "right"}, of : Issues \cup {None},
   query : SUBSET Projects, index : 0..Cardinality(Projects)]

LEMMA KindsListed ==
  /\ "Normal" \in Kinds /\ "Terminal" \in Kinds /\ "SelectIssueProject" \in Kinds
  /\ "MoveStatus" \in Kinds /\ "DeleteIssueConfirm" \in Kinds /\ "Command" \in Kinds
  /\ "Filter" \in Kinds /\ "NewIssue" \in Kinds /\ "NewIssueDescription" \in Kinds
  /\ "EditIssue" \in Kinds /\ "AddComment" \in Kinds /\ "SendInput" \in Kinds
  /\ "NewProject" \in Kinds /\ "SetProjectIdentifier" \in Kinds
  /\ "SetProjectRepoPath" \in Kinds /\ "SetIssueCwdOverride" \in Kinds
BY DEF Kinds, TextForms, Checked

LEMMA FormsTyped ==
  ASSUME TypeOK
  PROVE  /\ Normal \in FormRecords
         /\ \A kind \in Kinds : Form(kind) \in FormRecords /\ PathForm(kind) \in FormRecords
         /\ EditForm \in FormRecords
<1>1. 0 \in 0..Cardinality(Projects)
  BY FS_CardinalityType, BoardInputAssumption
<1>2. Normal \in FormRecords
  BY <1>1, KindsListed DEF Normal, FormRecords
<1>3. \A kind \in Kinds : Form(kind) \in FormRecords
  BY <1>2 DEF FormRecords, Form
<1>4. \A kind \in Kinds : PathForm(kind) \in FormRecords
  BY <1>3 DEF FormRecords, PathForm
<1>5. EditForm \in FormRecords
  BY <1>3, KindsListed DEF FormRecords, EditForm, TypeOK
<1> QED
  BY <1>2, <1>3, <1>4, <1>5

LEMMA TypingDoes ==
  ASSUME TypeOK, NEW t \in {"empty", "wrong", "right"}, Typing(t)
  PROVE  BoardStep
<1>1. selected' \in Issues \cup {None}
  BY SelectsListed DEF Typing
<1>2. TypeOK'
  BY <1>1 DEF TypeOK, Typing, boardVars, viewVars
<1>3. form.kind \notin {"Terminal", "SelectIssueProject"} /\ FormStays
  BY DEF Typing, FormStays, TextForms, Checked, TypeOK, boardVars, viewVars
<1> QED
  BY <1>2, <1>3 DEF BoardStep, Reselects, FormStep, TitleStep, Typing, boardVars

LEMMA EscapeDoes == ASSUME TypeOK, Escape PROVE BoardStep
<1>1. selected' \in Issues \cup {None}
  BY SelectsListed DEF Escape
<1>2. TypeOK'
  BY <1>1, FormsTyped DEF TypeOK, FormRecords, Escape, boardVars, viewVars, Closes
<1> QED
  BY <1>2 DEF BoardStep, Reselects, FormStep, TitleStep, Escape, boardVars, Closes, Normal

-----------------------------------------------------------------------------
(* Forms *)

LEMMA RefuseDoes ==
  ASSUME TypeOK, NEW kind, NEW texts, NEW stays \in BOOLEAN,
         kind # "SelectIssueProject", Refuse(kind, texts, stays)
  PROVE  BoardStep
<1>1. selected' \in Issues \cup {None}
  BY SelectsListed DEF Refuse
<1>2. TypeOK'
  <2>1. CASE stays
    BY <1>1, <2>1 DEF TypeOK, Refuse, boardVars, viewVars
  <2>2. CASE ~stays
    BY <1>1, <2>2, FormsTyped DEF TypeOK, FormRecords, Refuse, boardVars, viewVars, Closes
  <2> QED
    BY <2>1, <2>2
<1> QED
  BY <1>2 DEF BoardStep, Reselects, FormStep, TitleStep, Refuse, boardVars, viewVars,
      Closes, Normal, FormStays, InForm

LEMMA SubmitFailsDoes ==
  ASSUME TypeOK, Ends, Closes, UNCHANGED <<boardVars, selected, viewVars>>
  PROVE  BoardStep
<1>1. TypeOK'
  BY FormsTyped DEF Ends, TypeOK, FormRecords, boardVars, viewVars, Closes
<1> QED
  BY <1>1 DEF BoardStep, Reselects, FormStep, TitleStep, Ends, boardVars, Closes, Normal

LEMMA NewIssueTitleDoes ==
  ASSUME TypeOK, NewIssueTitle
  PROVE  BoardStep
<1>1. selected' \in Issues \cup {None}
  BY SelectsListed DEF NewIssueTitle
<1>2. TypeOK'
  <2>1. [Form("NewIssueDescription") EXCEPT !.text = "right"] = PathForm("NewIssueDescription")
    BY DEF PathForm
  <2> QED BY <1>1, <2>1, FormsTyped, KindsListed
  DEF TypeOK, FormRecords, NewIssueTitle, boardVars, viewVars, Opens
<1> QED
  BY <1>2 DEF BoardStep, Reselects, FormStep, TitleStep, NewIssueTitle, boardVars,
      viewVars, Closes, Normal, Opens, Form

LEMMA NewIssueDescriptionDoes ==
  ASSUME TypeOK, NewIssueDescription
  PROVE  BoardStep
<1>1. selected' \in Issues \cup {None}
  BY SelectsListed DEF NewIssueDescription
<1>2. TypeOK'
  <2>1. Form("SelectIssueProject") \in FormRecords
    BY FormsTyped, KindsListed
  <2>2. [Form("SelectIssueProject") EXCEPT !.query = Projects] \in FormRecords
    BY <2>1 DEF FormRecords
  <2> QED
    BY <1>1, <2>2 DEF TypeOK, FormRecords, NewIssueDescription, boardVars, viewVars, Opens
<1> QED
  BY <1>2 DEF BoardStep, Reselects, FormStep, TitleStep, NewIssueDescription, boardVars,
      viewVars, Closes, Normal, Opens, Form

LEMMA SelectProjectQueryDoes ==
  ASSUME TypeOK, NEW qs \in SUBSET Projects, SelectProjectQuery(qs)
  PROVE  BoardStep
<1>1. selected' \in Issues \cup {None}
  BY SelectsListed DEF SelectProjectQuery
<1>2. TypeOK'
  BY <1>1, FormsTyped DEF TypeOK, FormRecords, SelectProjectQuery, boardVars, viewVars,
      Closes, Normal, Queried
<1> QED
  BY <1>2 DEF BoardStep, Reselects, FormStep, TitleStep, SelectProjectQuery, boardVars,
      viewVars, Closes, Normal, Queried, InForm, TypeOK

LEMMA SelectProjectMoveDoes ==
  ASSUME TypeOK, form.index <= Len(Options), NEW down \in BOOLEAN, SelectProjectMove(down)
  PROVE  BoardStep /\ (form'.index <= Len(Options))
<1>1. selected' \in Issues \cup {None}
  BY SelectsListed DEF SelectProjectMove
<1>2. PICK n : n = Len(Options)
  OBVIOUS
<1>3. n \in 0..Cardinality(Projects) /\ Cardinality(Projects) \in Nat /\ n \in Nat
  <2>1. Cardinality(Projects) \in Nat
    BY FS_CardinalityType, BoardInputAssumption
  <2> QED
    BY <1>2, <2>1, ProjectsListed
<1>4. form.index \in 0..n
  BY <1>2, <1>3 DEF TypeOK
<1> DEFINE k == IF down THEN (form.index + 1) % (n + 1)
                ELSE IF form.index = 0 THEN n ELSE form.index - 1
<1>5. form' = [form EXCEPT !.index = k]
  BY <1>2, <1>3 DEF SelectProjectMove
<1>6. (form.index + 1) % (n + 1) \in 0..n
  <2>1. form.index + 1 \in Nat /\ n + 1 \in Nat /\ n + 1 > 0 /\ (n + 1) - 1 = n
    BY <1>3, <1>4
  <2>2. (form.index + 1) % (n + 1) \in 0..(n + 1) - 1
    BY <2>1, Modulo
  <2> QED
    BY <2>1, <2>2
<1>7. k \in 0..n
  BY <1>3, <1>4, <1>6
<1> HIDE DEF k
<1>8. k \in 0..Cardinality(Projects)
  BY <1>3, <1>7
<1>9. TypeOK'
  BY <1>1, <1>5, <1>8 DEF TypeOK, SelectProjectMove, boardVars, viewVars
<1>10. form'.index <= Len(Options) /\ form'.kind = form.kind
  BY <1>2, <1>3, <1>5, <1>7 DEF TypeOK
<1> QED
  BY <1>9, <1>10 DEF BoardStep, Reselects, FormStep, TitleStep, SelectProjectMove, boardVars

-----------------------------------------------------------------------------
(* Submitted forms *)

LEMMA ChosenTyped == ASSUME TypeOK PROVE Chosen \in Projects \cup {None}
<1>1. PICK q : q = Options
  OBVIOUS
<1>2. q \in Seq(Projects)
  BY <1>1, ProjectsListed
<1>3. form.index \in Nat
  BY FS_CardinalityType, BoardInputAssumption DEF TypeOK
<1>4. q # <<>> => Len(q) \in DOMAIN q
  BY <1>2
<1>5. form.index # 0 /\ form.index <= Len(q) => form.index \in DOMAIN q
  BY <1>2, <1>3
<1>6. \A n \in DOMAIN q : q[n] \in Projects
  BY <1>2
<1> QED
  BY <1>1, <1>4, <1>5, <1>6 DEF Chosen

(* One issue changed, as one more edit.                                    *)
LEMMA EditsTyped ==
  ASSUME TypeOK, Edits(1)
  PROVE  edits' \in 0..MaxEdits
BY BoardInputAssumption DEF TypeOK, Edits

LEMMA SelectProjectEnterDoes ==
  ASSUME TypeOK, NEW i \in Issues, NEW saved \in BOOLEAN, SelectProjectEnter(i, saved)
  PROVE  BoardStep
<1>1. selected' \in Issues \cup {None} /\ edits' \in 0..MaxEdits
  BY SelectsListed, EditsTyped DEF SelectProjectEnter
<1>2. Statuses[1] \in StatusSet
  BY StatusesListed
<1>3. issues' \in [Issues -> IssueRecords]
  BY <1>2, ChosenTyped DEF TypeOK, IssueRecords, SelectProjectEnter
<1>4. TypeOK'
  BY <1>1, <1>3, FormsTyped
  DEF TypeOK, IssueRecords, FormRecords, SelectProjectEnter, viewVars, Closes, Persist
<1>5. TitleStep
  BY <1>3 DEF TypeOK, TitleStep, SelectProjectEnter
<1> QED
  BY <1>4, <1>5 DEF BoardStep, Reselects, FormStep, SelectProjectEnter, Closes, Normal

LEMMA EditIssueEnterDoes ==
  ASSUME TypeOK, EditFormHasIssue, NEW saved \in BOOLEAN, EditIssueEnter(saved)
  PROVE  BoardStep
<1>1. selected' \in Issues \cup {None} /\ edits' \in 0..MaxEdits
  BY SelectsListed, EditsTyped DEF EditIssueEnter
<1>2. form.of \in Issues
  BY DEF EditFormHasIssue, TypeOK, EditIssueEnter, InForm
<1>3. issues' \in [Issues -> IssueRecords]
  BY <1>2 DEF TypeOK, IssueRecords, EditIssueEnter
<1>4. TypeOK'
  BY <1>1, <1>3, FormsTyped
  DEF TypeOK, IssueRecords, FormRecords, EditIssueEnter, viewVars, Closes, Persist
<1>5. TitleStep
  BY DEF TitleStep, EditIssueEnter, InForm
<1> QED
  BY <1>4, <1>5 DEF BoardStep, Reselects, FormStep, EditIssueEnter, Closes, Normal

LEMMA AddCommentEnterDoes ==
  ASSUME TypeOK, NEW saved \in BOOLEAN, AddCommentEnter(saved)
  PROVE  BoardStep
<1>1. selected' \in Issues \cup {None}
  BY SelectsListed DEF AddCommentEnter
<1>2. project' \in Projects \cup {None}
  BY ProjectsListed DEF AddCommentEnter, TypeOK
<1>3. TypeOK'
  BY <1>1, <1>2, FormsTyped
  DEF TypeOK, FormRecords, AddCommentEnter, boardVars, Closes, Persist
<1> QED
  BY <1>3 DEF BoardStep, Reselects, FormStep, TitleStep, AddCommentEnter, boardVars,
      Closes, Normal

LEMMA SendInputEnterDoes == ASSUME TypeOK, SendInputEnter PROVE BoardStep
<1>1. selected' \in Issues \cup {None}
  BY SelectsListed DEF SendInputEnter
<1>2. TypeOK'
  BY <1>1, FormsTyped DEF TypeOK, FormRecords, SendInputEnter, boardVars, viewVars, Closes
<1> QED
  BY <1>2 DEF BoardStep, Reselects, FormStep, TitleStep, SendInputEnter, boardVars,
      Closes, Normal

LEMMA MoveStatusDigitDoes ==
  ASSUME TypeOK, NEW n \in DOMAIN Statuses, NEW saved \in BOOLEAN, MoveStatusDigit(n, saved)
  PROVE  BoardStep
<1>1. selected' \in Issues \cup {None} /\ edits' \in 0..MaxEdits
  BY SelectsListed, EditsTyped DEF MoveStatusDigit
<1>2. Statuses[n] \in StatusSet
  BY StatusesListed
<1>3. issues' \in [Issues -> IssueRecords]
  BY <1>2 DEF TypeOK, IssueRecords, MoveStatusDigit
<1>4. TypeOK'
  BY <1>1, <1>3, FormsTyped
  DEF TypeOK, IssueRecords, FormRecords, MoveStatusDigit, viewVars, Closes, Persist
<1>5. TitleStep
  BY DEF TypeOK, TitleStep, MoveStatusDigit
<1> QED
  BY <1>4, <1>5 DEF BoardStep, Reselects, FormStep, MoveStatusDigit, Closes, Normal

LEMMA DeleteConfirmedDoes ==
  ASSUME TypeOK, NEW saved \in BOOLEAN, DeleteConfirmed(saved)
  PROVE  BoardStep
<1>1. selected' \in Issues \cup {None} /\ edits' \in 0..MaxEdits
  BY SelectsListed, EditsTyped DEF DeleteConfirmed
<1>2. issues' \in [Issues -> IssueRecords]
  <2>1. selected \in Issues /\ issues \in [Issues -> IssueRecords]
    BY DEF TypeOK, IssueRecords, DeleteConfirmed
  <2> DEFINE r == [issues[selected] EXCEPT !.status = "deleted", !.session = "none"]
  <2>2. r \in IssueRecords
    <3>1. PICK a \in IssueRecords : a = issues[selected]
      BY <2>1
    <3>2. [a EXCEPT !.status = "deleted", !.session = "none"] \in IssueRecords
      <4>1. [a EXCEPT !.status = "deleted"] \in IssueRecords
        BY DEF IssueRecords
      <4>2. \A b \in IssueRecords : [b EXCEPT !.session = "none"] \in IssueRecords
        BY DEF IssueRecords
      <4> QED
        BY <4>1, <4>2
    <3> QED
      BY <3>1, <3>2
  <2>3. issues' = [issues EXCEPT ![selected] = r]
    BY DEF DeleteConfirmed
  <2> QED
    BY <2>1, <2>2, <2>3
<1>3. TypeOK'
  BY <1>1, <1>2, FormsTyped
  DEF TypeOK, IssueRecords, FormRecords, DeleteConfirmed, viewVars, Closes, Persist
<1>4. TitleStep
  BY DEF TypeOK, TitleStep, DeleteConfirmed
<1> QED
  BY <1>3, <1>4 DEF BoardStep, Reselects, FormStep, DeleteConfirmed, Closes, Normal

LEMMA SetRepoPathEnterDoes ==
  ASSUME TypeOK, NEW saved \in BOOLEAN, SetRepoPathEnter(saved)
  PROVE  BoardStep
<1>1. selected' \in Issues \cup {None} /\ edits' \in 0..MaxEdits
  BY SelectsListed, EditsTyped DEF SetRepoPathEnter
<1>2. projects' \in [Projects -> {"absent", "nopath", "path"}]
  BY DEF TypeOK, SetRepoPathEnter
<1>3. TypeOK'
  BY <1>1, <1>2, FormsTyped
  DEF TypeOK, FormRecords, SetRepoPathEnter, viewVars, Closes, Persist
<1> QED
  BY <1>3 DEF BoardStep, Reselects, FormStep, TitleStep, SetRepoPathEnter, Closes, Normal

LEMMA SetIssueCwdEnterDoes ==
  ASSUME TypeOK, NEW saved \in BOOLEAN, SetIssueCwdEnter(saved)
  PROVE  BoardStep
<1>1. selected' \in Issues \cup {None} /\ edits' \in 0..MaxEdits
  BY SelectsListed, EditsTyped DEF SetIssueCwdEnter
<1>2. issues' \in [Issues -> IssueRecords]
  <2>1. selected \in Issues /\ issues \in [Issues -> IssueRecords]
    BY DEF TypeOK, IssueRecords, SetIssueCwdEnter
  <2>2. PICK b \in BOOLEAN : issues' = [issues EXCEPT ![selected].cwd = b]
    BY DEF SetIssueCwdEnter
  <2> QED
    BY <2>1, <2>2 DEF IssueRecords
<1>3. TypeOK'
  BY <1>1, <1>2, FormsTyped
  DEF TypeOK, IssueRecords, FormRecords, SetIssueCwdEnter, viewVars, Closes, Persist
<1>4. TitleStep
  BY DEF TypeOK, TitleStep, SetIssueCwdEnter
<1> QED
  BY <1>3, <1>4 DEF BoardStep, Reselects, FormStep, SetIssueCwdEnter, Closes, Normal

LEMMA NewProjectEnterDoes ==
  ASSUME TypeOK, NEW q \in Projects, NEW saved \in BOOLEAN, NewProjectEnter(q, saved)
  PROVE  BoardStep
<1>1. selected' \in Issues \cup {None} /\ edits' \in 0..MaxEdits
  BY SelectsListed, EditsTyped DEF NewProjectEnter
<1>2. projects' \in [Projects -> {"absent", "nopath", "path"}]
  BY DEF TypeOK, NewProjectEnter
<1>3. TypeOK'
  BY <1>1, <1>2, FormsTyped DEF TypeOK, FormRecords, NewProjectEnter, Closes, Persist
<1> QED
  BY <1>3 DEF BoardStep, Reselects, FormStep, TitleStep, NewProjectEnter, Closes, Normal

LEMMA SetKeyEnterDoes ==
  ASSUME TypeOK, NEW ok \in BOOLEAN, NEW saved \in BOOLEAN, SetKeyEnter(ok, saved)
  PROVE  BoardStep
<1>1. selected' \in Issues \cup {None}
  BY SelectsListed DEF SetKeyEnter
<1>2. phase' \in {"up", "quit", "error"}
  BY DEF TypeOK, SetKeyEnter, Persist
<1>3. TypeOK'
  BY <1>1, <1>2, FormsTyped
  DEF TypeOK, FormRecords, SetKeyEnter, boardVars, viewVars, Closes
<1> QED
  BY <1>3 DEF BoardStep, Reselects, FormStep, TitleStep, SetKeyEnter, boardVars, Closes,
      Normal

-----------------------------------------------------------------------------
(* Filter and commands *)

LEMMA FilterDoes ==
  ASSUME TypeOK, NEW f \in Filters, FilterEnter(f) \/ CommandFilter(f)
  PROVE  BoardStep
<1>1. selected' \in Issues \cup {None}
  BY SelectsListed DEF FilterEnter, CommandFilter
<1>2. TypeOK'
  BY <1>1, FormsTyped DEF TypeOK, FormRecords, FilterEnter, CommandFilter, boardVars, Closes
<1> QED
  BY <1>2 DEF BoardStep, Reselects, FormStep, TitleStep, FilterEnter, CommandFilter,
      boardVars, Closes, Normal

LEMMA CommandViewDoes ==
  ASSUME TypeOK, NEW v \in {"issues", "projects"}, CommandView(v)
  PROVE  BoardStep
<1>1. selected' \in Issues \cup {None}
  BY SelectsListed DEF CommandView
<1>2. TypeOK'
  BY <1>1, FormsTyped DEF TypeOK, FormRecords, CommandView, boardVars, Closes
<1> QED
  BY <1>2 DEF BoardStep, Reselects, FormStep, TitleStep, CommandView, boardVars, Closes,
      Normal

LEMMA CommandProjectNewDoes ==
  ASSUME TypeOK, NEW q \in Projects, CommandProjectNew(q)
  PROVE  BoardStep
<1>1. selected' \in Issues \cup {None} /\ edits' \in 0..MaxEdits
  BY SelectsListed, EditsTyped DEF CommandProjectNew
<1>2. projects' \in [Projects -> {"absent", "nopath", "path"}]
  BY DEF TypeOK, CommandProjectNew
<1>3. TypeOK'
  BY <1>1, <1>2, FormsTyped DEF TypeOK, FormRecords, CommandProjectNew, viewVars, Closes
<1> QED
  BY <1>3 DEF BoardStep, Reselects, FormStep, TitleStep, CommandProjectNew, Closes, Normal

LEMMA CommandAssignDoes ==
  ASSUME TypeOK, NEW q \in Projects \cup {None}, CommandAssign(q)
  PROVE  BoardStep
<1>1. selected' \in Issues \cup {None} /\ edits' \in 0..MaxEdits
  BY SelectsListed, EditsTyped DEF CommandAssign
<1>2. issues' \in [Issues -> IssueRecords]
  BY DEF TypeOK, IssueRecords, CommandAssign
<1>3. TypeOK'
  BY <1>1, <1>2, FormsTyped
  DEF TypeOK, IssueRecords, FormRecords, CommandAssign, viewVars, Closes
<1>4. TitleStep
  BY DEF TypeOK, TitleStep, CommandAssign
<1> QED
  BY <1>3, <1>4 DEF BoardStep, Reselects, FormStep, CommandAssign, Closes, Normal

-----------------------------------------------------------------------------
(* Sessions *)

LEMMA LaunchingTyped ==
  ASSUME TypeOK, selected \in Issues, NEW outcome
  PROVE  /\ Launching(outcome) \in [Issues -> IssueRecords]
         /\ \A i \in Issues : Launching(outcome)[i].title = issues[i].title
<1>1. issues \in [Issues -> IssueRecords]
  BY DEF TypeOK, IssueRecords
<1>2. PICK s \in {"stale", "live"} : s = IF outcome = "failed" THEN "stale" ELSE "live"
  OBVIOUS
<1>3. Launching(outcome) = [issues EXCEPT ![selected].status = InProgress, ![selected].session = s]
  BY <1>2 DEF Launching
<1> DEFINE moved == [issues EXCEPT ![selected].status = InProgress]
<1>4. moved \in [Issues -> IssueRecords] /\ \A i \in Issues : moved[i].title = issues[i].title
  BY <1>1, BoardInputAssumption DEF IssueRecords
<1>5. Launching(outcome) = [moved EXCEPT ![selected].session = s]
  BY <1>3
<1> HIDE DEF moved
<1>6. /\ [moved EXCEPT ![selected].session = s] \in [Issues -> IssueRecords]
      /\ \A i \in Issues : [moved EXCEPT ![selected].session = s][i].title = moved[i].title
  BY <1>4 DEF IssueRecords
<1> QED
  BY <1>4, <1>5, <1>6

LEMMA LaunchDoes ==
  ASSUME TypeOK, NEW outcome \in Outcomes, Launch(outcome)
  PROVE  BoardStep
<1>1. selected' \in Issues \cup {None}
  BY SelectsListed DEF Launch
<1>2. \/ outcome # "blocked" /\ selected \in Issues /\ issues' = Launching(outcome) /\ Edits(1)
      \/ outcome = "blocked" /\ issues' = issues /\ edits' = edits
  BY DEF Launch, TypeOK
<1>3. issues' \in [Issues -> IssueRecords] /\ edits' \in 0..MaxEdits
  BY <1>2, LaunchingTyped, EditsTyped DEF TypeOK, IssueRecords
<1>4. \/ outcome = "launched" /\ Opens(Form("Terminal"))
      \/ outcome # "launched" /\ form' = form /\ Clicks(outcome # "blocked")
  BY DEF Launch, Attaches
<1>5. form' \in FormRecords /\ clicked' \in BOOLEAN
  <2>1. Form("Terminal") \in FormRecords /\ form \in FormRecords /\ clicked \in BOOLEAN
    BY FormsTyped, KindsListed DEF TypeOK, FormRecords
  <2>2. form' \in FormRecords
    BY <1>4, <2>1 DEF Opens
  <2>3. clicked' \in BOOLEAN
    BY <1>4, <2>1 DEF Opens, Clicks
  <2> QED
    BY <2>2, <2>3
<1>6. TypeOK'
  BY <1>1, <1>3, <1>5 DEF TypeOK, IssueRecords, FormRecords, Launch, viewVars
<1>7. TitleStep
  BY <1>2, LaunchingTyped DEF TitleStep
<1>8. Reselects
  BY DEF Reselects, Launch
<1>9. CASE outcome = "launched"
  <2>1. FormStep
    BY <1>2, <1>4, <1>9, BoardInputAssumption DEF FormStep, Launch, viewVars
  <2> QED
    BY <1>6, <1>7, <1>8, <2>1 DEF BoardStep
<1>10. CASE outcome # "launched"
  <2>1. FormStays
    BY <1>2, <1>4, <1>10 DEF FormStays, Launch, Clicks, viewVars, TypeOK
  <2> QED
    BY <1>6, <1>7, <1>8, <2>1 DEF BoardStep, FormStep
<1> QED
  BY <1>9, <1>10

LEMMA FocusDoes == ASSUME TypeOK, Focus PROVE BoardStep
<1>1. selected' \in Issues \cup {None}
  BY SelectsListed DEF Focus
<1>2. form' \in FormRecords /\ clicked' \in BOOLEAN
  <2>1. Form("Terminal") \in FormRecords /\ form \in FormRecords /\ clicked \in BOOLEAN
    BY FormsTyped, KindsListed DEF TypeOK, FormRecords
  <2> QED
    BY <2>1 DEF Focus, Opens
<1>3. TypeOK'
  BY <1>1, <1>2 DEF TypeOK, FormRecords, Focus, boardVars, viewVars
<1>4. FormStep
  <2>1. CASE CanType
    <3>1. selected # None
      BY <2>1 DEF CanType, SelectedSession
    <3> QED
      BY <2>1, <3>1 DEF FormStep, Focus, CanType, boardVars, viewVars
  <2>2. CASE ~CanType
    BY <2>2 DEF FormStep, FormStays, Focus, CanType, InForm, boardVars, viewVars
  <2> QED
    BY <2>1, <2>2
<1> QED
  BY <1>3, <1>4 DEF BoardStep, Reselects, TitleStep, Focus, boardVars

(* A session that is closed, or fails to be, changes nothing else.          *)
LEMMA LeavesSessionDoes ==
  ASSUME TypeOK, NEW left \in {"none", "stale"}, LeavesSession(left), Selects(selected)
  PROVE  /\ selected \in Issues /\ selected' \in Issues \cup {None}
         /\ issues' \in [Issues -> IssueRecords]
         /\ \A i \in Issues : /\ issues'[i].title = issues[i].title
                             /\ issues'[i].status = issues[i].status
         /\ SelectedSession = left => issues' = issues
<1>1. selected' \in Issues \cup {None} /\ selected \in Issues
  BY SelectsListed DEF LeavesSession, TypeOK
<1>2. issues \in [Issues -> IssueRecords] /\ selected # None
  BY DEF TypeOK, IssueRecords, LeavesSession
<1>3. issues' = [issues EXCEPT ![selected].session = left]
  BY DEF LeavesSession
<1>4. /\ issues' \in [Issues -> IssueRecords]
      /\ \A i \in Issues : issues'[i].title = issues[i].title /\ issues'[i].status = issues[i].status
  BY <1>1, <1>2, <1>3 DEF IssueRecords
<1>5. ASSUME SelectedSession = left PROVE issues' = issues
  <2>1. issues[selected].session = left
    BY <1>2, <1>5 DEF SelectedSession
  <2>2. [issues[selected] EXCEPT !.session = left] = issues[selected]
    <3>1. PICK a \in IssueRecords : a = issues[selected] /\ a.session = left
      BY <1>1, <1>2, <2>1
    <3>2. [a EXCEPT !.session = left] = a
      BY <3>1 DEF IssueRecords
    <3> QED
      BY <3>1, <3>2
  <2> QED
    BY <1>1, <1>2, <1>3, <2>2
<1> QED
  BY <1>1, <1>4, <1>5

LEMMA CloseSelectedDoes ==
  ASSUME TypeOK, CloseSelected, phase' \in {"up", "error"}
  PROVE  BoardStep
<1>1. LeavesSession("none") /\ Selects(selected)
  BY DEF CloseSelected
<1>2. /\ selected' \in Issues \cup {None} /\ issues' \in [Issues -> IssueRecords]
      /\ \A i \in Issues : issues'[i].title = issues[i].title /\ issues'[i].status = issues[i].status
      /\ SelectedSession = "none" => issues' = issues
  BY <1>1, LeavesSessionDoes
<1>3. form' \in FormRecords /\ clicked' \in BOOLEAN
  BY FormsTyped DEF CloseSelected, Closes, TypeOK, FormRecords
<1>4. TypeOK'
  BY <1>1, <1>2, <1>3 DEF TypeOK, IssueRecords, FormRecords, LeavesSession, viewVars
<1>5. FormStep
  <2>1. CASE form.kind = "Terminal" /\ SelectedSession # "none"
    BY <2>1 DEF FormStep, CloseSelected, Closes, Normal
  <2>2. CASE ~(form.kind = "Terminal" /\ SelectedSession # "none")
    BY <1>2, <2>2 DEF FormStep, FormStays, CloseSelected, LeavesSession, viewVars
  <2> QED
    BY <2>1, <2>2
<1> QED
  BY <1>1, <1>2, <1>4, <1>5 DEF BoardStep, Reselects, TitleStep

LEMMA CloseKeyDoes ==
  ASSUME TypeOK, NEW saved \in BOOLEAN, CloseKey(saved)
  PROVE  BoardStep
<1>1. CloseSelected /\ phase' \in {"up", "error"}
  BY DEF CloseKey, Persist, InForm
<1> QED
  BY <1>1, CloseSelectedDoes

(* The terminal that stays attached counts as clicked.                     *)
LEMMA ClickCloseStopsDoes == ASSUME TypeOK, ClickCloseStops PROVE BoardStep
<1>1. LeavesSession("stale") /\ Selects(selected)
  BY DEF ClickCloseStops, CloseStops
<1>2. /\ selected' \in Issues \cup {None} /\ issues' \in [Issues -> IssueRecords]
      /\ \A i \in Issues : issues'[i].title = issues[i].title /\ issues'[i].status = issues[i].status
  BY <1>1, LeavesSessionDoes
<1>3. form' = form /\ clicked' = (clicked \/ form.kind = "Terminal") /\ phase' = phase
  BY DEF ClickCloseStops, Clicks
<1>4. TypeOK'
  BY <1>1, <1>2, <1>3 DEF TypeOK, IssueRecords, LeavesSession, viewVars
<1>5. FormStays
  BY <1>1, <1>2, <1>3 DEF FormStays, TypeOK, LeavesSession, viewVars
<1> QED
  BY <1>1, <1>2, <1>4, <1>5 DEF BoardStep, Reselects, FormStep, TitleStep

LEMMA CloseStopsKeyDoes ==
  ASSUME TypeOK, NEW kind, CloseStopsKey(kind)
  PROVE  BoardStep
<1>1. issues' = [issues EXCEPT ![selected].session = "stale"] /\ selected \in Issues
  BY DEF CloseStopsKey, CloseStops, LeavesSession, TypeOK
<1>2. issues' \in [Issues -> IssueRecords] /\ \A i \in Issues : issues'[i].title = issues[i].title
  BY <1>1 DEF TypeOK, IssueRecords
<1>3. /\ projects' = projects /\ edits' = edits /\ selected' = selected
      /\ project' = project /\ subview' = subview /\ filter' = filter
      /\ form' = Normal /\ phase' = "error" /\ clicked' = FALSE
  BY DEF CloseStopsKey, CloseStops, LeavesSession, Ends, Closes, viewVars
<1>4. TypeOK'
  BY <1>2, <1>3, FormsTyped DEF TypeOK, IssueRecords, FormRecords
<1> QED
  BY <1>2, <1>3, <1>4 DEF BoardStep, Reselects, FormStep, TitleStep, Normal

LEMMA DetachDoes == ASSUME TypeOK, Detach PROVE BoardStep
<1>1. selected' \in Issues \cup {None}
  BY SelectsListed DEF Detach
<1>2. TypeOK'
  BY <1>1, FormsTyped DEF TypeOK, FormRecords, Detach, boardVars, viewVars, Closes
<1> QED
  BY <1>2 DEF BoardStep, Reselects, FormStep, TitleStep, Detach, boardVars, Closes, Normal

LEMMA TerminalKeyDoes == ASSUME TypeOK, TerminalKey PROVE BoardStep
<1>1. selected' \in Issues \cup {None}
  BY SelectsListed DEF TerminalKey
<1>2. TypeOK'
  BY <1>1 DEF TypeOK, TerminalKey, boardVars, viewVars
<1>3. FormStays
  BY DEF FormStays, TerminalKey, boardVars, viewVars
<1> QED
  BY <1>2, <1>3 DEF BoardStep, Reselects, FormStep, TitleStep, TerminalKey, boardVars

-----------------------------------------------------------------------------
(* Normal mode and the mouse *)

LEMMA MoveSelectionDoes ==
  ASSUME TypeOK, NEW down \in BOOLEAN, MoveSelection(down)
  PROVE  BoardStep
<1>1. selected' \in Issues \cup {None}
  BY SelectsListed DEF MoveSelection
<1>2. project' \in Projects \cup {None}
  <2>1. project \in Projects \cup {None} /\ ProjectsSorted \in Seq(Projects)
    BY ProjectsListed DEF TypeOK
  <2>2. PICK q : q = ProjectsSorted
    OBVIOUS
  <2>3. Step(q, project, down) \in Projects \cup {project}
    BY <2>1, <2>2, StepInList
  <2> QED
    BY <2>1, <2>2, <2>3 DEF MoveSelection
<1>3. TypeOK'
  BY <1>1, <1>2 DEF TypeOK, MoveSelection, boardVars
<1>4. FormStays
  BY DEF FormStays, MoveSelection, InForm, boardVars
<1>5. Reselects
  BY DEF Reselects, MoveSelection
<1> QED
  BY <1>3, <1>4, <1>5 DEF BoardStep, FormStep, TitleStep, MoveSelection, boardVars

LEMMA SwitchSubviewDoes == ASSUME TypeOK, SwitchSubview PROVE BoardStep
<1>1. selected' \in Issues \cup {None}
  BY SelectsListed DEF SwitchSubview
<1>2. project' \in Projects \cup {None}
  BY ProjectsListed DEF SwitchSubview, TypeOK
<1>3. TypeOK'
  BY <1>1, <1>2 DEF TypeOK, SwitchSubview, boardVars
<1>4. FormStays
  BY DEF FormStays, SwitchSubview, InForm, boardVars
<1> QED
  BY <1>3, <1>4 DEF BoardStep, Reselects, FormStep, TitleStep, SwitchSubview, boardVars

(* A form is opened, by a key or by a button.                              *)
OpensForm(f) ==
  /\ Opens(f) /\ Selects(selected)
  /\ UNCHANGED <<boardVars, subview, filter, phase>>
  /\ project' = project \/ project' = EnsuredProject(project)

LEMMA OpensFormDoes ==
  ASSUME TypeOK, NEW f \in FormRecords, OpensForm(f),
         f.kind \notin {"EditIssue", "Terminal", "SelectIssueProject"}
           \/ (f = EditForm /\ selected # None)
  PROVE  BoardStep
<1>1. selected' \in Issues \cup {None}
  BY SelectsListed DEF OpensForm
<1>2. project' \in Projects \cup {None}
  BY ProjectsListed DEF OpensForm, TypeOK
<1>3. TypeOK'
  BY <1>1, <1>2 DEF TypeOK, FormRecords, OpensForm, Opens, boardVars
<1>4. FormStep
  BY DEF FormStep, OpensForm, Opens, boardVars
<1> QED
  BY <1>3, <1>4 DEF BoardStep, Reselects, TitleStep, OpensForm, boardVars

LEMMA FormKinds ==
  \A kind : Form(kind).kind = kind /\ PathForm(kind).kind = kind
BY DEF Form, PathForm, Normal

(* Every key and every button that opens a form.                           *)
LEMMA OpensDoes ==
  ASSUME TypeOK, OpenByKey \/ ClickOpens
  PROVE  BoardStep
<1>1. \E f : /\ OpensForm(f)
             /\ \/ \E kind \in {"MoveStatus", "SendInput", "AddComment", "Command", "Filter",
                                "DeleteIssueConfirm", "NewIssue", "NewProject"} : f = Form(kind)
                \/ \E kind \in {"SetProjectRepoPath", "SetIssueCwdOverride",
                                "SetProjectIdentifier"} : f = PathForm(kind)
                \/ f = EditForm /\ selected # None
  BY DEF OpensForm, OpenByKey, ClickOpens, OpenForm, ClickForm
<1>2. PICK f : /\ OpensForm(f)
               /\ \/ \E kind \in {"MoveStatus", "SendInput", "AddComment", "Command", "Filter",
                                  "DeleteIssueConfirm", "NewIssue", "NewProject"} : f = Form(kind)
                  \/ \E kind \in {"SetProjectRepoPath", "SetIssueCwdOverride",
                                  "SetProjectIdentifier"} : f = PathForm(kind)
                  \/ f = EditForm /\ selected # None
  BY <1>1
<1>3. f \in FormRecords
  BY <1>2, FormsTyped, KindsListed
<1>4. f.kind \notin {"EditIssue", "Terminal", "SelectIssueProject"} \/ (f = EditForm /\ selected # None)
  BY <1>2, FormKinds
<1> QED
  BY <1>2, <1>3, <1>4, OpensFormDoes

LEMMA QuitKeyDoes == ASSUME TypeOK, QuitKey PROVE BoardStep
<1>1. TypeOK'
  BY DEF TypeOK, QuitKey, boardVars, viewVars
<1> QED
  BY <1>1 DEF BoardStep, Reselects, FormStep, TitleStep, QuitKey, InForm, boardVars

LEMMA ClickIssueDoes ==
  ASSUME TypeOK, NEW i \in Issues, ClickIssue(i)
  PROVE  BoardStep
<1>1. selected' \in Issues \cup {None}
  BY SelectsListed DEF ClickIssue
<1>2. TypeOK'
  BY <1>1 DEF TypeOK, ClickIssue, Clicks, boardVars, viewVars
<1>3. FormStays
  BY DEF FormStays, ClickIssue, Clicks, TypeOK, boardVars, viewVars
<1>4. Reselects
  BY DEF Reselects, ClickIssue
<1> QED
  BY <1>2, <1>3, <1>4 DEF BoardStep, FormStep, TitleStep, ClickIssue, boardVars

LEMMA ClickProjectDoes ==
  ASSUME TypeOK, NEW q \in Projects, ClickProject(q)
  PROVE  BoardStep
<1>1. selected' \in Issues \cup {None}
  BY SelectsListed DEF ClickProject
<1>2. TypeOK'
  BY <1>1 DEF TypeOK, ClickProject, boardVars
<1>3. FormStays
  BY DEF FormStays, ClickProject, boardVars
<1> QED
  BY <1>2, <1>3 DEF BoardStep, Reselects, FormStep, TitleStep, ClickProject, boardVars

LEMMA ClickViewDoes ==
  ASSUME TypeOK, NEW v \in {"issues", "projects"}, ClickView(v)
  PROVE  BoardStep
<1>1. selected' \in Issues \cup {None}
  BY SelectsListed DEF ClickView
<1>2. project' \in Projects \cup {None}
  BY ProjectsListed DEF ClickView, TypeOK
<1>3. TypeOK'
  BY <1>1, <1>2 DEF TypeOK, ClickView, boardVars
<1>4. FormStays
  BY DEF FormStays, ClickView, boardVars
<1> QED
  BY <1>3, <1>4 DEF BoardStep, Reselects, FormStep, TitleStep, ClickView, boardVars

-----------------------------------------------------------------------------
(* All steps *)

PickerInRange == form.kind = "SelectIssueProject" => form.index <= Len(Options)

LEMMA NextDoes ==
  ASSUME TypeOK, PickerInRange, EditFormHasIssue, Next
  PROVE  BoardStep
<1>1. CASE Keys
  <2>1. CASE \E t \in {"empty", "wrong", "right"} : Typing(t)
    BY <2>1, TypingDoes
  <2>2. CASE \E down \in BOOLEAN : MoveSelection(down) \/ SelectProjectMove(down)
    <3>1. PICK down \in BOOLEAN : MoveSelection(down) \/ SelectProjectMove(down)
      BY <2>2
    <3>2. CASE MoveSelection(down)
      BY <3>2, MoveSelectionDoes
    <3>3. CASE SelectProjectMove(down)
      <4>1. form.index <= Len(Options)
        BY <3>3 DEF PickerInRange, SelectProjectMove, InForm
      <4> QED
        BY <3>3, <4>1, SelectProjectMoveDoes
    <3> QED
      BY <3>1, <3>2, <3>3
  <2>3. CASE \E qs \in SUBSET Projects : SelectProjectQuery(qs)
    BY <2>3, SelectProjectQueryDoes
  <2>4. CASE \E outcome \in Outcomes : EnterLaunches(outcome) \/ (InForm("Normal") /\ Launch(outcome))
    <3>1. PICK outcome \in Outcomes : Launch(outcome)
      BY <2>4 DEF EnterLaunches
    <3> QED
      BY <3>1, LaunchDoes
  <2>5. CASE Escape
    BY <2>5, EscapeDoes
  <2>6. CASE NewIssueTitle
    BY <2>6, NewIssueTitleDoes
  <2>7. CASE NewIssueDescription
    BY <2>7, NewIssueDescriptionDoes
  <2>8. CASE SendInputEnter
    BY <2>8, SendInputEnterDoes
  <2>9. CASE Focus
    BY <2>9, FocusDoes
  <2>10. CASE Detach
    BY <2>10, DetachDoes
  <2>11. CASE TerminalKey
    BY <2>11, TerminalKeyDoes
  <2>12. CASE SwitchSubview
    BY <2>12, SwitchSubviewDoes
  <2>13. CASE OpenByKey
    BY <2>13, OpensDoes
  <2>14. CASE QuitKey
    BY <2>14, QuitKeyDoes
  <2> QED
    BY <1>1, <2>1, <2>2, <2>3, <2>4, <2>5, <2>6, <2>7, <2>8, <2>9, <2>10, <2>11, <2>12,
       <2>13, <2>14 DEF Keys
<1>2. CASE Mouse
  <2>1. CASE \E i \in Issues : ClickIssue(i)
    BY <2>1, ClickIssueDoes
  <2>2. CASE \E q \in Projects : ClickProject(q)
    BY <2>2, ClickProjectDoes
  <2>3. CASE \E v \in {"issues", "projects"} : ClickView(v)
    BY <2>3, ClickViewDoes
  <2>4. CASE \E outcome \in Outcomes : ClickLaunch(outcome)
    BY <2>4, LaunchDoes DEF ClickLaunch
  <2>5. CASE ClickOpens
    BY <2>5, OpensDoes
  <2>6. CASE ClickClose
    <3>1. CloseSelected /\ phase' = "up"
      BY <2>6 DEF ClickClose, CloseSelected, LeavesSession
    <3> QED
      BY <3>1, CloseSelectedDoes
  <2>7. CASE ClickCloseStops
    BY <2>7, ClickCloseStopsDoes
  <2> QED
    BY <1>2, <2>1, <2>2, <2>3, <2>4, <2>5, <2>6, <2>7 DEF Mouse
<1>3. CASE Commands
  <2>1. CASE \E v \in {"issues", "projects"} : CommandView(v)
    BY <2>1, CommandViewDoes
  <2>2. CASE \E f \in Filters : FilterEnter(f) \/ CommandFilter(f)
    BY <2>2, FilterDoes
  <2>3. CASE \E q \in Projects : CommandProjectNew(q)
    BY <2>3, CommandProjectNewDoes
  <2>4. CASE \E q \in Projects \cup {None} : CommandAssign(q)
    BY <2>4, CommandAssignDoes
  <2> QED
    BY <1>3, <2>1, <2>2, <2>3, <2>4 DEF Commands
<1>4. CASE Refusals
  <2>1. \E kind, texts : \E stays \in BOOLEAN : kind # "SelectIssueProject" /\ Refuse(kind, texts, stays)
    BY <1>4 DEF Refusals
  <2> QED
    BY <2>1, RefuseDoes
<1>5. CASE Failures
  <2>1. \/ CloseStopsKey("DeleteIssueConfirm") \/ CloseStopsKey("Normal")
        \/ Ends /\ Closes /\ UNCHANGED <<boardVars, selected, viewVars>>
    BY <1>5 DEF Failures, SubmitFails, AddCommentFails, SetRepoPathFails, SetIssueCwdFails,
       TerminalKeyFails
  <2> QED
    BY <2>1, SubmitFailsDoes, CloseStopsKeyDoes
<1>6. CASE \E saved \in BOOLEAN : Submit(saved)
  <2>1. PICK saved \in BOOLEAN : Submit(saved)
    BY <1>6
  <2>2. CASE \E i \in Issues : SelectProjectEnter(i, saved)
    BY <2>2, SelectProjectEnterDoes
  <2>3. CASE EditIssueEnter(saved)
    BY <2>3, EditIssueEnterDoes
  <2>4. CASE AddCommentEnter(saved)
    BY <2>4, AddCommentEnterDoes
  <2>5. CASE DeleteConfirmed(saved)
    BY <2>5, DeleteConfirmedDoes
  <2>6. CASE \E n \in DOMAIN Statuses : MoveStatusDigit(n, saved)
    BY <2>6, MoveStatusDigitDoes
  <2>7. CASE SetRepoPathEnter(saved)
    BY <2>7, SetRepoPathEnterDoes
  <2>8. CASE SetIssueCwdEnter(saved)
    BY <2>8, SetIssueCwdEnterDoes
  <2>9. CASE \E q \in Projects : NewProjectEnter(q, saved)
    BY <2>9, NewProjectEnterDoes
  <2>10. CASE \E ok \in BOOLEAN : SetKeyEnter(ok, saved)
    BY <2>10, SetKeyEnterDoes
  <2>11. CASE CloseKey(saved)
    BY <2>11, CloseKeyDoes
  <2> QED
    BY <2>1, <2>2, <2>3, <2>4, <2>5, <2>6, <2>7, <2>8, <2>9, <2>10, <2>11 DEF Submit
<1> QED
  BY <1>1, <1>2, <1>3, <1>4, <1>5, <1>6 DEF Next

-----------------------------------------------------------------------------
(* The invariant *)

SelectionInList ==
  phase = "up" =>
    IF Listed(issues, filter) = {} THEN selected = None
                                   ELSE selected \in Listed(issues, filter)

(* The edit form shows the selected issue until a click has selected       *)
(* another one.                                                            *)
EditFormShowsSelection ==
  phase = "up" /\ form.kind = "EditIssue" /\ ~clicked => form.of = selected

IInv ==
  /\ TypeOK
  /\ SelectionInList
  /\ PickerInRange
  /\ EditFormHasIssue
  /\ EditFormShowsSelection
  /\ TerminalIsAttached

LEMMA InputBegins == Init => IInv
<1> SUFFICES ASSUME Init PROVE IInv
  OBVIOUS
<1>1. issues \in [Issues -> IssueRecords]
  <2>1. Statuses[1] \in StatusSet
    BY StatusesListed
  <2> DEFINE R == {[status |-> st, title |-> i, project |-> q, cwd |-> FALSE, session |-> s] :
                     st \in {"absent", Statuses[1], OtherStatus}, i \in Issues,
                     q \in {None} \cup Projects, s \in {"none", "stale"}}
  <2>2. issues \in [Issues -> R]
    BY DEF Init
  <2>3. ASSUME NEW r \in R PROVE r \in IssueRecords
    <3>1. PICK st \in {"absent", Statuses[1], OtherStatus}, i \in Issues,
               q \in {None} \cup Projects, s \in {"none", "stale"} :
               r = [status |-> st, title |-> i, project |-> q, cwd |-> FALSE, session |-> s]
      OBVIOUS
    <3> QED
      BY <2>1, <3>1 DEF IssueRecords
  <2> HIDE DEF R
  <2> QED
    BY <2>2, <2>3
<1>2. selected \in Issues \cup {None} /\ SelectionInList
  BY EnsuredListed DEF Init, SelectionInList
<1>3. Normal \in FormRecords
  <2>1. 0 \in 0..Cardinality(Projects)
    BY FS_CardinalityType, BoardInputAssumption
  <2> QED
    BY <2>1, KindsListed DEF Normal, FormRecords
<1>4. TypeOK
  <2>1. projects \in [Projects -> {"absent", "nopath", "path"}]
    BY DEF Init
  <2>2. form \in FormRecords /\ edits \in 0..MaxEdits /\ filter \in Filters
    BY <1>3, BoardInputAssumption DEF Init
  <2>3. project = None /\ subview = "issues" /\ phase = "up" /\ clicked = FALSE
    BY DEF Init
  <2> QED
    BY <1>1, <1>2, <2>1, <2>2, <2>3 DEF TypeOK, IssueRecords, FormRecords
<1>5. form.kind = "Normal"
  BY DEF Init, Normal
<1> QED
  BY <1>2, <1>4, <1>5
  DEF IInv, PickerInRange, EditFormHasIssue, EditFormShowsSelection, TerminalIsAttached

(* Events are handled while the application is up.                         *)
LEMMA NextNeedsUp == Next => phase = "up"
BY DEF Next, Keys, Mouse, Commands, Refusals, Failures, Submit, InForm, Typing, Escape,
    Refuse,
   SubmitFails, NewIssueTitle, NewIssueDescription, SelectProjectQuery, SelectProjectMove,
   SelectProjectEnter, EditIssueEnter, AddCommentEnter, AddCommentFails, SendInputEnter,
   MoveStatusDigit, DeleteConfirmed, SetRepoPathEnter, SetRepoPathFails, SetIssueCwdEnter,
   SetIssueCwdFails, NewProjectEnter, SetKeyEnter, FilterEnter, CommandView, CommandFilter,
   CommandProjectNew, CommandAssign, Launch, Focus, EnterLaunches, LeavesSession, CloseSelected,
   CloseStops, CloseStopsKey, ClickCloseStops, Detach, TerminalKey, TerminalKeyFails, MoveSelection, SwitchSubview, OpenForm, OpenByKey,
   QuitKey, ClickIssue, ClickProject, ClickForm, ClickOpens, ClickView, ClickLaunch, ClickClose,
   CloseKey

(* A selection that is still listed stays.                                 *)
LEMMA ListedStays ==
  ASSUME Selects(selected), selected \in Listed(issues', filter')
  PROVE  selected' = selected
BY EnsuredListed DEF Selects

LEMMA SameStatusesListed ==
  ASSUME NEW is, NEW js, NEW f, \A i \in Issues : js[i].status = is[i].status
  PROVE  Listed(js, f) = Listed(is, f)
BY DEF Listed, Exists, Passes

LEMMA LaunchedIsLive ==
  ASSUME TypeOK, selected \in Issues
  PROVE  /\ Launching("launched")[selected].status = InProgress
         /\ Launching("launched")[selected].session = "live"
BY DEF Launching, TypeOK

LEMMA InputGoesOn == ASSUME IInv, Next PROVE IInv'
<1>1. phase = "up"
  BY NextNeedsUp
<1>2. TypeOK /\ BoardStep
  BY NextDoes DEF IInv
<1>3. TypeOK' /\ Reselects /\ FormStep
  BY <1>2 DEF BoardStep
<1>4. SelectionInList'
  <2> SUFFICES ASSUME phase' = "up"
               PROVE  IF Listed(issues', filter') = {} THEN selected' = None
                                                       ELSE selected' \in Listed(issues', filter')
    BY DEF SelectionInList
  <2>1. PICK sel : Selects(sel)
    BY <1>3 DEF Reselects
  <2> QED
    BY <2>1, EnsuredListed DEF Selects
<1>5. /\ selected # None => selected \in Listed(issues, filter)
      /\ None \notin Issues
  BY <1>1, BoardInputAssumption DEF IInv, SelectionInList
<1>6. CASE form'.kind \notin {"EditIssue", "Terminal", "SelectIssueProject"}
  BY <1>3, <1>4, <1>6
  DEF IInv, PickerInRange, EditFormHasIssue, EditFormShowsSelection, TerminalIsAttached
<1>7. CASE form'.kind = "SelectIssueProject" /\ form'.index = 0
  <2>1. PickerInRange'
    <3>1. Len(Options)' \in Nat
      <4>1. {q \in form'.query : projects'[q] # "absent"} \in SUBSET Projects
        BY <1>3 DEF TypeOK
      <4>2. Len(Ordered({q \in form'.query : projects'[q] # "absent"}, ProjectOrder)) \in Nat
        BY <4>1, SomeProjectsListed, FS_CardinalityType, BoardInputAssumption
      <4> QED
        BY <4>2 DEF Options
    <3> QED
      BY <1>7, <3>1 DEF PickerInRange
  <2> QED
    BY <1>3, <1>4, <1>7, <2>1
    DEF IInv, EditFormHasIssue, EditFormShowsSelection, TerminalIsAttached
<1>8. CASE \E down \in BOOLEAN : SelectProjectMove(down)
  <2>1. PICK down \in BOOLEAN : SelectProjectMove(down)
    BY <1>8
  <2>2. form.index <= Len(Options) /\ form.kind = "SelectIssueProject"
    BY <2>1 DEF SelectProjectMove, InForm, IInv, PickerInRange
  <2>3. form'.index <= Len(Options)
    BY <1>2, <2>1, <2>2, SelectProjectMoveDoes
  <2>4. /\ form'.kind = "SelectIssueProject" /\ form'.query = form.query
        /\ projects' = projects
    BY <1>2, <2>1, <2>2 DEF SelectProjectMove, TypeOK, boardVars
  <2>5. Options' = Options
    BY <2>4 DEF Options
  <2>6. PickerInRange'
    BY <2>3, <2>5 DEF PickerInRange
  <2> QED
    BY <1>3, <1>4, <2>4, <2>6
    DEF IInv, EditFormHasIssue, EditFormShowsSelection, TerminalIsAttached
<1>9. CASE FormStays
  <2>1. PickerInRange'
    <3> SUFFICES ASSUME form'.kind = "SelectIssueProject" PROVE form'.index <= Len(Options)'
      BY DEF PickerInRange
    <3>1. form' = form /\ projects' = projects /\ form.kind = "SelectIssueProject"
      BY <1>9 DEF FormStays
    <3>2. Options' = Options
      BY <3>1 DEF Options
    <3> QED
      BY <3>1, <3>2 DEF IInv, PickerInRange
  <2>2. EditFormHasIssue'
    BY <1>9 DEF IInv, EditFormHasIssue, FormStays
  <2>3. EditFormShowsSelection'
    <3> SUFFICES ASSUME form'.kind = "EditIssue", ~clicked' PROVE form'.of = selected'
      BY DEF EditFormShowsSelection
    <3>1. /\ form.kind = "EditIssue" /\ form'.of = form.of /\ ~clicked
          /\ Selects(selected) /\ filter' = filter
          /\ \A i \in Issues : issues'[i].status = issues[i].status
      BY <1>9 DEF FormStays
    <3>2. form.of = selected /\ selected # None
      BY <1>1, <3>1 DEF IInv, EditFormShowsSelection, EditFormHasIssue
    <3>3. Listed(issues', filter') = Listed(issues, filter)
      BY <3>1, SameStatusesListed
    <3> QED
      BY <1>5, <3>1, <3>2, <3>3, ListedStays
  <2>4. TerminalIsAttached'
    <3> SUFFICES ASSUME form'.kind = "Terminal", ~clicked', filter' = None PROVE CanType'
      BY DEF TerminalIsAttached
    <3>1. /\ form.kind = "Terminal" /\ ~clicked /\ Selects(selected) /\ filter = None
          /\ issues' = issues /\ filter' = filter
      BY <1>9 DEF FormStays
    <3>2. CanType /\ selected # None
      BY <1>1, <3>1 DEF IInv, TerminalIsAttached, CanType, SelectedSession
    <3>3. selected' = selected
      BY <1>5, <3>1, <3>2, ListedStays
    <3> QED
      BY <3>1, <3>2, <3>3 DEF CanType, SelectedSession
  <2> QED
    BY <1>3, <1>4, <2>1, <2>2, <2>3, <2>4 DEF IInv
<1>10. CASE /\ selected # None /\ Opens(EditForm) /\ Selects(selected)
            /\ issues' = issues /\ filter' = filter
  <2>1. selected' = selected
    BY <1>5, <1>10, ListedStays
  <2>2. form'.kind = "EditIssue" /\ form'.of = selected
    BY <1>10 DEF Opens, EditForm, Form, Normal
  <2> QED
    BY <1>3, <1>4, <1>10, <2>1, <2>2
    DEF IInv, PickerInRange, EditFormHasIssue, EditFormShowsSelection, TerminalIsAttached
<1>11. CASE /\ Opens(Form("Terminal")) /\ Selects(selected) /\ filter' = filter /\ selected # None
            /\ issues' = Launching("launched") \/ (CanType /\ issues' = issues)
  <2>1. form'.kind = "Terminal"
    BY <1>11 DEF Opens, Form, Normal
  <2>2. TerminalIsAttached'
    <3> SUFFICES ASSUME filter' = None PROVE CanType'
      BY DEF TerminalIsAttached
    <3>1. selected \in Issues /\ selected \in Listed(issues, filter)
      BY <1>2, <1>5, <1>11 DEF TypeOK
    <3>2. CASE issues' = Launching("launched")
      <4>1. issues'[selected].status = InProgress /\ issues'[selected].session = "live"
        BY <1>2, <3>1, <3>2, LaunchedIsLive
      <4>2. InProgress \notin {"absent", "deleted"}
        BY BoardInputAssumption
      <4>3. selected \in Listed(issues', filter')
        BY <3>1, <4>1, <4>2 DEF Listed, Exists, Passes
      <4>4. selected' = selected
        BY <1>11, <4>3, ListedStays
      <4> QED
        BY <1>11, <4>1, <4>4 DEF CanType, SelectedSession
    <3>3. CASE CanType /\ issues' = issues
      <4>1. selected' = selected
        BY <1>11, <3>1, <3>3, ListedStays
      <4> QED
        BY <3>3, <4>1 DEF CanType, SelectedSession
    <3> QED
      BY <1>11, <3>2, <3>3
  <2> QED
    BY <1>3, <1>4, <2>1, <2>2
    DEF IInv, PickerInRange, EditFormHasIssue, EditFormShowsSelection
<1> QED
  BY <1>3, <1>6, <1>7, <1>8, <1>9, <1>10, <1>11 DEF FormStep

LEMMA InputHolds == Spec => []IInv
<1>1. IInv /\ UNCHANGED vars => IInv'
  <2> SUFFICES ASSUME IInv, UNCHANGED vars PROVE IInv'
    OBVIOUS
  <2>1. /\ issues' = issues /\ projects' = projects /\ edits' = edits /\ selected' = selected
        /\ project' = project /\ subview' = subview /\ filter' = filter
        /\ form' = form /\ phase' = phase /\ clicked' = clicked
    BY DEF vars, boardVars, viewVars
  <2>2. TypeOK'
    BY <2>1 DEF IInv, TypeOK
  <2>3. PickerInRange'
    BY <2>1 DEF IInv, PickerInRange, Options
  <2>4. SelectionInList' /\ EditFormHasIssue' /\ EditFormShowsSelection'
    BY <2>1 DEF IInv, SelectionInList, EditFormHasIssue, EditFormShowsSelection
  <2>5. TerminalIsAttached'
    BY <2>1 DEF IInv, TerminalIsAttached, CanType, SelectedSession
  <2> QED
    BY <2>2, <2>3, <2>4, <2>5 DEF IInv
<1>2. IInv /\ Next => IInv'
  BY InputGoesOn
<1> QED
  BY <1>1, <1>2, InputBegins, PTL DEF Spec

(* Whenever an event is handled, an issue is selected exactly if the list  *)
(* has any, and it is one of the list; and the index of the project picker *)
(* points at one of its entries.                                           *)
THEOREM SelectionIsAlwaysListed == Spec => []SelectionIsListed
<1>1. IInv => SelectionIsListed
  BY DEF IInv, SelectionIsListed, SelectionInList, PickerInRange
<1> QED
  BY <1>1, InputHolds, PTL

(* While the terminal is attached, the selected issue has a session in the *)
(* manager's table, and typing ends the application only if the write      *)
(* fails; unless something was done with the mouse meanwhile or the list   *)
(* is filtered.                                                            *)
THEOREM TerminalStaysAttached == Spec => []TerminalIsAttached
<1>1. IInv => TerminalIsAttached
  BY DEF IInv
<1> QED
  BY <1>1, InputHolds, PTL

(* An edit form is saved into the issue whose title it shows, unless a     *)
(* click has selected another one since the form was opened.               *)
THEOREM EditsReachTheirIssue == Spec => EditsStayWithTheirIssue
<1> DEFINE A == \A i \in Issues : issues[i].title = i /\ issues'[i].title # i => clicked
<1>1. IInv /\ Next => A
  <2> SUFFICES ASSUME IInv, Next, NEW i \in Issues,
                      issues[i].title = i, issues'[i].title # i, ~clicked
               PROVE  FALSE
    OBVIOUS
  <2>1. TypeOK /\ TitleStep /\ phase = "up"
    BY NextDoes, NextNeedsUp DEF IInv, BoardStep
  <2>2. /\ form.kind = "EditIssue" /\ selected # None
        /\ issues' = [issues EXCEPT ![selected].title = issues[form.of].title]
    BY <2>1 DEF TitleStep
  <2>3. form.of = selected
    BY <2>1, <2>2 DEF IInv, EditFormShowsSelection
  <2> QED
    BY <2>1, <2>2, <2>3 DEF TypeOK
<1>2. UNCHANGED vars => A
  BY DEF vars, boardVars
<1>3. IInv /\ [Next]_vars => [A]_vars
  BY <1>1, <1>2
<1> HIDE DEF A
<1>4. Spec => [][A]_vars
  BY <1>3, InputHolds, PTL DEF Spec
<1> QED
  BY <1>4 DEF EditsStayWithTheirIssue, A

-----------------------------------------------------------------------------
(* Rows *)

(* The issues of the first k columns, and where an issue is drawn.         *)
UpTo(k) == {i \in Listed(issues, filter) : Rank(issues[i].status) <= k}
Place(i) == Rank(issues[i].status) + Cardinality(IssuesAbove(i)) + 1

LEMMA ColumnsAdd ==
  ASSUME NEW k \in DOMAIN Statuses
  PROVE  /\ InColumn(Statuses[k]) = {i \in Listed(issues, filter) : Rank(issues[i].status) = k}
         /\ UpTo(k) = UpTo(k - 1) \cup InColumn(Statuses[k])
         /\ UpTo(k - 1) \cap InColumn(Statuses[k]) = {}
         /\ Cardinality(UpTo(k)) = Cardinality(UpTo(k - 1)) + Cardinality(InColumn(Statuses[k]))
         /\ Cardinality(UpTo(k - 1)) \in Nat /\ Cardinality(InColumn(Statuses[k])) \in Nat
<1>1. k \in Nat /\ k \in 1..Len(Statuses)
  BY StatusesListed
<1>2. ASSUME NEW i \in Listed(issues, filter)
      PROVE  issues[i].status = Statuses[k] <=> Rank(issues[i].status) = k
  <2>1. issues[i].status = Statuses[k] => Rank(issues[i].status) = k
    BY RankOfColumn
  <2>2. ASSUME Rank(issues[i].status) = k PROVE issues[i].status = Statuses[k]
    <3>1. issues[i].status \in StatusSet
      BY <1>1, <2>2, RankOfColumn, StatusesListed
    <3> QED
      BY <2>2, <3>1, RankOfColumn
  <2> QED
    BY <2>1, <2>2
<1>3. InColumn(Statuses[k]) = {i \in Listed(issues, filter) : Rank(issues[i].status) = k}
  BY <1>2 DEF InColumn
<1>4. \A i \in Listed(issues, filter) : Rank(issues[i].status) \in Nat
  BY RankOfColumn
<1>5. /\ UpTo(k) = UpTo(k - 1) \cup InColumn(Statuses[k])
      /\ UpTo(k - 1) \cap InColumn(Statuses[k]) = {}
  <2>1. \A i \in Listed(issues, filter) :
          /\ Rank(issues[i].status) <= k <=> Rank(issues[i].status) <= k - 1 \/ Rank(issues[i].status) = k
          /\ ~(Rank(issues[i].status) <= k - 1 /\ Rank(issues[i].status) = k)
    BY <1>1, <1>4
  <2> QED
    BY <1>3, <2>1 DEF UpTo
<1>6. IsFiniteSet(UpTo(k - 1)) /\ IsFiniteSet(InColumn(Statuses[k]))
  <2>1. UpTo(k - 1) \in SUBSET Issues /\ InColumn(Statuses[k]) \in SUBSET Issues
    BY DEF UpTo, InColumn, Listed
  <2> QED
    BY <2>1, FS_Subset, BoardInputAssumption
<1>7. /\ Cardinality(UpTo(k - 1)) \in Nat /\ Cardinality(InColumn(Statuses[k])) \in Nat
  BY <1>6, FS_CardinalityType
<1>8. Cardinality(UpTo(k)) = Cardinality(UpTo(k - 1)) + Cardinality(InColumn(Statuses[k]))
  <2>1. Cardinality(UpTo(k - 1) \cup InColumn(Statuses[k])) =
          Cardinality(UpTo(k - 1)) + Cardinality(InColumn(Statuses[k])) - Cardinality({})
    BY <1>5, <1>6, FS_Union
  <2> QED
    BY <1>5, <1>7, <2>1, FS_EmptySet
<1> QED
  BY <1>3, <1>5, <1>7, <1>8

(* Above an issue are the columns before its own and, in its column, the   *)
(* issues before it.                                                       *)
LEMMA PlaceInColumn ==
  ASSUME NEW k \in DOMAIN Statuses, NEW i \in InColumn(Statuses[k])
  PROVE  /\ i \in Issues
         /\ Cardinality(Below(InColumn(Statuses[k]), IssueOrder(issues), i)) \in Nat
         /\ Place(i) = k + Cardinality(UpTo(k - 1))
                         + Cardinality(Below(InColumn(Statuses[k]), IssueOrder(issues), i)) + 1
<1> DEFINE C == InColumn(Statuses[k])
           b == Below(C, IssueOrder(issues), i)
<1>1. k \in Nat /\ i \in Listed(issues, filter) /\ i \in Issues /\ Rank(issues[i].status) = k
  BY StatusesListed, ColumnsAdd DEF Listed
<1>2. IssuesAbove(i) = UpTo(k - 1) \cup b /\ UpTo(k - 1) \cap b = {}
  <2>1. \A j \in Listed(issues, filter) :
          /\ j \in Issues /\ Rank(issues[j].status) \in Nat
          /\ Rank(issues[j].status) < k <=> Rank(issues[j].status) <= k - 1
    BY <1>1, RankOfColumn DEF Listed
  <2>2. C = {j \in Listed(issues, filter) : Rank(issues[j].status) = k}
    BY ColumnsAdd
  <2>3. b = {j \in Listed(issues, filter) : Rank(issues[j].status) = k /\ j < i}
    BY <1>1, <2>1, <2>2 DEF Below, IssueOrder, Before
  <2>4. IssuesAbove(i) = {j \in Listed(issues, filter) :
          Rank(issues[j].status) < k \/ (Rank(issues[j].status) = k /\ j < i)}
    BY <1>1 DEF IssuesAbove, Before
  <2> QED
    BY <1>1, <2>1, <2>3, <2>4 DEF UpTo
<1>3. IsFiniteSet(UpTo(k - 1)) /\ IsFiniteSet(b)
  <2>1. UpTo(k - 1) \in SUBSET Issues /\ b \in SUBSET Issues
    BY DEF UpTo, InColumn, Listed, Below
  <2> HIDE DEF b
  <2> QED
    BY <2>1, FS_Subset, BoardInputAssumption
<1>4. Cardinality(UpTo(k - 1)) \in Nat /\ Cardinality(b) \in Nat
  BY <1>3, FS_CardinalityType
<1>5. Cardinality(IssuesAbove(i)) = Cardinality(UpTo(k - 1)) + Cardinality(b)
  <2> HIDE DEF b
  <2>1. Cardinality(UpTo(k - 1) \cup b) = Cardinality(UpTo(k - 1)) + Cardinality(b) - Cardinality({})
    BY <1>2, <1>3, FS_Union
  <2> QED
    BY <1>2, <1>4, <2>1, FS_EmptySet
<1> QED
  BY <1>1, <1>4, <1>5 DEF Place

(* d shows the issues of the first k columns, each in its place.           *)
Placed(d, k) ==
  /\ d \in Seq(Nat) /\ Len(d) = k + Cardinality(UpTo(k))
  /\ \A i \in UpTo(k) : Place(i) \in DOMAIN d
  /\ \A n \in DOMAIN d, i \in Issues : d[n] = i <=> i \in UpTo(k) /\ Place(i) = n

LEMMA SeqOfSubset == ASSUME NEW S, NEW T \in SUBSET S, NEW q \in Seq(T) PROVE q \in Seq(S)
OBVIOUS

LEMMA ColumnIs ==
  ASSUME NEW st
  PROVE  /\ Column(st) \in Seq(Nat) /\ Len(Column(st)) = Cardinality(InColumn(st)) + 1
         /\ Column(st)[1] = 0
         /\ \A m \in 1..Cardinality(InColumn(st)), i \in Issues :
              Column(st)[m + 1] = i <=>
                i \in InColumn(st) /\ Cardinality(Below(InColumn(st), IssueOrder(issues), i)) + 1 = m
<1> DEFINE C == InColumn(st)
           R == IssueOrder(issues)
<1>1. C \in SUBSET Issues
  BY DEF InColumn, Listed
<1> HIDE DEF C
<1>2. IsFiniteSet(C) /\ TotalOrder(C, R)
  BY <1>1, BeforeIsOrder
<1> HIDE DEF R
<1>3. PICK q : q = Ordered(C, R)
  OBVIOUS
<1>4. Lists(q, C, R)
  BY <1>2, <1>3, OrderedLists
<1>5. Cardinality(C) \in Nat
  BY <1>2, FS_CardinalityType
<1>6. q \in Seq(C) /\ Len(q) = Cardinality(C)
  BY <1>4 DEF Lists
<1>7. q \in Seq(Nat)
  <2>1. C \in SUBSET Nat
    BY <1>1, BoardInputAssumption
  <2> QED
    BY <1>6, <2>1, SeqOfSubset
<1>8. PICK z \in Seq(Nat) : z = <<0>> /\ Len(z) = 1 /\ z[1] = 0
  <2>1. <<0>> \in Seq(Nat) /\ Len(<<0>>) = 1 /\ <<0>>[1] = 0
    OBVIOUS
  <2> QED
    BY <2>1
<1>9. Column(st) = z \o q
  BY <1>3, <1>8 DEF Column, C, R
<1>10. /\ z \o q \in Seq(Nat) /\ Len(z \o q) = Cardinality(C) + 1 /\ (z \o q)[1] = 0
       /\ \A m \in 1..Cardinality(C) : (z \o q)[m + 1] = q[m]
  BY <1>5, <1>6, <1>7, <1>8
<1>11. ASSUME NEW m \in 1..Cardinality(C), NEW i \in Issues
       PROVE  q[m] = i <=> i \in C /\ Cardinality(Below(C, R, i)) + 1 = m
  <2>1. q[m] \in C /\ Cardinality(Below(C, R, q[m])) = m - 1
    BY <1>4 DEF Lists
  <2>2. i \in C => q[Cardinality(Below(C, R, i)) + 1] = i
    BY <1>2, <1>4, ListsAll
  <2>3. m \in Nat
    BY <1>5
  <2> QED
    BY <2>1, <2>2, <2>3
<1>12. \A m \in 1..Cardinality(C), i \in Issues :
         (z \o q)[m + 1] = i <=> i \in C /\ Cardinality(Below(C, R, i)) + 1 = m
  BY <1>10, <1>11
<1> QED
  BY <1>9, <1>10, <1>12 DEF C, R

(* One column more.                                                        *)
LEMMA ColumnPlaced ==
  ASSUME NEW k \in DOMAIN Statuses, NEW d, Placed(d, k - 1)
  PROVE  Placed(d \o Column(Statuses[k]), k)
<1> DEFINE C == InColumn(Statuses[k])
           R == IssueOrder(issues)
           b(i) == Cardinality(Below(C, R, i))
<1>1. PICK u : u = Cardinality(UpTo(k - 1))
  OBVIOUS
<1>2. PICK c : c = Cardinality(C)
  OBVIOUS
<1>3. PICK q : q = Column(Statuses[k])
  OBVIOUS
<1>4. /\ k \in Nat /\ k >= 1 /\ u \in Nat /\ c \in Nat
      /\ Cardinality(UpTo(k)) = u + c
      /\ UpTo(k) = UpTo(k - 1) \cup C /\ UpTo(k - 1) \cap C = {} /\ UpTo(k) \subseteq Issues
  <2>1. UpTo(k) \subseteq Issues
    BY DEF UpTo, Listed
  <2>2. k \in Nat /\ k >= 1
    BY StatusesListed
  <2> QED
    BY <1>1, <1>2, <2>1, <2>2, ColumnsAdd
<1>5. /\ d \in Seq(Nat) /\ Len(d) = k - 1 + u
      /\ \A i \in UpTo(k - 1) : Place(i) \in DOMAIN d
      /\ \A n \in DOMAIN d, i \in Issues : d[n] = i <=> i \in UpTo(k - 1) /\ Place(i) = n
  BY <1>1 DEF Placed
<1>6. /\ q \in Seq(Nat) /\ Len(q) = c + 1 /\ q[1] = 0
      /\ \A m \in 1..c, i \in Issues : q[m + 1] = i <=> i \in C /\ b(i) + 1 = m
  BY <1>2, <1>3, ColumnIs
<1>7. \A i \in C : i \in Issues /\ b(i) \in Nat /\ b(i) < c /\ Place(i) = k + u + b(i) + 1
  <2> TAKE i \in C
  <2>1. i \in Issues /\ b(i) \in Nat /\ Place(i) = k + u + b(i) + 1
    BY <1>1, PlaceInColumn
  <2>2. C \in SUBSET Issues
    BY DEF InColumn, Listed
  <2>3. IsFiniteSet(C) /\ TotalOrder(C, R)
    BY <2>2, BeforeIsOrder
  <2> HIDE DEF C, R
  <2>4. b(i) \in 0..c - 1
    BY <1>2, <2>3, BelowGrows
  <2> QED
    BY <1>4, <2>1, <2>4
<1> HIDE DEF C, R, b
<1> DEFINE e == d \o q
<1>8. /\ e \in Seq(Nat) /\ Len(e) = k + (u + c)
      /\ \A n \in 1..Len(d) : e[n] = d[n]
      /\ \A m \in 1..c + 1 : e[Len(d) + m] = q[m]
  <2>1. /\ d \o q \in Seq(Nat) /\ Len(d \o q) = Len(d) + Len(q)
        /\ \A n \in 1..Len(d) : (d \o q)[n] = d[n]
        /\ \A m \in 1..Len(q) : (d \o q)[Len(d) + m] = q[m]
    <3>1. d \in Seq(Nat) /\ q \in Seq(Nat)
      BY <1>5, <1>6
    <3> QED
      BY <3>1
  <2>2. Len(d) + Len(q) = k + (u + c)
    <3>1. k \in Nat /\ u \in Nat /\ c \in Nat
      BY <1>4
    <3>2. Len(d) = k - 1 + u
      BY <1>5
    <3>3. Len(q) = c + 1
      BY <1>6
    <3> HIDE DEF e
    <3> QED
      BY <3>1, <3>2, <3>3
  <2>3. \A m \in 1..c + 1 : m \in 1..Len(q)
    BY <1>6
  <2>4. e = d \o q
    OBVIOUS
  <2> HIDE DEF e
  <2> QED
    BY <2>1, <2>2, <2>3, <2>4
<1> HIDE DEF e
<1>9. DOMAIN d = 1..k - 1 + u /\ DOMAIN e = 1..k + (u + c)
  BY <1>4, <1>5, <1>8
<1>10. ASSUME NEW i \in UpTo(k) PROVE Place(i) \in DOMAIN e
  <2>1. CASE i \in UpTo(k - 1)
    BY <1>4, <1>5, <1>9, <2>1
  <2>2. CASE i \in C
    <3>1. b(i) \in Nat /\ b(i) < c /\ Place(i) = k + u + b(i) + 1
      BY <1>7, <2>2
    <3> QED
      BY <1>4, <1>9, <3>1
  <2> QED
    BY <1>4, <2>1, <2>2
<1>11. ASSUME NEW n \in DOMAIN e, NEW i \in Issues
       PROVE  e[n] = i <=> i \in UpTo(k) /\ Place(i) = n
  <2>1. n \in Nat
    BY <1>9
  <2>2. i \in UpTo(k - 1) => Place(i) \in 1..k - 1 + u
    BY <1>5, <1>9
  <2>3. CASE n \in 1..k - 1 + u
    <3>1. e[n] = i <=> i \in UpTo(k - 1) /\ Place(i) = n
      BY <1>5, <1>8, <1>9, <2>3
    <3>2. i \in C => Place(i) # n
      <4>1. i \in C => b(i) \in Nat /\ Place(i) = k + u + b(i) + 1
        BY <1>7
      <4> QED
        BY <1>4, <2>3, <4>1
    <3> QED
      BY <1>4, <3>1, <3>2
  <2>4. CASE n = k + u
    <3>1. e[n] = 0
      <4>1. 1 \in 1..c + 1 /\ n = Len(d) + 1
        BY <1>4, <1>5, <2>4
      <4> QED
        BY <1>6, <1>8, <4>1
    <3>2. i # 0
      BY BoardInputAssumption
    <3>3. i \in C => Place(i) # n
      <4>1. i \in C => b(i) \in Nat /\ Place(i) = k + u + b(i) + 1
        BY <1>7
      <4> QED
        BY <1>4, <2>4, <4>1
    <3>4. i \in UpTo(k - 1) => Place(i) # n
      BY <1>4, <2>2, <2>4
    <3> QED
      BY <1>4, <3>1, <3>2, <3>3, <3>4
  <2>5. CASE n > k + u
    <3>1. PICK m \in 1..c : n = k + u + m
      <4>1. n - (k + u) \in 1..c /\ n = k + u + (n - (k + u))
        BY <1>4, <1>9, <2>1, <2>5
      <4> QED
        BY <4>1
    <3>2. e[n] = q[m + 1]
      <4>1. m + 1 \in 1..c + 1 /\ Len(d) + (m + 1) = n
        BY <1>4, <1>5, <3>1
      <4> QED
        BY <1>8, <4>1
    <3>3. e[n] = i <=> i \in C /\ b(i) + 1 = m
      BY <1>6, <3>2
    <3>4. i \in C => b(i) \in Nat /\ Place(i) = k + u + b(i) + 1
      BY <1>7
    <3>5. i \in C => (b(i) + 1 = m <=> Place(i) = n)
      <4> SUFFICES ASSUME i \in C PROVE b(i) + 1 = m <=> Place(i) = n
        OBVIOUS
      <4>1. b(i) \in Nat /\ Place(i) = k + u + b(i) + 1
        BY <3>4
      <4> QED
        BY <1>4, <3>1, <4>1
    <3>6. i \in UpTo(k - 1) => Place(i) # n
      BY <1>4, <2>2, <2>5
    <3> QED
      BY <1>4, <3>3, <3>5, <3>6
  <2> QED
    BY <1>4, <1>9, <2>1, <2>3, <2>4, <2>5
<1>12. Placed(e, k)
  BY <1>4, <1>8, <1>10, <1>11 DEF Placed
<1> QED
  BY <1>3, <1>12 DEF e

(* Drawn is drawn column by column.                                        *)
IsDrawn(t) ==
  t = [n \in 0..Len(Statuses) |-> IF n = 0 THEN <<>> ELSE t[n - 1] \o Column(Statuses[n])]

LEMMA DrawnRuns == \E t : IsDrawn(t) /\ Drawn = t[Len(Statuses)]
<1> DEFINE N == Len(Statuses)
           U == Seq(Nat)
           none == <<>>
           F == [k \in 1..N |-> [d \in U |-> d \o Column(Statuses[k])]]
           u == CHOOSE u : IsDrawn(u)
<1>0. N \in Nat /\ none \in U /\ DOMAIN Statuses = 1..N
  BY StatusesListed
<1>1. \A k \in 1..N, d \in U : d \o Column(Statuses[k]) \in U
  <2> TAKE k \in 1..N, d \in U
  <2>1. PICK q : q = Column(Statuses[k])
    OBVIOUS
  <2>2. q \in Seq(Nat)
    BY <2>1, ColumnIs
  <2>3. d \o q \in Seq(Nat)
    BY <2>2
  <2> QED
    BY <2>1, <2>3
<1> HIDE DEF U, N, none
<1>2. F \in [1..N -> [U -> U]] /\ \A k \in 1..N, d \in U : F[k][d] = d \o Column(Statuses[k])
  BY <1>1
<1> HIDE DEF F
<1>3. PICK t \in [0..N -> U] : t[0] = none /\ \A k \in 1..N : t[k] = F[k][t[k - 1]]
  <2>1. F \in [1..N -> [U -> U]]
    BY <1>2
  <2> QED
    BY <1>0, <2>1, Recursion
<1>4. ASSUME NEW k \in 0..N
      PROVE  t[k] = IF k = 0 THEN none ELSE t[k - 1] \o Column(Statuses[k])
  <2>1. k # 0 => k \in 1..N /\ k - 1 \in 0..N
    BY <1>0
  <2> QED
    BY <1>2, <1>3, <2>1
<1>5. IsDrawn(t)
  <2>1. t = [k \in 0..N |-> IF k = 0 THEN none ELSE t[k - 1] \o Column(Statuses[k])]
    BY <1>4
  <2> QED
    BY <2>1 DEF IsDrawn, N, none
<1>6. IsDrawn(u)
  BY <1>5
<1>7. Drawn = u[N]
  BY DEF Drawn, IsDrawn, N
<1> QED
  BY <1>6, <1>7 DEF N

LEMMA DrawnPlaced == Placed(Drawn, Len(Statuses))
<1>1. PICK t : IsDrawn(t) /\ Drawn = t[Len(Statuses)]
  BY DrawnRuns
<1>2. Len(Statuses) \in Nat /\ DOMAIN Statuses = 1..Len(Statuses)
  BY StatusesListed
<1>3. PICK none : none = <<>>
  OBVIOUS
<1>4. \A k \in 0..Len(Statuses) : t[k] = IF k = 0 THEN none ELSE t[k - 1] \o Column(Statuses[k])
  BY <1>1, <1>3 DEF IsDrawn
<1>5. Placed(none, 0)
  <2>1. UpTo(0) = {}
    <3>1. \A i \in Listed(issues, filter) : Rank(issues[i].status) \in 1..Len(Statuses) + 1
      BY RankOfColumn
    <3> QED
      BY <1>2, <3>1 DEF UpTo
  <2>2. none \in Seq(Nat) /\ Len(none) = 0 /\ DOMAIN none = {}
    BY <1>3
  <2> QED
    BY <2>1, <2>2, FS_EmptySet DEF Placed
<1> DEFINE Bad == {k \in 0..Len(Statuses) : ~Placed(t[k], k)}
<1>6. SUFFICES ASSUME Bad # {} PROVE FALSE
  <2>1. Len(Statuses) \in 0..Len(Statuses)
    BY <1>2
  <2>2. Bad = {} => Placed(t[Len(Statuses)], Len(Statuses))
    BY <2>1
  <2> QED
    BY <1>1, <2>2
<1>7. Bad \in SUBSET Nat
  OBVIOUS
<1>8. PICK k \in Bad : \A j \in Bad : k <= j
  BY <1>6, <1>7, LeastNumber
<1>9. k \in 0..Len(Statuses) /\ ~Placed(t[k], k)
  OBVIOUS
<1>10. k # 0
  <2>1. t[0] = none
    BY <1>2, <1>4
  <2> QED
    BY <1>5, <1>9, <2>1
<1>11. k \in DOMAIN Statuses /\ k - 1 \in 0..Len(Statuses) /\ ~(k <= k - 1)
  BY <1>2, <1>9, <1>10
<1>12. Placed(t[k - 1], k - 1)
  BY <1>8, <1>11
<1>13. Placed(t[k - 1] \o Column(Statuses[k]), k)
  BY <1>11, <1>12, ColumnPlaced
<1> QED
  BY <1>4, <1>9, <1>10, <1>13

LEMMA RowsAreDrawn == ClickHitsWhatIsDrawn
<1>1. PICK d : d = Drawn
  OBVIOUS
<1>2. PICK N : N = Len(Statuses)
  OBVIOUS
<1>3. N \in Nat
  BY <1>2, StatusesListed
<1>4. /\ d \in Seq(Nat)
      /\ \A i \in UpTo(N) : Place(i) \in DOMAIN d
      /\ \A n \in DOMAIN d, i \in Issues : d[n] = i <=> i \in UpTo(N) /\ Place(i) = n
  BY <1>1, <1>2, DrawnPlaced DEF Placed
<1>5. Clickable = UpTo(N) /\ Clickable \subseteq Issues
  <2>1. ASSUME NEW i \in Listed(issues, filter)
        PROVE  issues[i].status \in StatusSet <=> Rank(issues[i].status) <= N
    BY <1>2, <1>3, RankOfColumn, StatusesListed
  <2> QED
    BY <2>1 DEF Clickable, UpTo, Listed
<1>6. \A i \in Clickable : RowOf(i) = BoardStartY + Place(i) - 1 /\ Place(i) \in Nat
  <2> TAKE i \in Clickable
  <2>1. Rank(issues[i].status) \in Nat
    BY RankOfColumn
  <2>2. IssuesAbove(i) \in SUBSET Issues
    BY DEF IssuesAbove, Listed
  <2>3. Cardinality(IssuesAbove(i)) \in Nat
    BY <2>2, FS_Subset, FS_CardinalityType, BoardInputAssumption
  <2> QED
    BY <2>1, <2>3 DEF RowOf, Place, BoardStartY
<1> DEFINE rows == [i \in Clickable |-> RowOf(i)]
<1>7. ASSUME NEW n \in 1..Len(d) + 1
      PROVE  {i \in Clickable : rows[i] = BoardStartY + n - 1} =
               {i \in Issues : n \in DOMAIN d /\ d[n] = i}
  <2>1. n \in Nat /\ DOMAIN d = 1..Len(d) /\ Len(d) \in Nat
    BY <1>4
  <2>2. \A i \in Clickable : rows[i] = BoardStartY + n - 1 <=> Place(i) = n
    BY <1>6, <2>1 DEF BoardStartY
  <2>3. \A i \in Clickable : Place(i) = n => n \in DOMAIN d
    BY <1>4, <1>5
  <2>4. \A i \in Issues : n \in DOMAIN d /\ d[n] = i <=> i \in Clickable /\ Place(i) = n
    BY <1>4, <1>5, <2>3
  <2> QED
    BY <1>5, <2>2, <2>4
<1> QED
  BY <1>1, <1>7 DEF ClickHitsWhatIsDrawn

(* A click selects the issue that the frame shows in that row, and rows    *)
(* without an issue select nothing.                                        *)
THEOREM ClicksHitWhatIsDrawn == Spec => []ClickHitsWhatIsDrawn
BY RowsAreDrawn, PTL

=============================================================================
