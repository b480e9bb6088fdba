----------------------------- MODULE ApiTicketsProofs -----------------------------
(***************************************************************************)
(* Proofs about tickets, for any number of projects, issues and comments   *)
(* and for every snapshot an older version may have left: two issues never *)
(* have the same identifier, an identifier never changes unrecorded, the   *)
(* records of moves are chains with a comment for each, and a listing      *)
(* followed to its end has missed nothing.                                 *)
(***************************************************************************)
EXTENDS ApiTickets, FiniteSetTheorems, FunctionTheorems, SequenceTheorems, TLAPS

-----------------------------------------------------------------------------
(* Least and greatest elements *)

LEMMA LeastNumber ==
  ASSUME NEW T \in SUBSET Nat, T # {}
  PROVE  \E n \in T : \A m \in T : n <= m
<1> DEFINE R == OpToRel(<, Nat)
<1>1. IsWellFoundedOn(R, Nat)
  BY NatLessThanWellFounded
<1>2. PICK n \in T : \A m \in T : ~(<<m, n>> \in R)
  <2> HIDE DEF R
  <2> QED BY <1>1, WFMin
<1>3. \A m \in T : ~(m < n)
  BY <1>2 DEF OpToRel
<1> QED
  BY <1>3

LEMMA HighestIs ==
  ASSUME NEW S \in SUBSET Nat, S # {},
         NEW bound \in Nat, \A n \in S : n <= bound
  PROVE  /\ Highest(S) \in S
         /\ \A n \in S : n <= Highest(S)
<1> DEFINE U == {n \in Nat : \A m \in S : m <= n}
<1>1. PICK u \in U : \A n \in U : u <= n
  <2>1. bound \in U
    OBVIOUS
  <2>2. U \in SUBSET Nat
    OBVIOUS
  <2> HIDE DEF U
  <2> QED BY <2>1, <2>2, LeastNumber
<1>2. u \in S
  <2> SUFFICES ASSUME u \notin S PROVE FALSE
    OBVIOUS
  <2>1. \A m \in S : m < u
    BY <1>1
  <2>2. u > 0
    <3>1. PICK m \in S : TRUE
      OBVIOUS
    <3> QED
      BY <2>1, <3>1
  <2>3. u - 1 \in U
    BY <2>1, <2>2
  <2> QED
    BY <1>1, <2>2, <2>3
<1>3. \E n \in S : \A m \in S : m <= n
  BY <1>1, <1>2
<1> QED
  BY <1>3 DEF Highest

-----------------------------------------------------------------------------
(* Keys *)

(* A new key is valid and not taken. *)
LEMMA DedupeIs ==
  ASSUME NEW base \in Keys, NEW taken, HasVariant(base, taken)
  PROVE  /\ Dedupe(base, taken) \in Keys
         /\ Dedupe(base, taken) \notin taken
<1> DEFINE Free(n) == Variants[base][n] \notin taken
           First(n) == Free(n) /\ \A m \in 1..(n - 1) : ~Free(m)
           F == {n \in DOMAIN Variants[base] : Free(n)}
<1>1. /\ Variants[base] \in Seq(Keys)
      /\ DOMAIN Variants[base] = 1..Len(Variants[base])
      /\ Len(Variants[base]) \in Nat
  BY TicketsAssumption
<1>2. F \in SUBSET Nat /\ F # {}
  BY <1>1 DEF HasVariant
<1>3. PICK n \in F : \A m \in F : n <= m
  <2> HIDE DEF F
  <2> QED BY <1>2, LeastNumber
<1>4. n \in DOMAIN Variants[base] /\ First(n)
  BY <1>1, <1>3
<1>5. DEFINE c == CHOOSE k \in DOMAIN Variants[base] : First(k)
<1>6. c \in DOMAIN Variants[base] /\ First(c)
  <2> HIDE DEF First
  <2> QED BY <1>4
<1>7. Dedupe(base, taken) = Variants[base][c]
  BY DEF Dedupe
<1> QED
  BY <1>1, <1>6, <1>7

(* A key that is not taken is its own first variant. *)
LEMMA DedupeKeeps ==
  ASSUME NEW base \in Keys, NEW taken, base \notin taken
  PROVE  Dedupe(base, taken) = base
<1> DEFINE Free(n) == Variants[base][n] \notin taken
           First(n) == Free(n) /\ \A m \in 1..(n - 1) : ~Free(m)
<1>1. /\ Variants[base] \in Seq(Keys)
      /\ DOMAIN Variants[base] = 1..Len(Variants[base])
      /\ Len(Variants[base]) \in Nat
      /\ Variants[base] # <<>>
      /\ Variants[base][1] = base
  BY TicketsAssumption
<1>2. 1 \in DOMAIN Variants[base] /\ First(1)
  BY <1>1
<1>3. \A n \in DOMAIN Variants[base] : First(n) => n = 1
  BY <1>1, <1>2
<1>4. (CHOOSE n \in DOMAIN Variants[base] : First(n)) = 1
  <2> HIDE DEF First
  <2> QED BY <1>2, <1>3
<1> QED
  BY <1>1, <1>4 DEF Dedupe

(* The base keys of stored projects are valid. *)
LEMMA BaseKeyIsKey ==
  ASSUME NEW project, project.name \in Names
  PROVE  BaseKey(project) \in Keys
BY TicketsAssumption DEF BaseKey

(* Loading gives different projects different keys. *)
LEMMA NormalKeysDiffer ==
  ASSUME NEW stored, NEW key, NormalKeys(stored, key),
         DOMAIN stored \subseteq Projects,
         \A p \in DOMAIN stored : stored[p].name \in Names
  PROVE  \A p, q \in DOMAIN stored : p # q => key[p] # key[q]
<1>0. \A p, q \in DOMAIN stored : p # q => p < q \/ q < p
  <2>1. DOMAIN stored \subseteq Nat
    BY TicketsAssumption
  <2> QED BY <2>1
<1> SUFFICES ASSUME NEW p \in DOMAIN stored, NEW q \in DOMAIN stored, q < p
             PROVE  key[p] # key[q]
  BY <1>0
<1> DEFINE taken == {key[r] : r \in {r \in DOMAIN stored : r < p}}
<1>1. HasVariant(BaseKey(stored[p]), taken) /\ key[p] = Dedupe(BaseKey(stored[p]), taken)
  BY DEF NormalKeys
<1>2. key[q] \in taken
  OBVIOUS
<1>3. BaseKey(stored[p]) \in Keys
  BY BaseKeyIsKey
<1> HIDE DEF taken
<1> QED
  BY <1>1, <1>2, <1>3, DedupeIs

(* Loading leaves keys alone that are valid and different already. *)
LEMMA NormalKeysKeep ==
  ASSUME NEW stored, NEW key, NormalKeys(stored, key),
         DOMAIN stored \subseteq Projects,
         \A p \in DOMAIN stored : stored[p].key \in Keys,
         \A p, q \in DOMAIN stored : p # q => stored[p].key # stored[q].key
  PROVE  \A p \in DOMAIN stored : key[p] = stored[p].key
<1> DEFINE Moved == {p \in DOMAIN stored : key[p] # stored[p].key}
<1> SUFFICES ASSUME Moved # {} PROVE FALSE
  OBVIOUS
<1>1. Moved \in SUBSET Nat
  BY TicketsAssumption
<1>2. PICK p \in Moved : \A q \in Moved : p <= q
  <2> HIDE DEF Moved
  <2> QED BY <1>1, LeastNumber
<1> DEFINE taken == {key[q] : q \in {q \in DOMAIN stored : q < p}}
<1>3. \A q \in DOMAIN stored : q < p => key[q] = stored[q].key
  <2> SUFFICES ASSUME NEW q \in DOMAIN stored, q < p, q \in Moved PROVE FALSE
    OBVIOUS
  <2>1. p \in Nat /\ q \in Nat
    BY <1>1, <1>2
  <2>2. p <= q
    BY <1>2
  <2> QED
    BY <2>1, <2>2
<1>4. stored[p].key \notin taken
  BY <1>2, <1>3, TicketsAssumption
<1>5. key[p] = Dedupe(stored[p].key, taken)
  BY <1>2 DEF NormalKeys, BaseKey
<1>6. stored[p].key \in Keys
  BY <1>2
<1>7. key[p] = stored[p].key
  <2> HIDE DEF taken
  <2> QED BY <1>4, <1>5, <1>6, DedupeKeeps
<1> QED
  BY <1>2, <1>7

-----------------------------------------------------------------------------
(* The invariant: IdentifiersUnique, strengthened by what a step needs.    *)
(* Numbers have to differ within a project, and to be bounded, so that     *)
(* there is a highest.                                                     *)

ProjectsInOrder(ps) ==
  /\ DOMAIN ps \subseteq Projects
  /\ ps \in [DOMAIN ps -> [name : Names, key : Keys]]
  /\ \A p, q \in DOMAIN ps : p # q => ps[p].key # ps[q].key

IssueInOrder(ps, issue) ==
  \/ issue = AdHoc
  \/ \E p \in DOMAIN ps, n \in Nat \ {0} :
       issue = [project |-> p, number |-> n, identifier |-> <<ps[p].key, n>>]

NumbersDiffer(is) ==
  \A i, j \in DOMAIN is :
    i # j /\ is[i].project = is[j].project /\ is[i].project # None
      => is[i].number # is[j].number

NumbersBounded(is) == \E b \in Nat : \A i \in DOMAIN is : is[i].number <= b

InOrder(ps, is) ==
  /\ ProjectsInOrder(ps)
  /\ DOMAIN is \subseteq Issues
  /\ is = [i \in DOMAIN is |-> is[i]]
  /\ \A i \in DOMAIN is : IssueInOrder(ps, is[i])
  /\ NumbersDiffer(is)
  /\ NumbersBounded(is)

IInv == InOrder(projects, issues)

LEMMA InvariantImplies == IInv => IdentifiersUnique
<1> SUFFICES ASSUME IInv PROVE IdentifiersUnique
  OBVIOUS
<1>0. \A i \in DOMAIN issues : issues[i].project # None =>
        /\ issues[i].project \in DOMAIN projects
        /\ issues[i].number \in Nat \ {0}
        /\ issues[i].identifier = <<projects[issues[i].project].key, issues[i].number>>
  BY DEF IInv, InOrder, IssueInOrder, AdHoc
<1>1. ASSUME NEW i \in DOMAIN issues, NEW j \in DOMAIN issues,
             i # j, issues[i].project # None,
             issues[i].identifier = issues[j].identifier
      PROVE  FALSE
  <2>1. CASE issues[j].project = None
    <3>1. issues[j].identifier = None
      BY <2>1, TicketsAssumption DEF IInv, InOrder, IssueInOrder, AdHoc, ProjectsInOrder
    <3>2. issues[i].identifier \in Keys \X Nat
      <4>1. \A p \in DOMAIN projects : projects[p].key \in Keys
        BY DEF IInv, InOrder, ProjectsInOrder
      <4>2. issues[i].project \in DOMAIN projects /\ issues[i].number \in Nat
        BY <1>0, <1>1
      <4>3. projects[issues[i].project].key \in Keys
        BY <4>1, <4>2
      <4>4. <<projects[issues[i].project].key, issues[i].number>> \in Keys \X Nat
        BY <4>2, <4>3
      <4> QED
        BY <1>0, <1>1, <4>4
    <3> QED
      BY <1>1, <3>1, <3>2, TicketsAssumption
  <2>2. CASE issues[j].project # None
    <3>1. /\ projects[issues[i].project].key = projects[issues[j].project].key
          /\ issues[i].number = issues[j].number
      BY <1>0, <1>1, <2>2
    <3>2. issues[i].project = issues[j].project
      BY <1>0, <1>1, <2>2, <3>1 DEF IInv, InOrder, ProjectsInOrder
    <3> QED
      BY <1>1, <3>1, <3>2 DEF IInv, InOrder, NumbersDiffer
  <2> QED
    BY <2>1, <2>2
<1> QED
  BY <1>0, <1>1 DEF IdentifiersUnique, IInv, InOrder, ProjectsInOrder

(* The next number is higher than those in use. *)
LEMMA NextNumberIs ==
  ASSUME IInv, NEW p
  PROVE  /\ NextNumber(p) \in Nat \ {0}
         /\ \A i \in IssuesOf(p) : issues[i].number < NextNumber(p)
<1> DEFINE S == {issues[i].number : i \in IssuesOf(p)} \cup {0}
<1>1. S \in SUBSET Nat /\ S # {}
  BY DEF IInv, InOrder, IssueInOrder, AdHoc, IssuesOf
<1>2. PICK b \in Nat : \A n \in S : n <= b
  BY DEF IInv, InOrder, NumbersBounded, IssuesOf
<1>3. Highest(S) \in Nat /\ \A n \in S : n <= Highest(S)
  <2> HIDE DEF S
  <2> QED BY <1>1, <1>2, HighestIs
<1>4. NextNumber(p) = Highest(S) + 1
  BY DEF NextNumber
<1>5. \A i \in IssuesOf(p) : issues[i].number \in S
  OBVIOUS
<1>6. ASSUME NEW i \in IssuesOf(p)
      PROVE  issues[i].number < Highest(S) + 1
  <2>1. issues[i].number \in Nat /\ issues[i].number <= Highest(S)
    <3> HIDE DEF S
    <3> QED BY <1>1, <1>3, <1>5
  <2> QED
    BY <1>3, <2>1
<1>7. Highest(S) + 1 \in Nat \ {0}
  BY <1>3
<1> HIDE DEF S
<1> QED
  BY <1>4, <1>6, <1>7

-----------------------------------------------------------------------------
(* Loading *)

(* What is loaded is in order if the stored numbers are: projects exist    *)
(* and no two issues of one have the same number.                          *)
LEMMA LoadedInOrder ==
  ASSUME NEW stored, NEW tickets, NEW key,
         NormalKeys(stored, key),
         DOMAIN stored \subseteq Projects,
         \A p \in DOMAIN stored : stored[p].name \in Names,
         DOMAIN key = DOMAIN stored,
         DOMAIN tickets \subseteq Issues,
         \A i \in DOMAIN tickets : tickets[i].project \in DOMAIN stored \cup {None},
         \A i \in DOMAIN tickets : tickets[i].number \in Nat,
         NEW b \in Nat, \A i \in DOMAIN tickets : tickets[i].number <= b,
         \A i, j \in DOMAIN tickets :
           i # j /\ tickets[i].project = tickets[j].project
                 /\ tickets[i].project # None /\ tickets[i].number # 0
             => tickets[i].number # tickets[j].number
  PROVE  /\ \A i \in DOMAIN tickets : NormalNumber(tickets, i) \in Nat \ {0}
         /\ \E c \in Nat : \A i \in DOMAIN tickets : NormalNumber(tickets, i) <= c
         /\ \A i, j \in DOMAIN tickets :
              i # j /\ tickets[i].project = tickets[j].project
                    /\ tickets[i].project # None
                => NormalNumber(tickets, i) # NormalNumber(tickets, j)
<1> DEFINE Without(i) == Unnumbered(tickets, i)
           High(i) == Highest(StoredNumbers(tickets, i))
           Rank(i) == Cardinality(Without(i))
<1>0. \A i \in DOMAIN tickets : i \in Nat
  BY TicketsAssumption
<1>1. \A i \in DOMAIN tickets :
        /\ High(i) \in Nat /\ High(i) <= b
        /\ \A j \in Siblings(tickets, i) : tickets[j].number <= High(i)
  <2> TAKE i \in DOMAIN tickets
  <2> DEFINE S == StoredNumbers(tickets, i)
  <2>1. S \in SUBSET Nat /\ S # {} /\ \A n \in S : n <= b
    BY DEF StoredNumbers, Siblings
  <2>2. Highest(S) \in S /\ \A n \in S : n <= Highest(S)
    <3> HIDE DEF S
    <3> QED BY <2>1, HighestIs
  <2>3. \A j \in Siblings(tickets, i) : tickets[j].number \in S
    BY DEF StoredNumbers
  <2> HIDE DEF S
  <2> QED
    BY <2>1, <2>2, <2>3 DEF S
<1>2. \A i \in DOMAIN tickets : IsFiniteSet(Without(i)) /\ Rank(i) \in Nat
                                  /\ Rank(i) <= Cardinality(Issues)
  <2> TAKE i \in DOMAIN tickets
  <2>1. Without(i) \in SUBSET Issues
    BY DEF Unnumbered, Siblings
  <2> HIDE DEF Without
  <2> QED
    BY <2>1, FS_Subset, FS_CardinalityType, TicketsAssumption
<1>3. \A i \in DOMAIN tickets : tickets[i].number = 0 => Rank(i) > 0
  <2> SUFFICES ASSUME NEW i \in DOMAIN tickets, tickets[i].number = 0
               PROVE  Rank(i) > 0
    OBVIOUS
  <2>1. i \in Without(i)
    BY <1>0 DEF Unnumbered, Siblings
  <2>2. IsFiniteSet(Without(i)) /\ Rank(i) \in Nat
    BY <1>2
  <2> HIDE DEF Without
  <2>3. Cardinality(Without(i)) # 0
    BY <2>1, <2>2, FS_EmptySet
  <2> QED
    BY <2>2, <2>3
<1>4. ASSUME NEW i \in DOMAIN tickets, NEW j \in DOMAIN tickets,
             i < j, tickets[i].project = tickets[j].project,
             tickets[i].number = 0, tickets[j].number = 0
      PROVE  Rank(i) # Rank(j)
  <2>2. Without(i) \in SUBSET Without(j) /\ j \in Without(j) /\ j \notin Without(i)
    BY <1>0, <1>4 DEF Unnumbered, Siblings
  <2>3. IsFiniteSet(Without(j))
    BY <1>2
  <2> HIDE DEF Without
  <2> QED
    BY <2>2, <2>3, FS_Subset
<1>5. \A i \in DOMAIN tickets :
        NormalNumber(tickets, i) =
          IF tickets[i].number # 0 THEN tickets[i].number ELSE High(i) + Rank(i)
  BY DEF NormalNumber
<1> HIDE DEF High, Rank
<1>6. \A i \in DOMAIN tickets : NormalNumber(tickets, i) \in Nat \ {0}
  BY <1>1, <1>2, <1>3, <1>5
<1>7. \E c \in Nat : \A i \in DOMAIN tickets : NormalNumber(tickets, i) <= c
  <2>1. Cardinality(Issues) \in Nat
    BY FS_CardinalityType, TicketsAssumption
  <2>2. ASSUME NEW i \in DOMAIN tickets
        PROVE  NormalNumber(tickets, i) <= b + Cardinality(Issues)
    <3>1. /\ High(i) \in Nat /\ High(i) <= b
          /\ Rank(i) \in Nat /\ Rank(i) <= Cardinality(Issues)
          /\ tickets[i].number \in Nat /\ tickets[i].number <= b
      BY <1>1, <1>2
    <3> QED
      BY <1>5, <2>1, <3>1
  <2>3. b + Cardinality(Issues) \in Nat
    BY <2>1
  <2> QED
    BY <2>2, <2>3
<1>8. ASSUME NEW i \in DOMAIN tickets, NEW j \in DOMAIN tickets,
             i # j, tickets[i].project = tickets[j].project, tickets[i].project # None
      PROVE  NormalNumber(tickets, i) # NormalNumber(tickets, j)
  <2>0. /\ High(i) = High(j)
        /\ i \in Siblings(tickets, j) /\ j \in Siblings(tickets, i)
    BY <1>8 DEF High, StoredNumbers, Siblings
  <2>1. CASE tickets[i].number # 0 /\ tickets[j].number # 0
    BY <1>5, <1>8, <2>1
  <2>2. CASE tickets[i].number # 0 /\ tickets[j].number = 0
    <3>1. /\ tickets[i].number \in Nat /\ tickets[i].number <= High(j)
          /\ High(j) \in Nat /\ Rank(j) \in Nat /\ Rank(j) > 0
      BY <1>1, <1>2, <1>3, <2>0, <2>2
    <3> QED
      BY <1>5, <2>2, <3>1
  <2>3. CASE tickets[i].number = 0 /\ tickets[j].number # 0
    <3>1. /\ tickets[j].number \in Nat /\ tickets[j].number <= High(i)
          /\ High(i) \in Nat /\ Rank(i) \in Nat /\ Rank(i) > 0
      BY <1>1, <1>2, <1>3, <2>0, <2>3
    <3> QED
      BY <1>5, <2>3, <3>1
  <2>4. CASE tickets[i].number = 0 /\ tickets[j].number = 0
    <3>1. i < j \/ j < i
      BY <1>0, <1>8
    <3>2. Rank(i) # Rank(j)
      BY <1>4, <1>8, <2>4, <3>1
    <3>3. High(i) \in Nat /\ Rank(i) \in Nat /\ Rank(j) \in Nat
      BY <1>1, <1>2
    <3> QED
      BY <1>5, <2>0, <2>4, <3>2, <3>3
  <2> QED
    BY <2>1, <2>2, <2>3, <2>4
<1> QED
  BY <1>6, <1>7, <1>8


(* What loading makes of stored projects and issues is in order.           *)
LEMMA LoadedIsInOrder ==
  ASSUME NEW stored, NEW tickets, NEW ps \in ProjectTable, NEW is,
         Loaded(stored, tickets, ps, is),
         DOMAIN tickets \subseteq Issues,
         \A i \in DOMAIN tickets :
           /\ tickets[i].project \in DOMAIN stored \cup {None}
           /\ tickets[i].number \in Nat,
         NEW b \in Nat, \A i \in DOMAIN tickets : tickets[i].number <= b,
         \A i, j \in DOMAIN tickets :
           i # j /\ tickets[i].project = tickets[j].project
                 /\ tickets[i].project # None /\ tickets[i].number # 0
             => tickets[i].number # tickets[j].number
  PROVE  InOrder(ps, is)
<1> DEFINE key == [p \in DOMAIN ps |-> ps[p].key]
<1>1. /\ DOMAIN ps \subseteq Projects
      /\ ps \in [DOMAIN ps -> [name : Names, key : Keys]]
      /\ DOMAIN key = DOMAIN ps
  BY DEF ProjectTable
<1>2. /\ DOMAIN ps = DOMAIN stored
      /\ NormalKeys(stored, key)
      /\ \A p \in DOMAIN stored : stored[p].name = ps[p].name
      /\ is = [i \in DOMAIN tickets |-> NormalIssue(tickets, key, i)]
  BY DEF Loaded
<1>3. \A p \in DOMAIN stored : stored[p].name \in Names
  BY <1>1, <1>2
<1>4. \A p, q \in DOMAIN ps : key[p] # key[q] <=> ps[p].key # ps[q].key
  OBVIOUS
<1> HIDE DEF key
<1>5. \A p, q \in DOMAIN stored : p # q => key[p] # key[q]
  BY <1>1, <1>2, <1>3, NormalKeysDiffer
<1>6. ProjectsInOrder(ps)
  BY <1>1, <1>2, <1>4, <1>5 DEF ProjectsInOrder
<1>7. /\ \A i \in DOMAIN tickets : NormalNumber(tickets, i) \in Nat \ {0}
      /\ \E c \in Nat : \A i \in DOMAIN tickets : NormalNumber(tickets, i) <= c
      /\ \A i, j \in DOMAIN tickets :
           i # j /\ tickets[i].project = tickets[j].project
                 /\ tickets[i].project # None
             => NormalNumber(tickets, i) # NormalNumber(tickets, j)
  BY <1>1, <1>2, <1>3, LoadedInOrder
<1>8. \A i \in DOMAIN tickets :
        /\ tickets[i].project = None => is[i] = AdHoc
        /\ tickets[i].project # None =>
             is[i] = [project |-> tickets[i].project,
                      number |-> NormalNumber(tickets, i),
                      identifier |-> <<key[tickets[i].project], NormalNumber(tickets, i)>>]
  <2>1. None \notin DOMAIN key
    BY <1>1, TicketsAssumption
  <2> QED
    BY <1>1, <1>2, <2>1 DEF NormalIssue, AdHoc
<1>9. DOMAIN is = DOMAIN tickets
  BY <1>2
<1>10. \A p \in DOMAIN ps : key[p] = ps[p].key
  BY DEF key
<1>11. \A i \in DOMAIN is : IssueInOrder(ps, is[i])
  BY <1>2, <1>7, <1>8, <1>9, <1>10 DEF IssueInOrder
<1>12. \A i \in DOMAIN is : is[i].project = tickets[i].project
  BY <1>8, <1>9 DEF AdHoc
<1>13. NumbersDiffer(is)
  BY <1>7, <1>8, <1>9, <1>12 DEF NumbersDiffer
<1>14. NumbersBounded(is)
  <2>1. PICK c \in Nat : \A i \in DOMAIN tickets : NormalNumber(tickets, i) <= c
    BY <1>7
  <2>2. \A i \in DOMAIN is : is[i].number <= c
    BY <1>8, <1>9, <2>1 DEF AdHoc
  <2> QED
    BY <2>2 DEF NumbersBounded
<1> QED
  BY <1>2, <1>6, <1>9, <1>11, <1>13, <1>14 DEF InOrder

LEMMA InitInOrder == Init => IInv
<1> SUFFICES ASSUME Init PROVE IInv
  OBVIOUS
<1>1. PICK ps \in OldProjects : \E is \in OldIssues(DOMAIN ps) :
        projects \in ProjectTable /\ Loaded(ps, is, projects, issues)
  BY DEF Init
<1>2. PICK is \in OldIssues(DOMAIN ps) :
        projects \in ProjectTable /\ Loaded(ps, is, projects, issues)
  BY <1>1
<1>3. Cardinality(Issues) \in Nat
  BY FS_CardinalityType, TicketsAssumption
<1>4. /\ DOMAIN is \subseteq Issues
      /\ \A i \in DOMAIN is : /\ is[i].project \in DOMAIN ps \cup {None}
                              /\ is[i].number \in 0..Cardinality(Issues)
      /\ \A i \in DOMAIN is : is[i].project = None => is[i].number = 0
      /\ \A i, j \in DOMAIN is :
           i # j /\ is[i].project = is[j].project /\ is[i].number # 0
             => is[i].number # is[j].number
  BY DEF OldIssues
<1>5. \A i \in DOMAIN is : is[i].number \in Nat /\ is[i].number <= Cardinality(Issues)
  BY <1>3, <1>4
<1>6. InOrder(projects, issues)
  BY <1>2, <1>3, <1>4, <1>5, LoadedIsInOrder
<1> QED
  BY <1>6 DEF IInv

(* Loading what is in order already changes nothing.                       *)
LEMMA ReloadKeeps ==
  ASSUME IInv, Reload
  PROVE  projects' = projects /\ issues' = issues
<1> DEFINE key == [p \in DOMAIN projects' |-> projects'[p].key]
<1>1. /\ projects' \in [DOMAIN projects' -> [name : Names, key : Keys]]
      /\ DOMAIN projects' = DOMAIN projects
      /\ NormalKeys(projects, key)
      /\ \A p \in DOMAIN projects : projects'[p].name = projects[p].name
      /\ issues' = [i \in DOMAIN issues |-> NormalIssue(issues, key, i)]
  BY DEF Reload, Loaded, ProjectTable
<1>2. /\ DOMAIN projects \subseteq Projects
      /\ projects \in [DOMAIN projects -> [name : Names, key : Keys]]
      /\ \A p \in DOMAIN projects : projects[p].key \in Keys
      /\ \A p, q \in DOMAIN projects : p # q => projects[p].key # projects[q].key
  BY DEF IInv, InOrder, ProjectsInOrder
<1>3. \A p \in DOMAIN projects : key[p] = projects'[p].key
  BY <1>1
<1>4. DOMAIN key = DOMAIN projects
  BY <1>1
<1> HIDE DEF key
<1>5. \A p \in DOMAIN projects : key[p] = projects[p].key
  BY <1>1, <1>2, NormalKeysKeep
<1>6. projects' = projects
  <2>1. \A p \in DOMAIN projects : projects'[p] = projects[p]
    BY <1>1, <1>2, <1>3, <1>5
  <2> QED
    BY <1>1, <1>2, <2>1
<1>7. ASSUME NEW i \in DOMAIN issues
      PROVE  NormalIssue(issues, key, i) = issues[i]
  <2>1. CASE issues[i] = AdHoc
    <3>1. None \notin DOMAIN key
      BY <1>2, <1>4, TicketsAssumption
    <3> QED
      BY <2>1, <3>1 DEF NormalIssue, AdHoc
  <2>2. CASE issues[i] # AdHoc
    <3>1. PICK p \in DOMAIN projects, n \in Nat \ {0} :
            issues[i] = [project |-> p, number |-> n,
                         identifier |-> <<projects[p].key, n>>]
      BY <2>2 DEF IInv, InOrder, IssueInOrder
    <3>2. p \in DOMAIN key /\ key[p] = projects[p].key
      BY <1>4, <1>5
    <3>3. NormalNumber(issues, i) = n
      BY <3>1 DEF NormalNumber
    <3> QED
      BY <3>1, <3>2, <3>3 DEF NormalIssue
  <2> QED
    BY <2>1, <2>2
<1>8. issues = [i \in DOMAIN issues |-> issues[i]]
  BY DEF IInv, InOrder
<1> QED
  BY <1>1, <1>6, <1>7, <1>8

-----------------------------------------------------------------------------
(* The steps *)

LEMMA ProjectStepInOrder == IInv /\ ProjectStep => IInv'
<1> SUFFICES ASSUME IInv, ProjectStep PROVE InOrder(projects', issues')
  BY DEF IInv
<1> USE DEF IInv, InOrder
<1>1. ASSUME NEW p \in Projects, NEW name \in Names, ProjectCreate(p, name)
      PROVE  InOrder(projects', issues')
  <2> DEFINE k == Dedupe(DeriveKey[name], KeysInUse)
  <2>1. k \in Keys /\ k \notin KeysInUse
    <3>1. DeriveKey[name] \in Keys
      BY TicketsAssumption
    <3> QED
      BY <1>1, <3>1, DedupeIs DEF ProjectCreate
  <2>2. /\ p \notin DOMAIN projects
        /\ projects' = With(projects, p, [name |-> name, key |-> k])
        /\ issues' = issues
    BY <1>1 DEF ProjectCreate
  <2> HIDE DEF k
  <2>3. /\ DOMAIN projects' = DOMAIN projects \cup {p}
        /\ projects'[p] = [name |-> name, key |-> k]
        /\ \A q \in DOMAIN projects : projects'[q] = projects[q]
    BY <2>2 DEF With
  <2>4. \A q \in DOMAIN projects : projects[q].key # k
    BY <2>1 DEF KeysInUse
  <2>5. ProjectsInOrder(projects')
    <3>1. projects' \in [DOMAIN projects' -> [name : Names, key : Keys]]
      BY <2>1, <2>2, <2>3 DEF With, ProjectsInOrder
    <3> QED
      BY <2>1, <2>3, <2>4, <3>1 DEF ProjectsInOrder
  <2>6. \A i \in DOMAIN issues : IssueInOrder(projects', issues[i])
    BY <2>3 DEF IssueInOrder
  <2> QED
    BY <2>2, <2>5, <2>6
<1>2. ASSUME NEW p \in Projects, NEW key \in Keys, ProjectSetIdentifier(p, key)
      PROVE  InOrder(projects', issues')
  <2>1. /\ IssuesOf(p) = {}
        /\ \A q \in DOMAIN projects \ {p} : projects[q].key # key
        /\ p \in DOMAIN projects
        /\ projects' = [projects EXCEPT ![p].key = key]
        /\ issues' = issues
    BY <1>2 DEF ProjectSetIdentifier
  <2>2. /\ DOMAIN projects' = DOMAIN projects
        /\ projects'[p].key = key
        /\ \A q \in DOMAIN projects \ {p} : projects'[q] = projects[q]
        /\ projects' \in [DOMAIN projects -> [name : Names, key : Keys]]
    BY <2>1 DEF ProjectsInOrder
  <2>3. ProjectsInOrder(projects')
    BY <2>1, <2>2 DEF ProjectsInOrder
  <2>4. ASSUME NEW i \in DOMAIN issues
        PROVE  IssueInOrder(projects', issues[i])
    <3>1. issues[i].project # p
      BY <2>1 DEF IssuesOf
    <3> QED
      BY <2>2, <3>1 DEF IssueInOrder
  <2> QED
    BY <2>1, <2>3, <2>4
<1> QED
  BY <1>1, <1>2 DEF ProjectStep

(* The issue a step creates, moves or takes out of its project.            *)
LEMMA IssueChangeInOrder ==
  ASSUME IInv, NEW i \in Issues, NEW issue,
         projects' = projects, issues' = With(issues, i, issue),
         \/ issue = AdHoc
         \/ \E p \in DOMAIN projects, n \in Nat \ {0} :
              /\ issue = [project |-> p, number |-> n,
                          identifier |-> <<projects[p].key, n>>]
              /\ \A j \in DOMAIN issues \ {i} :
                   issues[j].project = p => issues[j].number # n
  PROVE  IInv'
<1> SUFFICES InOrder(projects', issues')
  BY DEF IInv
<1>1. /\ DOMAIN issues' = DOMAIN issues \cup {i}
      /\ issues'[i] = issue
      /\ \A j \in DOMAIN issues \ {i} : issues'[j] = issues[j]
      /\ issues' = [j \in DOMAIN issues' |-> issues'[j]]
  BY DEF With
<1>2. IssueInOrder(projects, issue)
  BY DEF IssueInOrder
<1>3. issue.number \in Nat
  BY DEF AdHoc
<1>4. \A j \in DOMAIN issues' : IssueInOrder(projects', issues'[j])
  BY <1>1, <1>2 DEF IInv, InOrder
<1>5. \A j \in DOMAIN issues \ {i} :
        issues[j].project = issue.project /\ issue.project # None
          => issues[j].number # issue.number
  BY DEF AdHoc
<1>6. NumbersDiffer(issues')
  BY <1>1, <1>5 DEF IInv, InOrder, NumbersDiffer
<1>7. NumbersBounded(issues')
  <2>1. PICK b \in Nat : \A j \in DOMAIN issues : issues[j].number <= b
    BY DEF IInv, InOrder, NumbersBounded
  <2>2. ASSUME NEW j \in DOMAIN issues'
        PROVE  issues'[j].number <= b + issue.number
    <3>1. CASE j = i
      BY <1>1, <1>3, <2>1, <3>1
    <3>2. CASE j # i
      <4>1. issues[j].number \in Nat /\ issues[j].number <= b
        BY <1>1, <2>1, <3>2 DEF IInv, InOrder, IssueInOrder, AdHoc
      <4> QED
        BY <1>1, <1>3, <3>2, <4>1
    <3> QED
      BY <3>1, <3>2
  <2>3. b + issue.number \in Nat
    BY <1>3, <2>1
  <2> QED
    BY <2>2, <2>3 DEF NumbersBounded
<1>8. ProjectsInOrder(projects') /\ DOMAIN issues' \subseteq Issues
  BY <1>1 DEF IInv, InOrder
<1> QED
  BY <1>1, <1>4, <1>6, <1>7, <1>8 DEF InOrder

(* An issue that is assigned to its own project keeps its number; in       *)
(* another project it gets one that is free.                               *)
LEMMA AssignedIs ==
  ASSUME IInv, NEW i \in DOMAIN issues, NEW p \in DOMAIN projects
  PROVE  /\ \E n \in Nat \ {0} :
              /\ Assigned(i, p) = [project |-> p, number |-> n,
                                   identifier |-> <<projects[p].key, n>>]
              /\ \A j \in DOMAIN issues \ {i} :
                   issues[j].project = p => issues[j].number # n
         /\ issues[i].project = p => Assigned(i, p) = issues[i]
<1>1. p # None
  BY TicketsAssumption DEF IInv, InOrder, ProjectsInOrder
<1>2. CASE issues[i].project = p
  <2>1. PICK q \in DOMAIN projects, n \in Nat \ {0} :
          issues[i] = [project |-> q, number |-> n,
                       identifier |-> <<projects[q].key, n>>]
    BY <1>1, <1>2 DEF IInv, InOrder, IssueInOrder, AdHoc
  <2>2. Assigned(i, p) = issues[i] /\ q = p
    BY <1>2, <2>1 DEF Assigned
  <2>3. \A j \in DOMAIN issues \ {i} : issues[j].project = p => issues[j].number # n
    BY <1>1, <1>2, <2>1 DEF IInv, InOrder, NumbersDiffer
  <2> QED
    BY <2>1, <2>2, <2>3
<1>3. CASE issues[i].project # p
  <2> DEFINE n == NextNumber(p)
  <2>1. n \in Nat \ {0} /\ \A j \in IssuesOf(p) : issues[j].number < n
    BY NextNumberIs
  <2>2. Assigned(i, p) = [project |-> p, number |-> n,
                          identifier |-> <<projects[p].key, n>>]
    BY <1>3 DEF Assigned
  <2>3. \A j \in DOMAIN issues : issues[j].project = p => issues[j].number \in Nat
    BY DEF IInv, InOrder, IssueInOrder, AdHoc
  <2> HIDE DEF n
  <2>4. \A j \in DOMAIN issues : issues[j].project = p => issues[j].number # n
    BY <2>1, <2>3 DEF IssuesOf
  <2> QED
    BY <1>3, <2>1, <2>2, <2>4
<1> QED
  BY <1>2, <1>3

LEMMA IssueStepInOrder == IInv /\ IssueStep => IInv'
<1> SUFFICES ASSUME IInv, NEW i \in Issues,
                    \/ IssueCreate(i)
                    \/ \E p \in Projects : IssueAssignProject(i, p)
                    \/ IssueUnassignProject(i)
                    \/ IssueDelete(i)
             PROVE  IInv'
  BY DEF IssueStep
<1>0. issues = [j \in DOMAIN issues |-> issues[j]]
  BY DEF IInv, InOrder
<1>1. CASE IssueCreate(i)
  BY <1>1, IssueChangeInOrder DEF IssueCreate
<1>2. ASSUME NEW p \in Projects, IssueAssignProject(i, p)
      PROVE  IInv'
  <2>1. /\ p \in DOMAIN projects /\ i \in DOMAIN issues
        /\ issues' = [issues EXCEPT ![i] = Assigned(i, p)]
        /\ projects' = projects
    BY <1>2 DEF IssueAssignProject
  <2>2. issues' = With(issues, i, Assigned(i, p))
    BY <1>0, <2>1 DEF With
  <2> QED
    BY <2>1, <2>2, AssignedIs, IssueChangeInOrder
<1>3. CASE IssueUnassignProject(i)
  <2>1. /\ i \in DOMAIN issues
        /\ issues' = [issues EXCEPT ![i] = AdHoc]
        /\ projects' = projects
    BY <1>3 DEF IssueUnassignProject
  <2>2. issues' = With(issues, i, AdHoc)
    BY <1>0, <2>1 DEF With
  <2> QED
    BY <2>1, <2>2, IssueChangeInOrder
<1>4. CASE IssueDelete(i)
  <2>1. /\ issues' = [j \in DOMAIN issues \ {i} |-> issues[j]]
        /\ projects' = projects
    BY <1>4 DEF IssueDelete
  <2>2. NumbersBounded(issues')
    BY <2>1 DEF IInv, InOrder, NumbersBounded
  <2>3. NumbersDiffer(issues')
    BY <2>1 DEF IInv, InOrder, NumbersDiffer
  <2> QED
    BY <2>1, <2>2, <2>3 DEF IInv, InOrder
<1> QED
  BY <1>1, <1>2, <1>3, <1>4

LEMMA StepInOrder == IInv /\ [Next]_vars => IInv'
<1> SUFFICES ASSUME IInv, [Next]_vars PROVE IInv'
  OBVIOUS
<1>1. CASE ProjectStep
  BY <1>1, ProjectStepInOrder
<1>2. CASE IssueStep
  BY <1>2, IssueStepInOrder
<1>3. CASE CommentStep
  <2>1. projects' = projects /\ issues' = issues
    BY <1>3 DEF CommentStep, CommentAdd, ReadFirst, ReadPage, ticketVars
  <2> QED
    BY <2>1 DEF IInv
<1>4. CASE Reload
  <2>1. projects' = projects /\ issues' = issues
    BY <1>4, ReloadKeeps
  <2> QED
    BY <2>1 DEF IInv
<1>5. CASE UNCHANGED vars
  BY <1>5 DEF vars, ticketVars, IInv
<1> QED
  BY <1>1, <1>2, <1>3, <1>4, <1>5 DEF Next

(* An identifier names one issue (IdentifiersUnique), for every number of  *)
(* projects and issues and every snapshot an older version may have left:  *)
(* next_issue_number, dedupe_project_identifier, project_set_identifier    *)
(* and normalize_identifiers together admit no clash.                      *)
THEOREM OneIssuePerIdentifier == Spec => []IdentifiersUnique
<1>1. Spec => []IInv
  BY InitInOrder, StepInOrder, PTL DEF Spec
<1> QED
  BY <1>1, InvariantImplies, PTL

-----------------------------------------------------------------------------
(* Changes of identifiers *)

(* The ids of issues have been given out, so that none is created twice.   *)
IdsUsed == DOMAIN issues \subseteq used

LEMMA IdsAreUsed == IdsUsed /\ [Next]_vars => IdsUsed'
<1> SUFFICES ASSUME IdsUsed, [Next]_vars PROVE DOMAIN issues' \subseteq used'
  BY DEF IdsUsed
<1> USE DEF IdsUsed
<1>1. CASE ProjectStep
  BY <1>1 DEF ProjectStep, ProjectCreate, ProjectSetIdentifier
<1>2. ASSUME NEW i \in Issues, \/ IssueCreate(i)
                               \/ \E p \in Projects : IssueAssignProject(i, p)
                               \/ IssueUnassignProject(i)
                               \/ IssueDelete(i)
      PROVE  DOMAIN issues' \subseteq used'
  BY <1>2 DEF IssueCreate, IssueAssignProject, IssueUnassignProject, IssueDelete, With
<1>3. CASE CommentStep
  BY <1>3 DEF CommentStep, CommentAdd, ReadFirst, ReadPage, ticketVars
<1>4. CASE Reload
  BY <1>4 DEF Reload, Loaded
<1>5. CASE UNCHANGED vars
  BY <1>5 DEF vars, ticketVars
<1> QED
  BY <1>1, <1>2, <1>3, <1>4, <1>5 DEF Next, IssueStep

LEMMA StepIsRecorded == IInv /\ IdsUsed /\ Next => ChangeIsRecorded
<1> SUFFICES ASSUME IInv, IdsUsed, Next,
                    NEW j \in DOMAIN issues \cap DOMAIN issues',
                    issues'[j].identifier # issues[j].identifier
             PROVE  migrations' = Append(migrations,
                      [issue |-> j,
                       from |-> issues[j].project, fromId |-> issues[j].identifier,
                       to |-> issues'[j].project, toId |-> issues'[j].identifier])
  BY DEF ChangeIsRecorded
<1>1. issues' # issues
  OBVIOUS
<1>2. ~ProjectStep
  BY <1>1 DEF ProjectStep, ProjectCreate, ProjectSetIdentifier
<1>3. ~CommentStep
  BY <1>1 DEF CommentStep, CommentAdd, ReadFirst, ReadPage, ticketVars
<1>4. ~Reload
  BY <1>1, ReloadKeeps
<1>5. PICK i \in Issues : \/ IssueCreate(i)
                          \/ \E p \in Projects : IssueAssignProject(i, p)
                          \/ IssueUnassignProject(i)
                          \/ IssueDelete(i)
  BY <1>2, <1>3, <1>4 DEF Next, IssueStep
<1>6. CASE IssueCreate(i)
  <2>1. issues' = With(issues, i, AdHoc) /\ i \notin used
    BY <1>6 DEF IssueCreate
  <2>2. j = i
    BY <2>1 DEF With
  <2> QED
    BY <2>1, <2>2 DEF IdsUsed
<1>7. ASSUME NEW p \in Projects, IssueAssignProject(i, p)
      PROVE  migrations' = Append(migrations,
               [issue |-> j,
                from |-> issues[j].project, fromId |-> issues[j].identifier,
                to |-> issues'[j].project, toId |-> issues'[j].identifier])
  <2>1. /\ p \in DOMAIN projects /\ i \in DOMAIN issues
        /\ issues' = [issues EXCEPT ![i] = Assigned(i, p)]
    BY <1>7 DEF IssueAssignProject
  <2>2. j = i /\ issues'[j] = Assigned(i, p)
    BY <2>1
  <2>3. issues[i].project # p
    BY <2>1, <2>2, AssignedIs
  <2> QED
    BY <1>7, <2>2, <2>3 DEF IssueAssignProject, Record
<1>8. CASE IssueUnassignProject(i)
  <2>1. j = i /\ issues'[j] = AdHoc
    BY <1>8 DEF IssueUnassignProject
  <2> QED
    BY <1>8, <2>1 DEF IssueUnassignProject, Record
<1>9. CASE IssueDelete(i)
  BY <1>9 DEF IssueDelete
<1> QED
  BY <1>5, <1>6, <1>7, <1>8, <1>9

(* The identifier of an issue changes only together with the record of a   *)
(* move of that issue (ChangesAreRecorded): setting keys, loading the      *)
(* snapshot and what happens to other issues leave it alone.               *)
THEOREM NoSilentChange == Spec => ChangesAreRecorded
<1>1. Spec => []IInv
  BY InitInOrder, StepInOrder, PTL DEF Spec
<1>2. Init => IdsUsed
  BY DEF Init, IdsUsed
<1>3. Spec => []IdsUsed
  BY <1>2, IdsAreUsed, PTL DEF Spec
<1>4. IInv /\ IdsUsed /\ [Next]_vars => [ChangeIsRecorded]_vars
  BY StepIsRecorded
<1> QED
  BY <1>1, <1>3, <1>4, PTL DEF Spec, ChangesAreRecorded

-----------------------------------------------------------------------------
(* Recursive functions and sequences *)

LEMMA Recursion ==
  ASSUME NEW U, NEW a \in U, NEW n \in Nat, NEW F \in [1..n -> [U -> U]]
  PROVE  \E t \in [0..n -> U] : t[0] = a /\ \A k \in 1..n : t[k] = F[k][t[k - 1]]
<1> DEFINE UpTo(m, t) == t[0] = a /\ \A k \in 1..m : t[k] = F[k][t[k - 1]]
           Bad == {m \in 0..n : ~ \E t \in [0..m -> U] : UpTo(m, t)}
<1>1. SUFFICES ASSUME Bad # {} PROVE FALSE
  <2>1. n \in 0..n
    OBVIOUS
  <2>2. Bad = {} => \E t \in [0..n -> U] : UpTo(n, t)
    BY <2>1
  <2> QED
    BY <2>2
<1>2. Bad \in SUBSET Nat
  OBVIOUS
<1>3. PICK m \in Bad : \A k \in Bad : m <= k
  BY <1>1, <1>2, LeastNumber
<1>4. m \in 0..n /\ m \in Nat /\ ~ \E t \in [0..m -> U] : UpTo(m, t)
  OBVIOUS
<1>5. CASE m = 0
  <2> DEFINE t == [k \in 0..0 |-> a]
  <2>1. t \in [0..m -> U] /\ UpTo(m, t)
    BY <1>5
  <2> QED
    BY <1>4, <2>1
<1>6. CASE m # 0
  <2>1. m - 1 \in 0..n /\ ~(m <= m - 1) /\ m \in 1..n
    BY <1>4, <1>6
  <2>2. m - 1 \notin Bad
    BY <1>3, <2>1
  <2>3. PICK t \in [0..(m - 1) -> U] : UpTo(m - 1, t)
    BY <2>1, <2>2
  <2> DEFINE u == [k \in 0..m |-> IF k = m THEN F[m][t[m - 1]] ELSE t[k]]
  <2>4. t[m - 1] \in U /\ F[m][t[m - 1]] \in U
    BY <2>1, <2>3
  <2>5. u \in [0..m -> U]
    BY <1>4, <2>4
  <2>6. u[0] = a
    BY <1>4, <1>6, <2>3
  <2>7. ASSUME NEW k \in 1..m PROVE u[k] = F[k][u[k - 1]]
    <3>1. k \in 0..m /\ k - 1 \in 0..m /\ k - 1 # m
      BY <1>4, <2>7
    <3>2. u[k - 1] = t[k - 1]
      BY <3>1
    <3>3. CASE k = m
      BY <3>1, <3>2, <3>3
    <3>4. CASE k # m
      <4>1. k \in 1..(m - 1) /\ u[k] = t[k]
        BY <1>4, <2>7, <3>1, <3>4
      <4> QED
        BY <2>3, <3>2, <4>1
    <3> QED
      BY <3>3, <3>4
  <2> HIDE DEF u
  <2>8. UpTo(m, u)
    BY <2>6, <2>7
  <2> QED
    BY <1>4, <2>5, <2>8
<1> QED
  BY <1>5, <1>6

(* Induction over sequences: a set that has the empty sequence and, with a *)
(* sequence, each that is one element longer has all.                      *)
LEMMA SeqInduction ==
  ASSUME NEW M, NEW T, <<>> \in T,
         \A s \in Seq(M), x \in M : s \in T => Append(s, x) \in T
  PROVE  \A s \in Seq(M) : s \in T
<1> DEFINE Bad == {n \in Nat : \E s \in Seq(M) : Len(s) = n /\ s \notin T}
<1>1. SUFFICES ASSUME Bad # {} PROVE FALSE
  OBVIOUS
<1>2. PICK n \in Bad : \A k \in Bad : n <= k
  <2>1. Bad \in SUBSET Nat
    OBVIOUS
  <2> QED
    BY <1>1, <2>1, LeastNumber
<1>3. PICK s \in Seq(M) : Len(s) = n /\ s \notin T
  OBVIOUS
<1>4. CASE s = <<>>
  BY <1>3, <1>4
<1>5. CASE s # <<>>
  <2> DEFINE r == SubSeq(s, 1, Len(s) - 1)
             x == s[Len(s)]
  <2>1. r \in Seq(M) /\ x \in M /\ s = Append(r, x) /\ Len(r) = Len(s) - 1
    BY <1>3, <1>5
  <2>2. n \in Nat /\ n # 0 /\ n - 1 \in Nat /\ ~(n <= n - 1)
    BY <1>3, <1>5
  <2> HIDE DEF r, x
  <2>3. n - 1 \notin Bad
    BY <1>2, <2>2
  <2>4. r \in T
    BY <1>3, <2>1, <2>2, <2>3
  <2> QED
    BY <1>3, <2>1, <2>4
<1> QED
  BY <1>4, <1>5

-----------------------------------------------------------------------------
(* The records of moves *)

Choice(chosen, x, is) == IF x.issue \in is THEN Append(chosen, x) ELSE chosen

IsChosen(t, log, is) ==
  t = [n \in 0..Len(log) |-> IF n = 0 THEN <<>> ELSE Choice(t[n - 1], log[n], is)]

LEMMA ChosenExists ==
  ASSUME NEW M, NEW log \in Seq(M), NEW is
  PROVE  \E t \in [0..Len(log) -> Seq(M)] : IsChosen(t, log, is)
<1> DEFINE N == Len(log)
           U == Seq(M)
           F == [k \in 1..N |-> [q \in U |-> Choice(q, log[k], is)]]
           none == <<>>
<1>1. N \in Nat /\ \A k \in 1..N : log[k] \in M
  OBVIOUS
<1>2. \A k \in 1..N, q \in U : Choice(q, log[k], is) \in U
  BY <1>1 DEF Choice
<1>3. none \in U
  OBVIOUS
<1> HIDE DEF U, N, none
<1>4. F \in [1..N -> [U -> U]] /\ \A k \in 1..N, q \in U : F[k][q] = Choice(q, log[k], is)
  BY <1>2
<1> HIDE DEF F
<1>5. PICK t \in [0..N -> U] : t[0] = none /\ \A k \in 1..N : t[k] = F[k][t[k - 1]]
  <2>1. N \in Nat /\ F \in [1..N -> [U -> U]]
    BY <1>1, <1>4
  <2> QED
    BY <2>1, <1>3, Recursion
<1>6. ASSUME NEW k \in 0..N
      PROVE  t[k] = IF k = 0 THEN <<>> ELSE Choice(t[k - 1], log[k], is)
  <2>1. CASE k = 0
    BY <1>5, <2>1 DEF none
  <2>2. CASE k # 0
    <3>1. k \in 1..N /\ k - 1 \in 0..N
      BY <1>1, <1>6, <2>2
    <3>2. t[k - 1] \in U
      BY <3>1
    <3> QED
      BY <1>4, <1>5, <2>2, <3>1, <3>2
  <2> QED
    BY <2>1, <2>2
<1>7. t = [k \in 0..N |-> IF k = 0 THEN <<>> ELSE Choice(t[k - 1], log[k], is)]
  BY <1>6
<1> QED
  BY <1>7 DEF IsChosen, N, U

(* Two of them, the second for a log that is at least as long, agree.      *)
LEMMA ChosenAgree ==
  ASSUME NEW t, NEW u, NEW log, NEW more, NEW is, Len(log) \in Nat, Len(more) \in Nat,
         Len(log) <= Len(more), \A k \in 1..Len(log) : more[k] = log[k],
         IsChosen(t, log, is), IsChosen(u, more, is)
  PROVE  \A k \in 0..Len(log) : t[k] = u[k]
<1> DEFINE N == Len(log)
           Bad == {k \in 0..N : t[k] # u[k]}
<1>1. SUFFICES ASSUME Bad # {} PROVE FALSE
  OBVIOUS
<1>2. /\ \A k \in 0..N : t[k] = IF k = 0 THEN <<>> ELSE Choice(t[k - 1], log[k], is)
      /\ \A k \in 0..N : u[k] = IF k = 0 THEN <<>> ELSE Choice(u[k - 1], more[k], is)
  <2>1. \A k \in 0..N : k \in 0..Len(more)
    OBVIOUS
  <2> QED
    BY <2>1 DEF IsChosen
<1>3. Bad \in SUBSET Nat
  OBVIOUS
<1>4. PICK k \in Bad : \A j \in Bad : k <= j
  BY <1>1, <1>3, LeastNumber
<1>5. k \in 0..N /\ t[k] # u[k] /\ k \in Nat
  OBVIOUS
<1>6. k # 0
  BY <1>2, <1>5
<1>7. k - 1 \in 0..N /\ ~(k <= k - 1) /\ k \in 1..N
  BY <1>5, <1>6
<1>8. t[k - 1] = u[k - 1]
  BY <1>4, <1>7
<1> QED
  BY <1>2, <1>5, <1>6, <1>7, <1>8

LEMMA MovesAreChosen ==
  ASSUME NEW M, NEW log \in Seq(M), NEW is
  PROVE  \E t \in [0..Len(log) -> Seq(M)] :
           IsChosen(t, log, is) /\ MovesOf(log, is) = t[Len(log)]
<1> DEFINE u == CHOOSE u : IsChosen(u, log, is)
<1>1. PICK t \in [0..Len(log) -> Seq(M)] : IsChosen(t, log, is)
  BY ChosenExists
<1>2. IsChosen(u, log, is)
  BY <1>1
<1>3. MovesOf(log, is) = u[Len(log)]
  BY DEF MovesOf, IsChosen, Choice
<1> HIDE DEF u
<1>4. Len(log) \in Nat /\ Len(log) <= Len(log)
  OBVIOUS
<1>5. \A k \in 0..Len(log) : t[k] = u[k]
  BY <1>1, <1>2, <1>4, ChosenAgree
<1> QED
  BY <1>1, <1>3, <1>4, <1>5

LEMMA MovesOfNothing == \A is : MovesOf(<<>>, is) = <<>>
<1> TAKE is
<1>1. <<>> \in Seq({}) /\ Len(<<>>) = 0
  OBVIOUS
<1>2. PICK t : IsChosen(t, <<>>, is) /\ MovesOf(<<>>, is) = t[0]
  BY <1>1, MovesAreChosen
<1> QED
  BY <1>1, <1>2 DEF IsChosen

LEMMA MovesOfMore ==
  ASSUME NEW M, NEW log \in Seq(M), NEW x \in M, NEW is
  PROVE  MovesOf(Append(log, x), is) = Choice(MovesOf(log, is), x, is)
<1> DEFINE more == Append(log, x)
           n == Len(log)
<1>1. /\ more \in Seq(M) /\ Len(more) = n + 1 /\ n \in Nat /\ n <= n + 1
      /\ \A k \in 1..n : more[k] = log[k]
      /\ more[n + 1] = x
  OBVIOUS
<1> HIDE DEF more, n
<1>2. PICK t : IsChosen(t, log, is) /\ MovesOf(log, is) = t[n]
  BY MovesAreChosen DEF n
<1>3. PICK u : IsChosen(u, more, is) /\ MovesOf(more, is) = u[n + 1]
  BY <1>1, MovesAreChosen
<1>4. t[n] = u[n]
  BY <1>1, <1>2, <1>3, ChosenAgree DEF n
<1>5. u[n + 1] = Choice(u[n], x, is)
  <2>1. n + 1 \in 0..(n + 1) /\ n + 1 # 0 /\ (n + 1) - 1 = n
    BY <1>1
  <2> QED
    BY <1>1, <1>3, <2>1 DEF IsChosen
<1> QED
  BY <1>2, <1>3, <1>4, <1>5 DEF more

(* Only records of these issues are chosen.                                *)
LEMMA MovesTyped ==
  ASSUME NEW M, NEW is
  PROVE  \A log \in Seq(M) : MovesOf(log, is) \in Seq({m \in M : m.issue \in is})
<1> DEFINE T == {log \in Seq(M) : MovesOf(log, is) \in Seq({m \in M : m.issue \in is})}
<1>1. <<>> \in T
  <2>1. <<>> \in Seq(M) /\ <<>> \in Seq({m \in M : m.issue \in is})
    OBVIOUS
  <2> QED
    BY <2>1, MovesOfNothing
<1>2. \A log \in Seq(M), x \in M : log \in T => Append(log, x) \in T
  <2> SUFFICES ASSUME NEW log \in T, NEW x \in M PROVE Append(log, x) \in T
    OBVIOUS
  <2>1. MovesOf(Append(log, x), is) = Choice(MovesOf(log, is), x, is)
    BY MovesOfMore
  <2>2. MovesOf(log, is) \in Seq({m \in M : m.issue \in is})
    OBVIOUS
  <2>3. Choice(MovesOf(log, is), x, is) \in Seq({m \in M : m.issue \in is})
    BY <2>2 DEF Choice
  <2> QED
    BY <2>1, <2>3
<1> HIDE DEF T
<1>3. \A log \in Seq(M) : log \in T
  BY <1>1, <1>2, SeqInduction
<1> QED
  BY <1>3 DEF T

(* What is left when records are taken out.                                *)
LEMMA MovesOfMoves ==
  ASSUME NEW M, NEW left, NEW is, is \subseteq left
  PROVE  \A log \in Seq(M) : MovesOf(MovesOf(log, left), is) = MovesOf(log, is)
<1> DEFINE T == {log \in Seq(M) : MovesOf(MovesOf(log, left), is) = MovesOf(log, is)}
<1>1. <<>> \in T
  BY MovesOfNothing
<1>2. \A log \in Seq(M), x \in M : log \in T => Append(log, x) \in T
  <2> SUFFICES ASSUME NEW log \in T, NEW x \in M PROVE Append(log, x) \in T
    OBVIOUS
  <2>1. /\ MovesOf(Append(log, x), left) = Choice(MovesOf(log, left), x, left)
        /\ MovesOf(Append(log, x), is) = Choice(MovesOf(log, is), x, is)
    BY MovesOfMore
  <2>2. MovesOf(log, left) \in Seq(M)
    <3>1. MovesOf(log, left) \in Seq({m \in M : m.issue \in left})
      BY MovesTyped
    <3> QED
      BY <3>1
  <2>3. MovesOf(Append(MovesOf(log, left), x), is) = Choice(MovesOf(MovesOf(log, left), is), x, is)
    BY <2>2, MovesOfMore
  <2>4. MovesOf(MovesOf(log, left), is) = MovesOf(log, is)
    OBVIOUS
  <2>5. Append(log, x) \in Seq(M)
    OBVIOUS
  <2>6. CASE x.issue \in left
    BY <2>1, <2>3, <2>4, <2>5, <2>6 DEF Choice
  <2>7. CASE x.issue \notin left
    BY <2>1, <2>4, <2>5, <2>7 DEF Choice
  <2> QED
    BY <2>6, <2>7
<1> HIDE DEF T
<1>3. \A log \in Seq(M) : log \in T
  BY <1>1, <1>2, SeqInduction
<1> QED
  BY <1>3 DEF T

(* No record is of an issue that has none.                                 *)
LEMMA MovesOfOthers ==
  ASSUME NEW M, NEW is, \A m \in M : m.issue \notin is
  PROVE  \A log \in Seq(M) : MovesOf(log, is) = <<>>
<1> DEFINE T == {log \in Seq(M) : MovesOf(log, is) = <<>>}
<1>1. <<>> \in T
  BY MovesOfNothing
<1>2. \A log \in Seq(M), x \in M : log \in T => Append(log, x) \in T
  BY MovesOfMore DEF Choice
<1> HIDE DEF T
<1>3. \A log \in Seq(M) : log \in T
  BY <1>1, <1>2, SeqInduction
<1> QED
  BY <1>3 DEF T

-----------------------------------------------------------------------------
(* Moves and their comments *)

MoveRecord(is) ==
  [issue : is, from : Projects \cup {None}, fromId : Identifiers \cup {None},
   to : Projects \cup {None}, toId : Identifiers \cup {None}]

Chain(moves, issue) ==
  moves # <<>> =>
    /\ \A n \in 1..(Len(moves) - 1) :
         moves[n].to = moves[n + 1].from /\ moves[n].toId = moves[n + 1].fromId
    /\ moves[Len(moves)].to = issue.project
    /\ moves[Len(moves)].toId = issue.identifier

Notes(i) == {n \in CommentsOn(<<"issue", i>>) : comments[n].body = "moved"}

UsedFit == DOMAIN issues \subseteq used /\ used \subseteq Issues

MovesFit ==
  /\ migrations \in Seq(MoveRecord(DOMAIN issues))
  /\ \A i \in DOMAIN issues : Chain(MovesOf(migrations, {i}), issues[i])

CommentRecord == [on : Entities, body : {"moved", "user"}]

CommentsFit ==
  /\ lastComment \in 0..MaxComments
  /\ DOMAIN comments \subseteq CommentIds
  /\ comments \in [DOMAIN comments -> CommentRecord]

NotesFit ==
  \A i \in DOMAIN issues : Cardinality(Notes(i)) = Len(MovesOf(migrations, {i}))

Fits == IInv /\ UsedFit /\ MovesFit /\ CommentsFit /\ NotesFit

LEMMA LargerSet ==
  ASSUME NEW A, NEW B, A \subseteq B, NEW q \in Seq(A)
  PROVE  q \in Seq(B)
OBVIOUS

LEMMA ChainGrows ==
  ASSUME NEW M, NEW moves \in Seq(M), NEW issue, NEW x, NEW to, Chain(moves, issue),
         x.from = issue.project, x.fromId = issue.identifier,
         x.to = to.project, x.toId = to.identifier
  PROVE  Chain(Append(moves, x), to)
<1> DEFINE more == Append(moves, x)
           n == Len(moves)
<1>1. /\ Len(more) = n + 1 /\ n \in Nat /\ more[n + 1] = x
      /\ \A k \in 1..n : more[k] = moves[k]
      /\ n # 0 => moves # <<>>
  OBVIOUS
<1> HIDE DEF more
<1>2. ASSUME NEW k \in 1..(Len(more) - 1)
      PROVE  more[k].to = more[k + 1].from /\ more[k].toId = more[k + 1].fromId
  <2>1. k \in 1..n /\ n # 0
    BY <1>1
  <2>2. CASE k = n
    BY <1>1, <2>1, <2>2 DEF Chain
  <2>3. CASE k # n
    <3>1. k \in 1..(n - 1) /\ k + 1 \in 1..n
      BY <1>1, <2>1, <2>3
    <3> QED
      BY <1>1, <2>1, <3>1 DEF Chain
  <2> QED
    BY <2>2, <2>3
<1> QED
  BY <1>1, <1>2 DEF Chain, more

(* A record is one of the moves of its issue, and of no other.             *)
LEMMA NewMove ==
  ASSUME NEW M, NEW log \in Seq(M), NEW x \in M
  PROVE  MovesOf(Append(log, x), {x.issue}) = Append(MovesOf(log, {x.issue}), x)
<1>1. MovesOf(Append(log, x), {x.issue}) = Choice(MovesOf(log, {x.issue}), x, {x.issue})
  BY MovesOfMore
<1> QED
  BY <1>1 DEF Choice

LEMMA OtherMove ==
  ASSUME NEW M, NEW log \in Seq(M), NEW x \in M, NEW j, x.issue # j
  PROVE  MovesOf(Append(log, x), {j}) = MovesOf(log, {j})
<1>1. MovesOf(Append(log, x), {j}) = Choice(MovesOf(log, {j}), x, {j})
  BY MovesOfMore
<1> QED
  BY <1>1 DEF Choice

(* What a comment that is added adds.                                      *)
LEMMA NewComment ==
  ASSUME CommentsFit, NEW c,
         lastComment' = lastComment + 1,
         comments' = With(comments, lastComment + 1, c)
  PROVE  /\ lastComment + 1 \notin DOMAIN comments
         /\ DOMAIN comments' = DOMAIN comments \cup {lastComment + 1}
         /\ comments'[lastComment + 1] = c
         /\ \A n \in DOMAIN comments : comments'[n] = comments[n]
<1>1. lastComment + 1 \notin DOMAIN comments
  BY DEF CommentsFit, CommentIds
<1> QED
  BY <1>1 DEF With

LEMMA NewCommentFits ==
  ASSUME CommentsFit, lastComment < MaxComments, Entities \subseteq Entities',
         NEW c \in [on : Entities', body : {"moved", "user"}],
         lastComment' = lastComment + 1,
         comments' = With(comments, lastComment + 1, c)
  PROVE  CommentsFit'
<1>1. /\ DOMAIN comments' = DOMAIN comments \cup {lastComment + 1}
      /\ comments'[lastComment + 1] = c
      /\ \A n \in DOMAIN comments : comments'[n] = comments[n]
  BY NewComment
<1>2. lastComment \in Nat /\ MaxComments \in Nat /\ lastComment' \in 0..MaxComments
  BY TicketsAssumption DEF CommentsFit
<1>3. DOMAIN comments' \subseteq CommentIds'
  BY <1>1, <1>2 DEF CommentsFit, CommentIds
<1>4. \A n \in DOMAIN comments' : comments'[n] \in CommentRecord'
  BY <1>1 DEF CommentsFit, CommentRecord
<1>5. comments' = [n \in DOMAIN comments' |-> comments'[n]]
  BY DEF With
<1> QED
  BY <1>2, <1>3, <1>4, <1>5 DEF CommentsFit

LEMMA NotesFinite ==
  ASSUME CommentsFit, NEW i
  PROVE  IsFiniteSet(Notes(i))
<1>1. DOMAIN comments \subseteq 1..lastComment /\ lastComment \in Int
  BY DEF CommentsFit, CommentIds
<1>2. IsFiniteSet(1..lastComment)
  BY <1>1, FS_Interval
<1>3. Notes(i) \in SUBSET (1..lastComment)
  BY <1>1 DEF Notes, CommentsOn
<1> QED
  BY <1>2, <1>3, FS_Subset

(* A move is recorded, with its comment.                                   *)
LEMMA RecordFits ==
  ASSUME Fits, NEW i \in DOMAIN issues, NEW to, IssueInOrder(projects, to),
         issues' = [issues EXCEPT ![i] = to], Record(i, to), UNCHANGED <<projects, used>>
  PROVE  UsedFit' /\ MovesFit' /\ CommentsFit' /\ NotesFit'
<1> USE DEF Fits
<1> DEFINE c == [on |-> <<"issue", i>>, body |-> "moved"]
           x == [issue |-> i,
                 from |-> issues[i].project, fromId |-> issues[i].identifier,
                 to |-> to.project, toId |-> to.identifier]
<1>1. /\ DOMAIN issues' = DOMAIN issues /\ issues'[i] = to
      /\ \A j \in DOMAIN issues \ {i} : issues'[j] = issues[j]
  BY DEF IInv, InOrder
<1>2. UsedFit' /\ Entities' = Entities
  BY <1>1 DEF UsedFit, Entities
<1>3. /\ lastComment < MaxComments /\ lastComment' = lastComment + 1
      /\ comments' = With(comments, lastComment + 1, c)
      /\ migrations' = Append(migrations, x)
  BY DEF Record
<1>4. \A issue : IssueInOrder(projects, issue) =>
        issue.project \in Projects \cup {None} /\ issue.identifier \in Identifiers \cup {None}
  BY DEF IssueInOrder, AdHoc, IInv, InOrder, ProjectsInOrder, Identifiers
<1>5. x \in MoveRecord(DOMAIN issues)
  <2>1. IssueInOrder(projects, issues[i])
    BY DEF IInv, InOrder
  <2>2. /\ issues[i].project \in Projects \cup {None}
        /\ issues[i].identifier \in Identifiers \cup {None}
        /\ to.project \in Projects \cup {None} /\ to.identifier \in Identifiers \cup {None}
    BY <1>4, <2>1
  <2> QED
    BY <2>2 DEF MoveRecord
<1>6. migrations \in Seq(MoveRecord(DOMAIN issues))
  BY DEF MovesFit
<1>7. c \in [on : Entities', body : {"moved", "user"}]
  BY <1>2 DEF Entities
<1>8. x.issue = i /\ x.from = issues[i].project /\ x.fromId = issues[i].identifier
        /\ x.to = to.project /\ x.toId = to.identifier /\ c.on = <<"issue", i>> /\ c.body = "moved"
  OBVIOUS
<1> HIDE DEF c, x
<1>9. CommentsFit'
  BY <1>2, <1>3, <1>7, NewCommentFits
<1>10. MovesOf(migrations', {i}) = Append(MovesOf(migrations, {i}), x)
  <2>1. MovesOf(Append(migrations, x), {x.issue}) = Append(MovesOf(migrations, {x.issue}), x)
    BY <1>5, <1>6, NewMove
  <2>2. x.issue = i
    BY <1>8
  <2> QED
    BY <1>3, <2>1, <2>2
<1>11. \A j \in DOMAIN issues \ {i} : MovesOf(migrations', {j}) = MovesOf(migrations, {j})
  <2> TAKE j \in DOMAIN issues \ {i}
  <2>1. x.issue # j
    BY <1>8
  <2>2. MovesOf(Append(migrations, x), {j}) = MovesOf(migrations, {j})
    BY <1>5, <1>6, <2>1, OtherMove
  <2> QED
    BY <1>3, <2>2
<1>12. MovesOf(migrations, {i}) \in Seq({m \in MoveRecord(DOMAIN issues) : m.issue \in {i}})
  BY <1>6, MovesTyped
<1>13. MovesFit'
  <2>1. migrations' \in Seq(MoveRecord(DOMAIN issues'))
    BY <1>1, <1>3, <1>5, <1>6
  <2>2. Chain(MovesOf(migrations', {i}), issues'[i])
    <3>1. Chain(MovesOf(migrations, {i}), issues[i])
      BY DEF MovesFit
    <3>2. Chain(Append(MovesOf(migrations, {i}), x), to)
      BY <1>8, <1>12, <3>1, ChainGrows
    <3> QED
      BY <1>1, <1>10, <3>2
  <2>3. \A j \in DOMAIN issues \ {i} : Chain(MovesOf(migrations', {j}), issues'[j])
    BY <1>1, <1>11 DEF MovesFit
  <2> QED
    BY <1>1, <2>1, <2>2, <2>3 DEF MovesFit
<1>14. /\ lastComment + 1 \notin DOMAIN comments
       /\ DOMAIN comments' = DOMAIN comments \cup {lastComment + 1}
       /\ comments'[lastComment + 1] = c
       /\ \A n \in DOMAIN comments : comments'[n] = comments[n]
  BY <1>3, NewComment
<1>15. Notes(i)' = Notes(i) \cup {lastComment + 1} /\ lastComment + 1 \notin Notes(i)
  BY <1>8, <1>14 DEF Notes, CommentsOn
<1>16. \A j \in DOMAIN issues \ {i} : Notes(j)' = Notes(j)
  BY <1>8, <1>14 DEF Notes, CommentsOn
<1>17. Cardinality(Notes(i)') = Cardinality(Notes(i)) + 1
  BY <1>15, NotesFinite, FS_AddElement
<1>18. NotesFit'
  <2>1. Cardinality(Notes(i)') = Len(MovesOf(migrations', {i}))
    <3>1. Len(MovesOf(migrations', {i})) = Len(MovesOf(migrations, {i})) + 1
      BY <1>10, <1>12
    <3> QED
      BY <1>17, <3>1 DEF NotesFit
  <2>2. \A j \in DOMAIN issues \ {i} : Cardinality(Notes(j)') = Len(MovesOf(migrations', {j}))
    BY <1>11, <1>16 DEF NotesFit
  <2> QED
    BY <1>1, <2>1, <2>2 DEF NotesFit
<1> QED
  BY <1>2, <1>9, <1>13, <1>18

LEMMA CreateFits ==
  ASSUME Fits, NEW i \in Issues, IssueCreate(i)
  PROVE  UsedFit' /\ MovesFit' /\ CommentsFit' /\ NotesFit'
<1> USE DEF Fits
<1>1. /\ i \notin used /\ used' = used \cup {i} /\ issues' = With(issues, i, AdHoc)
      /\ UNCHANGED <<projects, migrations, comments, lastComment>>
  BY DEF IssueCreate, commentVars
<1>2. i \notin DOMAIN issues
  BY <1>1 DEF UsedFit
<1>3. /\ DOMAIN issues' = DOMAIN issues \cup {i} /\ issues'[i] = AdHoc
      /\ \A j \in DOMAIN issues : issues'[j] = issues[j]
  BY <1>1, <1>2 DEF With
<1>4. UsedFit' /\ Entities \subseteq Entities'
  BY <1>1, <1>3 DEF UsedFit, Entities
<1>5. migrations \in Seq(MoveRecord(DOMAIN issues))
  BY DEF MovesFit
<1>6. MovesOf(migrations, {i}) = <<>>
  <2>1. \A m \in MoveRecord(DOMAIN issues) : m.issue \notin {i}
    BY <1>2 DEF MoveRecord
  <2> QED
    BY <1>5, <2>1, MovesOfOthers
<1>7. MovesFit'
  <2>1. MoveRecord(DOMAIN issues) \subseteq MoveRecord(DOMAIN issues')
    BY <1>3 DEF MoveRecord
  <2>2. migrations' \in Seq(MoveRecord(DOMAIN issues'))
    BY <1>1, <1>5, <2>1
  <2>3. Chain(MovesOf(migrations', {i}), issues'[i])
    BY <1>1, <1>6 DEF Chain
  <2>4. \A j \in DOMAIN issues : Chain(MovesOf(migrations', {j}), issues'[j])
    BY <1>1, <1>3 DEF MovesFit
  <2> QED
    BY <1>3, <2>2, <2>3, <2>4 DEF MovesFit
<1>8. CommentsFit'
  BY <1>1, <1>4 DEF CommentsFit, CommentIds, CommentRecord
<1>9. Notes(i) = {}
  <2>1. <<"issue", i>> \notin Entities
    BY <1>2 DEF Entities
  <2>2. \A n \in DOMAIN comments : comments[n].on \in Entities
    BY DEF CommentsFit, CommentRecord
  <2> QED
    BY <2>1, <2>2 DEF Notes, CommentsOn
<1>10. \A j : Notes(j)' = Notes(j)
  BY <1>1 DEF Notes, CommentsOn
<1>11. NotesFit'
  <2>1. Cardinality(Notes(i)') = Len(MovesOf(migrations', {i}))
    BY <1>1, <1>6, <1>9, <1>10, FS_EmptySet
  <2>2. \A j \in DOMAIN issues : Cardinality(Notes(j)') = Len(MovesOf(migrations', {j}))
    BY <1>1, <1>10 DEF NotesFit
  <2> QED
    BY <1>3, <2>1, <2>2 DEF NotesFit
<1> QED
  BY <1>4, <1>7, <1>8, <1>11

(* What a deleted issue leaves of the records and comments.                *)
LEMMA DeleteFits ==
  ASSUME Fits, NEW i \in Issues, IssueDelete(i)
  PROVE  UsedFit' /\ MovesFit' /\ CommentsFit' /\ NotesFit'
<1> USE DEF Fits
<1> DEFINE left == Issues \ {i}
           rest == DOMAIN comments \ CommentsOn(<<"issue", i>>)
<1>1. /\ issues' = [j \in DOMAIN issues \ {i} |-> issues[j]]
      /\ comments' = [n \in rest |-> comments[n]]
      /\ migrations' = MovesOf(migrations, left)
      /\ UNCHANGED <<projects, used, lastComment>>
  BY DEF IssueDelete, CommentsWithout
<1>2. /\ DOMAIN issues' = DOMAIN issues \ {i}
      /\ \A j \in DOMAIN issues' : issues'[j] = issues[j]
      /\ DOMAIN comments' = rest
      /\ \A n \in rest : comments'[n] = comments[n]
  BY <1>1
<1> HIDE DEF left, rest
<1>3. UsedFit'
  BY <1>1, <1>2 DEF UsedFit
<1>4. migrations \in Seq(MoveRecord(DOMAIN issues))
  BY DEF MovesFit
<1>5. \A j \in DOMAIN issues' : MovesOf(migrations', {j}) = MovesOf(migrations, {j})
  <2> TAKE j \in DOMAIN issues'
  <2>1. {j} \subseteq left
    BY <1>2 DEF UsedFit, left
  <2> QED
    BY <1>1, <1>4, <2>1, MovesOfMoves
<1>6. MovesFit'
  <2>1. MovesOf(migrations, left) \in Seq({m \in MoveRecord(DOMAIN issues) : m.issue \in left})
    BY <1>4, MovesTyped
  <2>2. {m \in MoveRecord(DOMAIN issues) : m.issue \in left} \subseteq MoveRecord(DOMAIN issues')
    BY <1>2 DEF MoveRecord, left
  <2>3. migrations' \in Seq(MoveRecord(DOMAIN issues'))
    BY <1>1, <2>1, <2>2, LargerSet
  <2> QED
    BY <1>2, <1>5, <2>3 DEF MovesFit
<1>7. CommentsFit'
  <2>1. \A n \in rest : comments[n].on \in Entities'
    <3>1. \A n \in rest : comments[n].on \in Entities /\ comments[n].on # <<"issue", i>>
      BY DEF CommentsFit, CommentRecord, CommentsOn, rest
    <3>2. \A e \in Entities : e # <<"issue", i>> => e \in Entities'
      BY <1>1, <1>2 DEF Entities
    <3> QED
      BY <3>1, <3>2
  <2>2. \A n \in rest : comments[n] \in CommentRecord'
    BY <2>1 DEF CommentsFit, CommentRecord, rest
  <2>3. DOMAIN comments' \subseteq CommentIds'
    BY <1>1, <1>2 DEF CommentsFit, CommentIds, rest
  <2>4. lastComment' \in 0..MaxComments
    BY <1>1 DEF CommentsFit
  <2> QED
    BY <1>1, <1>2, <2>2, <2>3, <2>4 DEF CommentsFit
<1>8. \A j \in DOMAIN issues' : Notes(j)' = Notes(j)
  <2> TAKE j \in DOMAIN issues'
  <2>1. \A n \in DOMAIN comments : comments[n].on = <<"issue", j>> => n \in rest
    BY <1>2 DEF CommentsOn, rest
  <2>2. rest \subseteq DOMAIN comments
    BY DEF rest
  <2> QED
    BY <1>2, <2>1, <2>2 DEF Notes, CommentsOn
<1>9. NotesFit'
  BY <1>2, <1>5, <1>8 DEF NotesFit
<1> QED
  BY <1>3, <1>6, <1>7, <1>9

LEMMA SameTicketsFit ==
  ASSUME Fits, issues' = issues, used' = used, migrations' = migrations, comments' = comments,
         lastComment' = lastComment, DOMAIN projects' = DOMAIN projects
  PROVE  UsedFit' /\ MovesFit' /\ CommentsFit' /\ NotesFit'
<1>1. Entities' = Entities /\ \A j : Notes(j)' = Notes(j)
  BY DEF Entities, Notes, CommentsOn
<1> QED
  BY <1>1 DEF Fits, UsedFit, MovesFit, CommentsFit, NotesFit, CommentIds, CommentRecord

LEMMA StepFits == Fits /\ [Next]_vars => Fits'
<1> SUFFICES ASSUME Fits, [Next]_vars PROVE UsedFit' /\ MovesFit' /\ CommentsFit' /\ NotesFit'
  BY StepInOrder DEF Fits
<1>0. IInv
  BY DEF Fits
<1>1. ASSUME NEW p \in Projects, NEW name \in Names, ProjectCreate(p, name)
      PROVE  UsedFit' /\ MovesFit' /\ CommentsFit' /\ NotesFit'
  <2>1. /\ UNCHANGED <<issues, used, migrations, comments, lastComment>>
        /\ DOMAIN projects \subseteq DOMAIN projects'
    BY <1>1 DEF ProjectCreate, With, commentVars
  <2>2. Entities \subseteq Entities' /\ \A j : Notes(j)' = Notes(j)
    BY <2>1 DEF Entities, Notes, CommentsOn
  <2> QED
    BY <2>1, <2>2 DEF Fits, UsedFit, MovesFit, CommentsFit, NotesFit, CommentIds, CommentRecord
<1>2. ASSUME NEW p \in Projects, NEW key \in Keys, ProjectSetIdentifier(p, key)
      PROVE  UsedFit' /\ MovesFit' /\ CommentsFit' /\ NotesFit'
  <2>1. DOMAIN projects' = DOMAIN projects
    BY <1>2 DEF ProjectSetIdentifier
  <2> QED
    BY <1>2, <2>1, SameTicketsFit DEF ProjectSetIdentifier, commentVars
<1>3. ASSUME NEW i \in Issues, NEW p \in Projects, IssueAssignProject(i, p)
      PROVE  UsedFit' /\ MovesFit' /\ CommentsFit' /\ NotesFit'
  <2>1. /\ p \in DOMAIN projects /\ i \in DOMAIN issues
        /\ issues' = [issues EXCEPT ![i] = Assigned(i, p)]
        /\ UNCHANGED <<projects, used>>
    BY <1>3 DEF IssueAssignProject
  <2>2. IssueInOrder(projects, Assigned(i, p))
    BY <1>0, <2>1, AssignedIs DEF IssueInOrder
  <2>3. CASE issues[i].project # p
    BY <1>3, <2>1, <2>2, <2>3, RecordFits DEF IssueAssignProject
  <2>4. CASE issues[i].project = p
    <3>1. Assigned(i, p) = issues[i]
      BY <1>0, <2>1, <2>4, AssignedIs
    <3>2. issues' = issues
      BY <1>0, <2>1, <3>1 DEF IInv, InOrder
    <3>3. UNCHANGED <<migrations, comments, lastComment>>
      BY <1>3, <2>4 DEF IssueAssignProject, commentVars
    <3> QED
      BY <2>1, <3>2, <3>3, SameTicketsFit
  <2> QED
    BY <2>3, <2>4
<1>4. ASSUME NEW i \in Issues, IssueUnassignProject(i)
      PROVE  UsedFit' /\ MovesFit' /\ CommentsFit' /\ NotesFit'
  <2>1. /\ i \in DOMAIN issues /\ issues' = [issues EXCEPT ![i] = AdHoc]
        /\ Record(i, AdHoc) /\ UNCHANGED <<projects, used>>
    BY <1>4 DEF IssueUnassignProject
  <2>2. IssueInOrder(projects, AdHoc)
    BY DEF IssueInOrder
  <2> QED
    BY <2>1, <2>2, RecordFits
<1>5. ASSUME NEW e \in Entities, CommentAdd(e)
      PROVE  UsedFit' /\ MovesFit' /\ CommentsFit' /\ NotesFit'
  <2> DEFINE c == [on |-> e, body |-> "user"]
  <2>1. /\ lastComment < MaxComments /\ lastComment' = lastComment + 1
        /\ comments' = With(comments, lastComment + 1, c)
        /\ UNCHANGED <<projects, issues, migrations, used>>
    BY <1>5 DEF CommentAdd, ticketVars
  <2>2. Entities' = Entities
    BY <2>1 DEF Entities
  <2>3. c \in [on : Entities', body : {"moved", "user"}] /\ c.body # "moved"
    BY <2>2
  <2> HIDE DEF c
  <2>4. CommentsFit'
    BY <2>1, <2>2, <2>3, NewCommentFits DEF Fits
  <2>5. /\ DOMAIN comments' = DOMAIN comments \cup {lastComment + 1}
        /\ comments'[lastComment + 1] = c /\ lastComment + 1 \notin DOMAIN comments
        /\ \A n \in DOMAIN comments : comments'[n] = comments[n]
    BY <2>1, NewComment DEF Fits
  <2>6. \A j : Notes(j)' = Notes(j)
    BY <2>3, <2>5 DEF Notes, CommentsOn
  <2> QED
    BY <2>1, <2>4, <2>6 DEF Fits, UsedFit, MovesFit, NotesFit
<1>6. CASE \/ \E e \in Entities, order \in {"asc", "desc"}, limit \in Limits :
                ReadFirst(e, order, limit)
           \/ ReadPage \/ UNCHANGED vars
  <2>1. UNCHANGED <<projects, issues, used, migrations, comments, lastComment>>
    BY <1>6 DEF ReadFirst, ReadPage, vars, ticketVars, commentVars
  <2> QED
    BY <2>1, SameTicketsFit
<1>7. CASE Reload
  <2>1. projects' = projects /\ issues' = issues
    BY <1>0, <1>7, ReloadKeeps
  <2>2. UNCHANGED <<used, migrations, comments, lastComment>>
    BY <1>7 DEF Reload, commentVars
  <2> QED
    BY <2>1, <2>2, SameTicketsFit
<1> QED
  BY <1>1, <1>2, <1>3, <1>4, <1>5, <1>6, <1>7, CreateFits, DeleteFits
     DEF Next, ProjectStep, IssueStep, CommentStep

-----------------------------------------------------------------------------
(* Listing comments *)

(* Ascending(S) has the members of S, each once, the smallest first.       *)
LEMMA AscendingIs ==
  ASSUME NEW S \in SUBSET Nat, IsFiniteSet(S)
  PROVE  /\ Ascending(S) \in Seq(S) /\ Len(Ascending(S)) = Cardinality(S)
         /\ \A m, n \in 1..Cardinality(S) : m < n => Ascending(S)[m] < Ascending(S)[n]
         /\ \A x \in S : \E n \in 1..Cardinality(S) : Ascending(S)[n] = x
<1> DEFINE N == Cardinality(S)
           Below(x) == {y \in S : y < x}
           rank == [x \in S |-> Cardinality(Below(x))]
           a == Ascending(S)
<1>1. N \in Nat
  BY FS_CardinalityType
<1>2. \A x \in S : rank[x] = Cardinality(Below(x))
  OBVIOUS
<1>3. ASSUME NEW x \in S
      PROVE  IsFiniteSet(Below(x)) /\ Cardinality(Below(x)) \in 0..(N - 1)
  <2>1. Below(x) \in SUBSET (S \ {x})
    OBVIOUS
  <2>2. IsFiniteSet(S \ {x}) /\ Cardinality(S \ {x}) = N - 1
    BY FS_RemoveElement
  <2> HIDE DEF Below, N
  <2>3. IsFiniteSet(Below(x)) /\ Cardinality(Below(x)) <= N - 1
    BY <2>1, <2>2, FS_Subset
  <2>4. Cardinality(Below(x)) \in Nat
    BY <2>3, FS_CardinalityType
  <2> QED
    BY <1>1, <2>3, <2>4
<1>4. ASSUME NEW x \in S, NEW z \in S, x < z
      PROVE  Cardinality(Below(x)) < Cardinality(Below(z))
  <2>1. Below(x) \cup {x} \in SUBSET Below(z) /\ x \notin Below(x)
    <3>1. x \in Nat /\ z \in Nat /\ x \in S
      OBVIOUS
    <3>2. \A y \in Nat : y < x => y < z
      BY <1>4, <3>1
    <3>3. \A y \in Below(x) : y \in S /\ y \in Nat /\ y < x
      OBVIOUS
    <3>4. \A y \in Below(x) : y \in Below(z)
      BY <3>2, <3>3
    <3>5. x \in Below(z) /\ x \notin Below(x)
      BY <1>4, <3>1
    <3> HIDE DEF Below
    <3> QED
      BY <3>4, <3>5
  <2>2. /\ IsFiniteSet(Below(x)) /\ IsFiniteSet(Below(z))
        /\ Cardinality(Below(x)) \in Nat /\ Cardinality(Below(z)) \in Nat
    BY <1>1, <1>3
  <2> HIDE DEF Below
  <2>3. Cardinality(Below(x) \cup {x}) = Cardinality(Below(x)) + 1
    BY <2>1, <2>2, FS_AddElement
  <2>4. Cardinality(Below(x) \cup {x}) <= Cardinality(Below(z))
    BY <2>1, <2>2, FS_Subset
  <2> QED
    BY <2>2, <2>3, <2>4
<1> HIDE DEF Below
<1>5. rank \in [S -> 0..(N - 1)]
  BY <1>3
<1>6. \A x, z \in S : x < z => rank[x] < rank[z]
  BY <1>2, <1>4
<1>7. \A x \in S : rank[x] \in 0..(N - 1)
  BY <1>5
<1> HIDE DEF rank
<1>8. ASSUME NEW x \in S, NEW z \in S, rank[x] = rank[z]
      PROVE  x = z
  <2>1. x \in Nat /\ z \in Nat /\ rank[x] \in Int
    BY <1>1, <1>7
  <2>2. ~(x < z) /\ ~(z < x)
    BY <1>6, <1>8, <2>1
  <2> QED
    BY <2>1, <2>2
<1>9. \A k \in 0..(N - 1) : \E x \in S : rank[x] = k
  <2>1. rank \in Injection(S, 0..(N - 1))
    BY <1>5, <1>8, Fun_IsInj
  <2>2. IsFiniteSet(0..(N - 1)) /\ Cardinality(0..(N - 1)) = N
    <3>1. 0 \in Int /\ N - 1 \in Int
      BY <1>1
    <3>2. /\ IsFiniteSet(0..(N - 1))
          /\ Cardinality(0..(N - 1)) = IF 0 > N - 1 THEN 0 ELSE (N - 1) - 0 + 1
      BY <3>1, FS_Interval
    <3> QED
      BY <1>1, <3>2
  <2>3. rank \in Surjection(S, 0..(N - 1))
    BY <2>1, <2>2, FS_Injection
  <2> QED
    BY <2>3 DEF Surjection
<1>10. ASSUME NEW n \in 1..N
       PROVE  a[n] \in S /\ rank[a[n]] = n - 1
  <2>1. \E x \in S : Cardinality(Below(x)) = n - 1
    <3>1. n - 1 \in 0..(N - 1)
      BY <1>1
    <3> QED
      BY <1>2, <1>9, <3>1
  <2>2. a[n] = CHOOSE x \in S : Cardinality(Below(x)) = n - 1
    BY DEF Ascending, Below
  <2> QED
    BY <1>2, <2>1, <2>2
<1>11. a \in [1..N -> S]
  <2> DEFINE ranked(n) == CHOOSE x \in S : Cardinality({y \in S : y < x}) = n - 1
  <2>1. a = [n \in 1..N |-> ranked(n)]
    BY DEF Ascending
  <2> HIDE DEF a, ranked
  <2>2. \A n \in 1..N : ranked(n) \in S
    BY <1>10, <2>1
  <2> QED
    BY <2>1, <2>2
<1> HIDE DEF N, a
<1>12. a \in Seq(S) /\ Len(a) = N
  BY <1>1, <1>11
<1>13. ASSUME NEW m \in 1..N, NEW n \in 1..N, m < n
       PROVE  a[m] < a[n]
  <2>1. a[m] \in Nat /\ a[n] \in Nat /\ m \in Int /\ n \in Int
    <3>1. a[m] \in S /\ a[n] \in S
      BY <1>10
    <3>2. \A x \in S : x \in Nat
      OBVIOUS
    <3>3. m \in Int /\ n \in Int
      BY <1>1
    <3> QED
      BY <3>1, <3>2, <3>3
  <2>2. a[n] # a[m]
    BY <1>10, <1>13, <2>1
  <2>3. ~(a[n] < a[m])
    <3>1. rank[a[m]] = m - 1 /\ rank[a[n]] = n - 1 /\ a[m] \in S /\ a[n] \in S
      BY <1>10
    <3>2. ~(rank[a[n]] < rank[a[m]])
      BY <1>13, <2>1, <3>1
    <3> QED
      BY <1>6, <3>1, <3>2
  <2> QED
    BY <2>1, <2>2, <2>3
<1>14. ASSUME NEW x \in S PROVE \E n \in 1..N : a[n] = x
  <2>1. rank[x] + 1 \in 1..N /\ (rank[x] + 1) - 1 = rank[x]
    BY <1>1, <1>7
  <2>2. a[rank[x] + 1] = x
    BY <1>8, <1>10, <2>1
  <2> QED
    BY <2>1, <2>2
<1> QED
  BY <1>12, <1>13, <1>14 DEF a, N

Comes(order, a, b) == IF order = "asc" THEN a < b ELSE a > b
InSequence(order, q) == \A m, n \in 1..Len(q) : m < n => Comes(order, q[m], q[n])
Members(q) == {q[n] : n \in 1..Len(q)}

LEMMA ComesOrders ==
  ASSUME NEW order, NEW a \in Nat, NEW b \in Nat
  PROVE  /\ ~Comes(order, a, a)
         /\ Comes(order, a, b) \/ Comes(order, b, a) \/ a = b
         /\ ~(Comes(order, a, b) /\ Comes(order, b, a))
         /\ \A c \in Nat : Comes(order, a, b) /\ Comes(order, b, c) => Comes(order, a, c)
BY DEF Comes

(* A list of comments has all the comments on its entity, in order.        *)
LEMMA ListedIs ==
  ASSUME CommentsFit, NEW e, NEW order
  PROVE  /\ Listed(e, order) \in Seq(CommentsOn(e))
         /\ InSequence(order, Listed(e, order))
         /\ CommentsOn(e) \subseteq Members(Listed(e, order))
<1> DEFINE S == CommentsOn(e)
           N == Cardinality(S)
           a == Ascending(S)
<1>1. S \in SUBSET Nat /\ IsFiniteSet(S)
  <2>1. DOMAIN comments \subseteq 1..lastComment /\ lastComment \in Int
    BY DEF CommentsFit, CommentIds
  <2>2. S \in SUBSET (1..lastComment)
    BY <2>1 DEF CommentsOn
  <2>3. IsFiniteSet(1..lastComment)
    BY <2>1, FS_Interval
  <2>4. 1..lastComment \subseteq Nat
    OBVIOUS
  <2> HIDE DEF S
  <2>5. IsFiniteSet(S)
    BY <2>2, <2>3, FS_Subset
  <2> QED
    BY <2>2, <2>4, <2>5
<1> HIDE DEF S
<1>2. /\ a \in Seq(S) /\ Len(a) = N
      /\ \A m, n \in 1..N : m < n => a[m] < a[n]
      /\ \A x \in S : \E n \in 1..N : a[n] = x
  BY <1>1, AscendingIs
<1> HIDE DEF a
<1>3. N \in Nat
  BY <1>1, FS_CardinalityType
<1> HIDE DEF N
<1>4. CASE order = "asc"
  <2>1. Listed(e, order) = a
    BY <1>4 DEF Listed, a, S
  <2> QED
    BY <1>2, <1>4, <2>1 DEF InSequence, Members, Comes, S
<1>5. CASE order # "asc"
  <2> DEFINE r == [k \in 1..N |-> a[(N - k) + 1]]
  <2>1. Listed(e, order) = r
    BY <1>2, <1>5 DEF Listed, Reverse, a, S
  <2>2. \A k \in 1..N : (N - k) + 1 \in 1..N /\ r[k] = a[(N - k) + 1]
    BY <1>3
  <2>3. r \in [1..N -> S]
    BY <1>2, <2>2
  <2> HIDE DEF r
  <2>4. r \in Seq(S) /\ Len(r) = N
    BY <1>3, <2>3
  <2>5. \A m, n \in 1..N : m < n => r[n] < r[m]
    BY <1>2, <1>3, <2>2
  <2>6. \A m, n \in 1..N : m < n => r[m] > r[n]
    <3>1. \A n \in 1..N : r[n] \in Nat
      BY <1>1, <2>3
    <3> QED
      BY <2>5, <3>1
  <2>7. ASSUME NEW x \in S PROVE \E n \in 1..N : r[n] = x
    <3>1. PICK n \in 1..N : a[n] = x
      BY <1>2
    <3>2. (N - n) + 1 \in 1..N /\ (N - ((N - n) + 1)) + 1 = n
      BY <1>3
    <3> QED
      BY <2>2, <3>1, <3>2
  <2> QED
    BY <1>5, <2>1, <2>4, <2>6, <2>7 DEF InSequence, Members, Comes, S
<1> QED
  BY <1>4, <1>5

-----------------------------------------------------------------------------
(* Reading page by page *)

IsPage(page, list, cursor, start, end) ==
  /\ page.items = SubSeq(list, start + 1, end)
  /\ IF cursor = None THEN start = 0 ELSE start # 0 /\ list[start] = cursor
  /\ IF page.next = None THEN end = Len(list) ELSE end > start /\ page.next = list[end]

LEMMA PageIs ==
  ASSUME NEW list \in Seq(Nat), NEW limit \in Nat,
         NEW cursor \in Members(list) \cup {None}
  PROVE  \E start \in 0..Len(list) : \E end \in start..Len(list) :
           IsPage(Page(list, cursor, limit), list, cursor, start, end)
<1> DEFINE start == Start(list, cursor)
           size == IF limit = 0 THEN 1 ELSE limit
           end == IF start + size < Len(list) THEN start + size ELSE Len(list)
<1>1. None \notin Nat
  BY TicketsAssumption
<1>2. /\ start \in 0..Len(list)
      /\ IF cursor = None THEN start = 0 ELSE start # 0 /\ list[start] = cursor
  <2>1. CASE cursor = None
    BY <2>1 DEF Start
  <2>2. CASE cursor # None
    <3>1. \E n \in DOMAIN list : list[n] = cursor
      BY <2>2 DEF Members
    <3>2. start = CHOOSE n \in DOMAIN list : list[n] = cursor
      BY <2>2 DEF Start
    <3> HIDE DEF start
    <3>3. start \in DOMAIN list /\ list[start] = cursor
      BY <3>1, <3>2
    <3> QED
      BY <2>2, <3>3
  <2> QED
    BY <2>1, <2>2
<1>3. /\ Page(list, cursor, limit).items = SubSeq(list, start + 1, end)
      /\ Page(list, cursor, limit).next = IF end < Len(list) THEN list[end] ELSE None
  BY DEF Page
<1> HIDE DEF start
<1>4. size \in Nat /\ size > 0 /\ start \in Nat
  BY <1>2
<1> HIDE DEF size
<1>5. end \in start..Len(list) /\ (end < Len(list) => end > start)
  BY <1>2, <1>4
<1> HIDE DEF end
<1>6. end < Len(list) => list[end] \in Nat /\ list[end] # None
  BY <1>1, <1>2, <1>5
<1>7. IF Page(list, cursor, limit).next = None
        THEN end = Len(list)
        ELSE end > start /\ Page(list, cursor, limit).next = list[end]
  BY <1>2, <1>3, <1>5, <1>6
<1> QED
  BY <1>2, <1>3, <1>5, <1>7 DEF IsPage

(* Where a reader is: what it has seen ends with the cursor, and of what it *)
(* expects it has seen everything up to there.                             *)
Follows(order, cursor, seen, expected, on) ==
  /\ expected \subseteq on
  /\ IF cursor = None
       THEN seen = <<>>
       ELSE /\ cursor \in on /\ seen # <<>> /\ seen[Len(seen)] = cursor
            /\ \A c \in expected : Comes(order, cursor, c) \/ c \in Members(seen)

(* Members of the two parts of a sequence.                                 *)
LEMMA Concatenated ==
  ASSUME NEW p \in Seq(Nat), NEW q \in Seq(Nat)
  PROVE  /\ p \o q \in Seq(Nat) /\ Len(p \o q) = Len(p) + Len(q)
         /\ \A n \in 1..Len(p) : (p \o q)[n] = p[n]
         /\ \A n \in 1..Len(q) : (p \o q)[Len(p) + n] = q[n]
         /\ \A n \in 1..Len(p \o q) : n \notin 1..Len(p) =>
              n - Len(p) \in 1..Len(q) /\ (p \o q)[n] = q[n - Len(p)]
OBVIOUS

LEMMA SeenInSequence ==
  ASSUME NEW order, NEW p \in Seq(Nat), NEW q \in Seq(Nat),
         InSequence(order, p), InSequence(order, q),
         \A m \in 1..Len(p), n \in 1..Len(q) : Comes(order, p[m], q[n])
  PROVE  InSequence(order, p \o q)
<1> DEFINE both == p \o q
<1>1. /\ Len(both) = Len(p) + Len(q)
      /\ \A n \in 1..Len(p) : both[n] = p[n]
      /\ \A n \in 1..Len(both) : n \notin 1..Len(p) =>
           n - Len(p) \in 1..Len(q) /\ both[n] = q[n - Len(p)]
  BY Concatenated
<1>2. Len(p) \in Nat /\ Len(q) \in Nat
  OBVIOUS
<1> HIDE DEF both
<1>3. ASSUME NEW m \in 1..Len(both), NEW n \in 1..Len(both), m < n
      PROVE  Comes(order, both[m], both[n])
  <2>1. CASE n \in 1..Len(p)
    <3>1. m \in 1..Len(p)
      BY <1>2, <1>3, <2>1
    <3> QED
      BY <1>1, <1>3, <2>1, <3>1 DEF InSequence
  <2>2. CASE n \notin 1..Len(p) /\ m \in 1..Len(p)
    BY <1>1, <2>2
  <2>3. CASE n \notin 1..Len(p) /\ m \notin 1..Len(p)
    <3>1. m - Len(p) < n - Len(p)
      BY <1>1, <1>2, <1>3
    <3> QED
      BY <1>1, <2>3, <3>1 DEF InSequence
  <2> QED
    BY <2>1, <2>2, <2>3
<1> QED
  BY <1>3 DEF InSequence, both

(* A page read: the reader has seen more, in order, and is told that there *)
(* is no more only when it has seen what it expects.                       *)
LEMMA PageRead ==
  ASSUME NEW on \in SUBSET Nat, NEW order, NEW list \in Seq(on),
         InSequence(order, list), on \subseteq Members(list),
         NEW seen \in Seq(Nat), InSequence(order, seen),
         NEW cursor \in on \cup {None}, NEW expected,
         Follows(order, cursor, seen, expected, on),
         NEW page, NEW start \in 0..Len(list), NEW end \in start..Len(list),
         IsPage(page, list, cursor, start, end)
  PROVE  /\ page.items \in Seq(on) /\ InSequence(order, seen \o page.items)
         /\ IF page.next = None
              THEN expected \subseteq Members(seen \o page.items)
              ELSE Follows(order, page.next, seen \o page.items, expected, on)
<1> DEFINE items == page.items
           more == seen \o items
<1>1. items = SubSeq(list, start + 1, end) /\ Len(list) \in Nat
  BY DEF IsPage
<1>2. /\ items \in Seq(on) /\ Len(items) = end - start
      /\ \A n \in 1..(end - start) : items[n] = list[start + n]
  <2>1. \A n \in (start + 1)..end : list[n] \in on
    OBVIOUS
  <2> QED
    BY <1>1, <2>1
<1>3. start \in Nat /\ end \in Nat /\ start <= end /\ end <= Len(list)
  OBVIOUS
<1>4. \A n \in 1..Len(list) : list[n] \in on /\ list[n] \in Nat
  <2>1. \A n \in 1..Len(list) : list[n] \in on
    OBVIOUS
  <2>2. \A x \in on : x \in Nat
    OBVIOUS
  <2> QED
    BY <2>1, <2>2
<1>5. items \in Seq(Nat)
  BY <1>2, LargerSet
<1> HIDE DEF items
<1>6. /\ more \in Seq(Nat) /\ Len(more) = Len(seen) + Len(items)
      /\ \A n \in 1..Len(seen) : more[n] = seen[n]
      /\ \A n \in 1..Len(items) : more[Len(seen) + n] = items[n]
  BY <1>5, Concatenated
<1>7. Len(seen) \in Nat /\ \A n \in 1..Len(seen) : seen[n] \in Nat
  OBVIOUS
<1>8. \A n \in 1..Len(items) : start + n \in 1..Len(list) /\ items[n] = list[start + n]
  BY <1>1, <1>2, <1>3
<1>9. InSequence(order, items)
  <2>1. ASSUME NEW m \in 1..Len(items), NEW n \in 1..Len(items), m < n
        PROVE  Comes(order, items[m], items[n])
    <3>1. start + m < start + n
      BY <1>3, <2>1
    <3> QED
      BY <1>8, <3>1 DEF InSequence
  <2> QED
    BY <2>1 DEF InSequence
<1>10. ASSUME cursor # None
       PROVE  /\ start \in 1..Len(list) /\ list[start] = cursor /\ cursor \in Nat
              /\ Len(seen) \in 1..Len(seen) /\ seen[Len(seen)] = cursor
              /\ \A c \in expected : Comes(order, cursor, c) \/ c \in Members(seen)
  <2>1. start # 0 /\ list[start] = cursor
    BY <1>10 DEF IsPage
  <2>2. /\ seen # <<>> /\ seen[Len(seen)] = cursor
        /\ \A c \in expected : Comes(order, cursor, c) \/ c \in Members(seen)
    BY <1>10 DEF Follows
  <2>3. Len(seen) # 0
    BY <2>2
  <2>4. start \in 1..Len(list) /\ Len(seen) \in 1..Len(seen)
    BY <1>3, <1>7, <2>1, <2>3
  <2> QED
    BY <1>4, <2>1, <2>2, <2>4
<1>11. ASSUME cursor = None
       PROVE  start = 0 /\ Len(seen) = 0
  BY <1>11 DEF Follows, IsPage
<1>12. ASSUME NEW m \in 1..Len(seen), NEW n \in 1..Len(items)
       PROVE  Comes(order, seen[m], items[n])
  <2>1. cursor # None
    BY <1>7, <1>11
  <2>2. start + n \in 1..Len(list) /\ start < start + n /\ items[n] = list[start + n]
    BY <1>2, <1>3, <1>8
  <2>3. Comes(order, cursor, items[n])
    BY <1>10, <2>1, <2>2 DEF InSequence
  <2>4. CASE m = Len(seen)
    BY <1>10, <2>1, <2>3, <2>4
  <2>5. CASE m # Len(seen)
    <3>1. m < Len(seen) /\ seen[m] \in Nat
      BY <1>7, <2>5
    <3>2. Comes(order, seen[m], cursor)
      BY <1>10, <2>1, <3>1 DEF InSequence
    <3>3. items[n] \in Nat /\ cursor \in Nat
      BY <1>4, <1>10, <2>1, <2>2
    <3> QED
      BY <2>3, <3>1, <3>2, <3>3, ComesOrders
  <2> QED
    BY <2>4, <2>5
<1>13. InSequence(order, more)
  BY <1>5, <1>9, <1>12, SeenInSequence
<1>14. ASSUME NEW c \in expected
       PROVE  \E k \in 1..Len(list) : list[k] = c
  BY DEF Members, Follows
<1>15. \A n \in 1..Len(more) : more[n] \in Members(more)
  BY DEF Members
<1>16. ASSUME NEW c \in expected, NEW k \in 1..end, list[k] = c
       PROVE  c \in Members(more)
  <2>1. CASE k > start
    <3>1. k - start \in 1..Len(items) /\ start + (k - start) = k
      BY <1>2, <1>3, <2>1
    <3>2. Len(seen) + (k - start) \in 1..Len(more)
      BY <1>2, <1>6, <1>7, <3>1
    <3>3. more[Len(seen) + (k - start)] = c
      BY <1>6, <1>8, <1>16, <3>1
    <3> QED
      BY <1>15, <3>2, <3>3
  <2>2. CASE c \in Members(seen)
    <3>1. PICK m \in 1..Len(seen) : seen[m] = c
      BY <2>2 DEF Members
    <3>2. m \in 1..Len(more)
      BY <1>2, <1>6, <1>7, <1>3
    <3> QED
      BY <1>6, <1>15, <3>1, <3>2
  <2>3. CASE k <= start /\ c \notin Members(seen)
    <3>1. cursor # None
      BY <1>11, <2>3
    <3>2. Comes(order, cursor, c)
      BY <1>10, <2>3, <3>1
    <3>3. c \in Nat /\ k \in 1..Len(list) /\ cursor \in Nat
      BY <1>3, <1>4, <1>10, <1>16, <3>1
    <3>4. k # start
      BY <1>10, <1>16, <3>1, <3>2, <3>3, ComesOrders
    <3>5. k < start
      BY <1>3, <2>3, <3>4
    <3>6. Comes(order, c, cursor)
      BY <1>10, <1>16, <3>1, <3>3, <3>5 DEF InSequence
    <3> QED
      BY <3>2, <3>3, <3>6, ComesOrders
  <2> QED
    <3>1. k > start \/ k <= start
      BY <1>3
    <3> QED
      BY <2>1, <2>2, <2>3, <3>1
<1>17. CASE page.next = None
  <2>1. end = Len(list)
    BY <1>17 DEF IsPage
  <2>2. \A c \in expected : c \in Members(more)
    BY <1>14, <1>16, <2>1
  <2> QED
    BY <1>2, <1>13, <1>17, <2>2 DEF items
<1>18. CASE page.next # None
  <2>1. end > start /\ page.next = list[end]
    BY <1>18 DEF IsPage
  <2>2. end \in 1..Len(list)
    BY <1>3, <2>1
  <2>3. Len(more) = Len(seen) + (end - start) /\ end - start \in 1..Len(items)
    BY <1>2, <1>3, <1>6, <2>1
  <2>4. more[Len(more)] = list[end] /\ more # <<>>
    <3>1. more[Len(more)] = items[end - start]
      BY <1>6, <2>3
    <3>2. start + (end - start) = end
      BY <1>3
    <3>3. items[end - start] = list[end]
      BY <1>8, <2>3, <3>2
    <3>4. Len(more) # 0
      BY <1>7, <2>3
    <3> QED
      BY <1>6, <3>1, <3>3, <3>4
  <2>5. ASSUME NEW c \in expected
        PROVE  Comes(order, list[end], c) \/ c \in Members(more)
    <3>1. PICK k \in 1..Len(list) : list[k] = c
      BY <1>14
    <3>2. CASE k \in 1..end
      BY <1>16, <3>1, <3>2
    <3>3. CASE k \notin 1..end
      <4>1. end < k
        BY <1>3, <3>3
      <4> QED
        BY <2>2, <3>1, <4>1 DEF InSequence
    <3> QED
      BY <3>2, <3>3
  <2>6. list[end] \in on
    BY <1>4, <2>2
  <2>7. Follows(order, page.next, more, expected, on)
    <3>1. expected \subseteq on
      BY DEF Follows
    <3> HIDE DEF more
    <3> QED
      BY <1>18, <2>1, <2>4, <2>5, <2>6, <3>1 DEF Follows
  <2> QED
    BY <1>2, <1>13, <1>18, <2>7 DEF items
<1> QED
  BY <1>17, <1>18

(* The entities that ever were: no issue id is given out twice and no      *)
(* project is ever removed, so that of these none comes back.              *)
Known == {<<"issue", i>> : i \in used} \cup {<<"project", p>> : p \in DOMAIN projects}

ReaderTyped ==
  /\ reader.state = "reading" => reader.on \in Known
  /\ reader \in [state : {"idle", "reading", "done"}, on : Known \cup {None},
                 order : {"asc", "desc"}, limit : Nat, cursor : CommentIds \cup {None},
                 seen : Seq(CommentIds), expected : SUBSET CommentIds]

ReaderFit ==
  /\ ReaderTyped
  /\ InSequence(reader.order, reader.seen)
  /\ reader.state = "done" => reader.expected \subseteq Members(reader.seen)
  /\ reader.state = "reading" /\ reader.on \in Entities =>
       Follows(reader.order, reader.cursor, reader.seen, reader.expected,
               CommentsOn(reader.on))

(* What every step does for a reader it leaves alone: entities go, never   *)
(* to come back, and on one that stays comments are only added.            *)
Forward ==
  /\ Known \subseteq Known' /\ CommentIds \subseteq CommentIds'
  /\ \A e \in Known : e \in Entities' =>
       e \in Entities /\ CommentsOn(e) \subseteq CommentsOn(e)'

LEMMA ForwardFits ==
  ASSUME ReaderFit, Forward, UNCHANGED reader
  PROVE  ReaderFit'
<1>1. ReaderTyped'
  <2>1. Seq(CommentIds) \subseteq Seq(CommentIds')
    BY LargerSet DEF Forward
  <2> QED
    BY <2>1 DEF ReaderFit, ReaderTyped, Forward
<1>2. ASSUME reader.state = "reading", reader.on \in Entities'
      PROVE  Follows(reader.order, reader.cursor, reader.seen, reader.expected,
                     CommentsOn(reader.on)')
  <2>1. reader.on \in Known
    BY <1>2 DEF ReaderFit, ReaderTyped
  <2>2. reader.on \in Entities /\ CommentsOn(reader.on) \subseteq CommentsOn(reader.on)'
    BY <1>2, <2>1 DEF Forward
  <2>3. Follows(reader.order, reader.cursor, reader.seen, reader.expected,
                CommentsOn(reader.on))
    BY <1>2, <2>2 DEF ReaderFit
  <2> QED
    BY <2>2, <2>3 DEF Follows
<1> QED
  BY <1>1, <1>2 DEF ReaderFit

LEMMA StepForward == Fits /\ [Next]_vars => Forward
<1> SUFFICES ASSUME Fits, [Next]_vars PROVE Forward
  OBVIOUS
<1> USE DEF Forward, Known, Entities, CommentIds, CommentsOn
<1>0. /\ lastComment \in Nat /\ DOMAIN comments \subseteq CommentIds
      /\ DOMAIN issues \subseteq used
  BY TicketsAssumption DEF Fits, CommentsFit, UsedFit
<1>1. ASSUME lastComment' = lastComment + 1,
             NEW c, comments' = With(comments, lastComment + 1, c)
      PROVE  CommentIds \subseteq CommentIds' /\ \A e : CommentsOn(e) \subseteq CommentsOn(e)'
  <2>1. /\ DOMAIN comments' = DOMAIN comments \cup {lastComment + 1}
        /\ \A n \in DOMAIN comments : comments'[n] = comments[n]
    BY <1>1, NewComment DEF Fits
  <2> QED
    BY <1>0, <1>1, <2>1
<1>2. ASSUME UNCHANGED <<comments, lastComment>>
      PROVE  CommentIds \subseteq CommentIds' /\ \A e : CommentsOn(e) \subseteq CommentsOn(e)'
  BY <1>2
<1>3. ASSUME DOMAIN projects' = DOMAIN projects, DOMAIN issues' = DOMAIN issues, used' = used
      PROVE  Known' = Known /\ Entities' = Entities
  BY <1>3
<1>4. ASSUME NEW p \in Projects, NEW name \in Names, ProjectCreate(p, name) PROVE Forward
  <2>1. /\ UNCHANGED <<issues, used, comments, lastComment>>
        /\ DOMAIN projects' = DOMAIN projects \cup {p} /\ p \notin DOMAIN projects
    BY <1>4 DEF ProjectCreate, With, commentVars
  <2> QED
    BY <1>2, <2>1
<1>5. ASSUME NEW p \in Projects, NEW key \in Keys, ProjectSetIdentifier(p, key) PROVE Forward
  <2>1. /\ UNCHANGED <<issues, used, comments, lastComment>>
        /\ DOMAIN projects' = DOMAIN projects
    BY <1>5 DEF ProjectSetIdentifier, commentVars
  <2> QED
    BY <1>2, <1>3, <2>1
<1>6. ASSUME NEW i \in Issues, IssueCreate(i) PROVE Forward
  <2>1. /\ UNCHANGED <<projects, comments, lastComment>> /\ i \notin used
        /\ used' = used \cup {i} /\ DOMAIN issues' = DOMAIN issues \cup {i}
    BY <1>6 DEF IssueCreate, With, commentVars
  <2> QED
    BY <1>2, <2>1
<1>7. ASSUME NEW i \in Issues, NEW p \in Projects, IssueAssignProject(i, p) PROVE Forward
  <2>1. UNCHANGED <<projects, used>> /\ DOMAIN issues' = DOMAIN issues
    BY <1>7 DEF IssueAssignProject
  <2>2. CASE issues[i].project # p
    BY <1>1, <1>3, <1>7, <2>1, <2>2 DEF IssueAssignProject, Record
  <2>3. CASE issues[i].project = p
    BY <1>2, <1>3, <1>7, <2>1, <2>3 DEF IssueAssignProject, commentVars
  <2> QED
    BY <2>2, <2>3
<1>8. ASSUME NEW i \in Issues, IssueUnassignProject(i) PROVE Forward
  <2>1. UNCHANGED <<projects, used>> /\ DOMAIN issues' = DOMAIN issues
    BY <1>8 DEF IssueUnassignProject
  <2> QED
    BY <1>1, <1>3, <1>8, <2>1 DEF IssueUnassignProject, Record
<1>9. ASSUME NEW i \in Issues, IssueDelete(i) PROVE Forward
  <2>1. /\ UNCHANGED <<projects, used, lastComment>>
        /\ DOMAIN issues' = DOMAIN issues \ {i}
        /\ comments' = [n \in DOMAIN comments \ CommentsOn(<<"issue", i>>) |-> comments[n]]
    BY <1>9 DEF IssueDelete, CommentsWithout
  <2>2. \A e : e # <<"issue", i>> => CommentsOn(e) \subseteq CommentsOn(e)'
    BY <2>1
  <2>3. <<"issue", i>> \notin Entities' /\ Entities' \subseteq Entities
    BY <2>1
  <2> QED
    BY <2>1, <2>2, <2>3
<1>10. CASE CommentStep
  <2>1. UNCHANGED <<projects, issues, used>>
    BY <1>10 DEF CommentStep, CommentAdd, ReadFirst, ReadPage, ticketVars
  <2>2. ASSUME NEW e \in Entities, CommentAdd(e) PROVE Forward
    BY <1>1, <1>3, <2>1, <2>2 DEF CommentAdd
  <2>3. CASE UNCHANGED <<comments, lastComment>>
    BY <1>2, <1>3, <2>1, <2>3
  <2> QED
    BY <1>10, <2>2, <2>3 DEF CommentStep, ReadFirst, ReadPage, commentVars
<1>11. CASE Reload
  <2>1. UNCHANGED <<projects, issues, used, comments, lastComment>>
    BY <1>11, ReloadKeeps DEF Fits, Reload, commentVars
  <2> QED
    BY <1>2, <1>3, <2>1
<1>12. CASE UNCHANGED vars
  BY <1>2, <1>3, <1>12 DEF vars, ticketVars, commentVars
<1> QED
  BY <1>4, <1>5, <1>6, <1>7, <1>8, <1>9, <1>10, <1>11, <1>12
     DEF Next, ProjectStep, IssueStep

LEMMA IdleFits ==
  ASSUME reader' = Idle
  PROVE  ReaderFit'
<1>1. /\ Idle.state = "idle" /\ Idle.seen = <<>>
      /\ Idle \in [state : {"idle", "reading", "done"}, on : Known' \cup {None},
                   order : {"asc", "desc"}, limit : Nat, cursor : CommentIds' \cup {None},
                   seen : Seq(CommentIds'), expected : SUBSET CommentIds']
  BY DEF Idle
<1> QED
  BY <1>1 DEF ReaderFit, ReaderTyped, InSequence

LEMMA ReadFirstFits ==
  ASSUME Fits, ReaderFit, NEW e \in Entities, NEW order \in {"asc", "desc"},
         NEW limit \in Limits, ReadFirst(e, order, limit)
  PROVE  ReaderFit'
<1>1. UNCHANGED <<projects, issues, migrations, used, comments, lastComment>>
  BY DEF ReadFirst, ticketVars, commentVars
<1>2. reader' = [state |-> "reading", on |-> e, order |-> order, limit |-> limit,
                 cursor |-> None, seen |-> <<>>, expected |-> CommentsOn(e)]
  BY DEF ReadFirst, Idle
<1>3. CommentsOn(e) \subseteq CommentIds /\ e \in Known /\ limit \in Nat
  BY TicketsAssumption DEF Fits, CommentsFit, UsedFit, CommentsOn, Entities, Known
<1>4. CommentIds' = CommentIds /\ Known' = Known /\ CommentsOn(e)' = CommentsOn(e)
  BY <1>1 DEF CommentIds, Known, CommentsOn
<1>5. ReaderTyped'
  BY <1>2, <1>3, <1>4 DEF ReaderTyped
<1>6. /\ reader'.state = "reading" /\ reader'.on = e /\ reader'.order = order
      /\ reader'.cursor = None /\ reader'.seen = <<>> /\ reader'.expected = CommentsOn(e)
  BY <1>2
<1>7. Follows(order, None, <<>>, CommentsOn(e), CommentsOn(e)) /\ InSequence(order, <<>>)
  BY DEF Follows, InSequence
<1> QED
  BY <1>4, <1>5, <1>6, <1>7 DEF ReaderFit

LEMMA ReadPageFits ==
  ASSUME Fits, ReaderFit, ReadPage
  PROVE  ReaderFit'
<1>1. UNCHANGED <<projects, issues, migrations, used, comments, lastComment>>
  BY DEF ReadPage, ticketVars, commentVars
<1>2. CASE reader.on \notin Entities
  BY <1>2, IdleFits DEF ReadPage
<1>3. CASE reader.on \in Entities
  <2> DEFINE on == CommentsOn(reader.on)
             list == Listed(reader.on, reader.order)
             page == Page(list, reader.cursor, reader.limit)
             seen == reader.seen \o page.items
  <2>1. /\ CommentIds' = CommentIds /\ Known' = Known /\ Entities' = Entities
        /\ \A e : CommentsOn(e)' = CommentsOn(e)
    BY <1>1 DEF CommentIds, Known, Entities, CommentsOn
  <2>2. /\ reader.state = "reading"
        /\ reader' = [reader EXCEPT !.seen = seen, !.cursor = page.next,
                                    !.state = IF page.next = None THEN "done" ELSE "reading"]
    BY <1>3 DEF ReadPage
  <2>3. on \in SUBSET CommentIds
    BY DEF Fits, CommentsFit, CommentsOn
  <2>4. CommentIds \in SUBSET Nat
    BY DEF CommentIds
  <2>5. /\ reader.order \in {"asc", "desc"} /\ reader.limit \in Nat
        /\ reader.seen \in Seq(CommentIds) /\ reader.expected \subseteq CommentIds
        /\ reader.on \in Known /\ InSequence(reader.order, reader.seen)
        /\ Follows(reader.order, reader.cursor, reader.seen, reader.expected, on)
    BY <1>3, <2>2 DEF ReaderFit, ReaderTyped
  <2>6. reader.cursor \in on \cup {None}
    BY <2>5 DEF Follows
  <2>7. list \in Seq(on) /\ InSequence(reader.order, list) /\ on \subseteq Members(list)
    BY ListedIs DEF Fits
  <2> HIDE DEF on, list
  <2>8. on \in SUBSET Nat /\ list \in Seq(Nat) /\ reader.seen \in Seq(Nat)
    <3>1. on \in SUBSET Nat
      BY <2>3, <2>4
    <3> QED
      BY <2>4, <2>5, <2>7, <3>1, LargerSet
  <2>9. reader.cursor \in Members(list) \cup {None}
    BY <2>6, <2>7
  <2>10. PICK start \in 0..Len(list) : \E end \in start..Len(list) :
           IsPage(page, list, reader.cursor, start, end)
    BY <2>5, <2>8, <2>9, PageIs
  <2>11. PICK end \in start..Len(list) : IsPage(page, list, reader.cursor, start, end)
    BY <2>10
  <2> HIDE DEF page
  <2>12. /\ page.items \in Seq(on) /\ InSequence(reader.order, seen)
         /\ IF page.next = None
              THEN reader.expected \subseteq Members(seen)
              ELSE Follows(reader.order, page.next, seen, reader.expected, on)
    BY <2>5, <2>6, <2>7, <2>8, <2>11, PageRead
  <2>13. seen \in Seq(CommentIds) /\ page.next \in CommentIds \cup {None}
    <3>1. page.items \in Seq(CommentIds)
      BY <2>3, <2>12, LargerSet
    <3>2. page.next # None => page.next \in on
      BY <2>12 DEF Follows
    <3> QED
      BY <2>3, <2>5, <3>1, <3>2
  <2> HIDE DEF seen
  <2>14. /\ reader'.seen = seen /\ reader'.cursor = page.next
         /\ reader'.state = IF page.next = None THEN "done" ELSE "reading"
         /\ reader'.order = reader.order /\ reader'.expected = reader.expected
         /\ reader'.on = reader.on
    BY <2>2 DEF ReaderFit, ReaderTyped
  <2>15. ReaderTyped'
    BY <2>1, <2>2, <2>5, <2>13 DEF ReaderFit, ReaderTyped
  <2> QED
    BY <2>1, <2>12, <2>14, <2>15 DEF ReaderFit, on
<1> QED
  BY <1>2, <1>3

LEMMA InitFits == Init => Fits /\ ReaderFit
<1> SUFFICES ASSUME Init PROVE Fits /\ ReaderFit
  OBVIOUS
<1> DEFINE none == <<>>
<1>1. /\ migrations = none /\ comments = none /\ lastComment = 0
      /\ used = DOMAIN issues /\ reader = Idle
  BY DEF Init
<1>2. DOMAIN none = {} /\ none = [n \in {} |-> 0] /\ \A S : none \in Seq(S)
  OBVIOUS
<1>3. \A is : MovesOf(none, is) = none
  BY MovesOfNothing
<1>4. Len(none) = 0
  OBVIOUS
<1>5. IInv
  BY InitInOrder
<1>6. UsedFit
  BY <1>1, <1>5 DEF UsedFit, IInv, InOrder
<1>7. MovesFit
  <2>1. \A issue : Chain(none, issue)
    BY DEF Chain
  <2> HIDE DEF none
  <2> QED
    BY <1>1, <1>2, <1>3, <2>1 DEF MovesFit
<1> HIDE DEF none
<1>8. CommentsFit
  <2>1. comments = [n \in DOMAIN comments |-> comments[n]] /\ DOMAIN comments = {}
    BY <1>1, <1>2
  <2>2. lastComment \in 0..MaxComments
    BY <1>1, TicketsAssumption
  <2> QED
    BY <2>1, <2>2 DEF CommentsFit
<1>9. NotesFit
  <2>1. \A i : Notes(i) = {}
    BY <1>1, <1>2 DEF Notes, CommentsOn
  <2> QED
    BY <1>1, <1>3, <1>4, <2>1, FS_EmptySet DEF NotesFit
<1>10. ReaderFit
  <2>1. /\ Idle.state = "idle" /\ Idle.seen = <<>>
        /\ Idle \in [state : {"idle", "reading", "done"}, on : Known \cup {None},
                     order : {"asc", "desc"}, limit : Nat, cursor : CommentIds \cup {None},
                     seen : Seq(CommentIds), expected : SUBSET CommentIds]
    BY DEF Idle
  <2> QED
    BY <1>1, <2>1 DEF ReaderFit, ReaderTyped, InSequence
<1> QED
  BY <1>5, <1>6, <1>7, <1>8, <1>9, <1>10 DEF Fits

LEMMA StepReaderFits == Fits /\ ReaderFit /\ [Next]_vars => ReaderFit'
<1> SUFFICES ASSUME Fits, ReaderFit, [Next]_vars PROVE ReaderFit'
  OBVIOUS
<1>1. Forward
  BY StepForward
<1>2. CASE UNCHANGED reader
  BY <1>1, <1>2, ForwardFits
<1>3. ASSUME NEW e \in Entities, NEW order \in {"asc", "desc"}, NEW limit \in Limits,
             ReadFirst(e, order, limit)
      PROVE  ReaderFit'
  BY <1>3, ReadFirstFits
<1>4. CASE ReadPage
  BY <1>4, ReadPageFits
<1> QED
  BY <1>2, <1>3, <1>4
     DEF Next, ProjectStep, IssueStep, CommentStep, ProjectCreate, ProjectSetIdentifier,
         IssueCreate, IssueAssignProject, IssueUnassignProject, IssueDelete, CommentAdd,
         Reload, vars

(* Both halves of the inductive invariant.                                 *)
LEMMA AlwaysFits == Spec => [](Fits /\ ReaderFit)
<1>1. (Fits /\ ReaderFit) /\ [Next]_vars => (Fits /\ ReaderFit)'
  BY StepFits, StepReaderFits
<1> QED
  BY <1>1, InitFits, PTL DEF Spec

LEMMA FitsTyped == Fits /\ ReaderFit => TypeOK
<1> SUFFICES ASSUME Fits, ReaderFit PROVE TypeOK
  OBVIOUS
<1>1. projects \in [DOMAIN projects -> [name : Names, key : Keys]] /\ DOMAIN projects \subseteq Projects
  BY DEF Fits, IInv, InOrder, ProjectsInOrder
<1>2. ASSUME NEW i \in DOMAIN issues
      PROVE  \/ issues[i] = AdHoc
             \/ issues[i] \in [project : DOMAIN projects, number : Nat \ {0},
                               identifier : Identifiers]
  BY <1>1 DEF Fits, IInv, InOrder, IssueInOrder, Identifiers
<1>3. migrations \in Seq([issue : Issues,
                          from : Projects \cup {None}, fromId : Identifiers \cup {None},
                          to : Projects \cup {None}, toId : Identifiers \cup {None}])
  <2>1. DOMAIN issues \subseteq Issues
    BY DEF Fits, UsedFit
  <2>2. MoveRecord(DOMAIN issues) \subseteq MoveRecord(Issues)
    BY <2>1 DEF MoveRecord
  <2>3. migrations \in Seq(MoveRecord(DOMAIN issues))
    BY DEF Fits, MovesFit
  <2>4. migrations \in Seq(MoveRecord(Issues))
    BY <2>2, <2>3, LargerSet
  <2> QED
    BY <2>4 DEF MoveRecord
<1>4. comments \in [DOMAIN comments ->
        [on : ({"issue"} \X Issues) \cup ({"project"} \X Projects), body : {"moved", "user"}]]
  <2>1. Entities \subseteq ({"issue"} \X Issues) \cup ({"project"} \X Projects)
    BY <1>1 DEF Entities, Fits, UsedFit
  <2>2. CommentRecord \subseteq
          [on : ({"issue"} \X Issues) \cup ({"project"} \X Projects), body : {"moved", "user"}]
    BY <2>1 DEF CommentRecord
  <2>3. comments \in [DOMAIN comments -> CommentRecord]
    BY DEF Fits, CommentsFit
  <2> QED
    BY <2>2, <2>3
<1>5. /\ lastComment \in 0..MaxComments /\ DOMAIN comments \subseteq CommentIds
      /\ DOMAIN issues \subseteq used /\ used \subseteq Issues
  BY DEF Fits, CommentsFit, UsedFit
<1>6. /\ reader.state \in {"idle", "reading", "done"}
      /\ reader.cursor \in CommentIds \cup {None} /\ reader.seen \in Seq(CommentIds)
  BY DEF ReaderFit, ReaderTyped
<1> QED
  BY <1>1, <1>2, <1>3, <1>4, <1>5, <1>6 DEF TypeOK

-----------------------------------------------------------------------------
(* Moves, their comments and listings *)

(* The records of an issue's moves are a chain that ends where the issue   *)
(* is (MigrationChain), for any number of projects, issues and moves:      *)
(* issue_assign_project, issue_unassign_project and issue_delete keep      *)
(* issue_migrations in step with the issues.                               *)
THEOREM MovesLeadHere == Spec => []MigrationChain
<1>1. Fits /\ ReaderFit => MigrationChain
  <2> SUFFICES ASSUME Fits, ReaderFit PROVE MigrationChain
    OBVIOUS
  <2>1. \A i \in DOMAIN issues : Chain(MovesOf(migrations, {i}), issues[i])
    BY DEF Fits, MovesFit
  <2> QED
    BY <2>1, FitsTyped DEF MigrationChain, Chain
<1> QED
  BY <1>1, AlwaysFits, PTL

(* An issue has one comment for each record of a move (MovesAreNoted), and *)
(* what issue_delete leaves mentions no issue that is gone.                *)
THEOREM EveryMoveIsNoted == Spec => []MovesAreNoted
<1>1. Fits => MovesAreNoted
  <2> SUFFICES ASSUME Fits PROVE MovesAreNoted
    OBVIOUS
  <2>1. \A n \in DOMAIN migrations : migrations[n].issue \in DOMAIN issues
    <3>1. migrations \in Seq(MoveRecord(DOMAIN issues))
      BY DEF Fits, MovesFit
    <3>2. \A n \in DOMAIN migrations : migrations[n] \in MoveRecord(DOMAIN issues)
      BY <3>1
    <3> QED
      BY <3>2 DEF MoveRecord
  <2>2. \A n \in DOMAIN comments : comments[n].on \in Entities
    BY DEF Fits, CommentsFit, CommentRecord
  <2> QED
    BY <2>1, <2>2 DEF MovesAreNoted, Fits, NotesFit, Notes
<1> QED
  BY <1>1, AlwaysFits, PTL

(* Who follows the cursors of comment_list to the end has seen everything  *)
(* that was there at the beginning, in order and once (ListingComplete),   *)
(* for every page size and however many comments are added meanwhile.      *)
THEOREM PagesMissNothing == Spec => []ListingComplete
<1>1. ReaderFit => ListingComplete
  <2> SUFFICES ASSUME ReaderFit PROVE ListingComplete
    OBVIOUS
  <2>1. /\ reader.seen \in Seq(CommentIds) /\ reader.order \in {"asc", "desc"}
        /\ InSequence(reader.order, reader.seen)
        /\ reader.state = "done" => reader.expected \subseteq Members(reader.seen)
    BY DEF ReaderFit, ReaderTyped
  <2>2. ASSUME NEW n \in 1..(Len(reader.seen) - 1)
        PROVE  Comes(reader.order, reader.seen[n], reader.seen[n + 1])
    <3>1. n \in 1..Len(reader.seen) /\ n + 1 \in 1..Len(reader.seen) /\ n < n + 1
      BY <2>1
    <3> QED
      BY <2>1, <3>1 DEF InSequence
  <2>3. DOMAIN reader.seen = 1..Len(reader.seen)
    BY <2>1
  <2> QED
    BY <2>1, <2>2, <2>3 DEF ListingComplete, Comes, Members
<1> QED
  BY <1>1, AlwaysFits, PTL

=============================================================================
