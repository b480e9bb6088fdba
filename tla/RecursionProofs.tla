---------------------------- MODULE RecursionProofs ----------------------------
(***************************************************************************)
(* Proofs about EventFlow and ScreenGrid, the modules whose steps compute  *)
(* by recursion over a sequence: for any number of sessions, events and    *)
(* outputs and a window of every size, for panes of every size, screens of *)
(* any content and every sequence of parameters.                           *)
(*                                                                         *)
(* That the recursive functions exist, and what they compute, is shown by  *)
(* induction over the numbers, in the form of a least counterexample       *)
(* (LeastNumber, Recursion): the lemmas ...Runs and ...Exist(s) show that  *)
(* a function exists, ...From what an element more makes of it.            *)
(*                                                                         *)
(* The inductive invariant of EventFlow is IInv: Lives for the lifecycle,  *)
(* whose log is, session by session, numbered from 1 and a path of allowed *)
(* transitions; Takes for the ingestor, which has accepted the beginning   *)
(* of that path and has seen every number it has passed; FanoutFits for    *)
(* the queues.  That of ScreenGrid is ScreenInv: both screens are grids of *)
(* cells of the size of the pane, and the cursor, the saved position and   *)
(* the scroll region are numbers, the region's last row one of the         *)
(* screen's; PenTyped, for the attributes, stands by itself.               *)
(***************************************************************************)
EXTENDS EventFlow, ScreenGrid, FiniteSetTheorems, SequenceTheorems, WellFoundedInduction, TLAPS

-----------------------------------------------------------------------------
(* Numbers, sequences, recursive functions *)

(* A set of numbers that is not empty has a least element.                 *)
LEMMA LeastNumber ==
  ASSUME NEW T \in SUBSET Nat, T # {}
  PROVE  \E n \in T : \A m \in T : n <= m
<1> DEFINE R == OpToRel(<, Nat)
<1>1. IsWellFoundedOn(R, Nat)
  BY NatLessThanWellFounded
<1>2. PICK n \in T : \A m \in T : ~(<<m, n>> \in R)
  <2> HIDE DEF R
  <2> QED BY <1>1, WFMin
<1>3. \A m \in T : ~(m < n)
  BY <1>2 DEF OpToRel
<1> QED
  BY <1>3

(* A recursive function exists: its values are built up one by one.        *)
LEMMA Recursion ==
  ASSUME NEW U, NEW a \in U, NEW n \in Nat, NEW F \in [1..n -> [U -> U]]
  PROVE  \E t \in [0..n -> U] : t[0] = a /\ \A k \in 1..n : t[k] = F[k][t[k - 1]]
<1> DEFINE UpTo(m, t) == t[0] = a /\ \A k \in 1..m : t[k] = F[k][t[k - 1]]
           Bad == {m \in 0..n : ~ \E t \in [0..m -> U] : UpTo(m, t)}
<1>1. SUFFICES ASSUME Bad # {} PROVE FALSE
  <2>1. n \in 0..n
    OBVIOUS
  <2>2. Bad = {} => \E t \in [0..n -> U] : UpTo(n, t)
    BY <2>1
  <2> QED
    BY <2>2
<1>2. Bad \in SUBSET Nat
  OBVIOUS
<1>3. PICK m \in Bad : \A k \in Bad : m <= k
  BY <1>1, <1>2, LeastNumber
<1>4. m \in 0..n /\ m \in Nat /\ ~ \E t \in [0..m -> U] : UpTo(m, t)
  OBVIOUS
<1>5. CASE m = 0
  <2> DEFINE t == [k \in 0..0 |-> a]
  <2>1. t \in [0..m -> U] /\ UpTo(m, t)
    BY <1>5
  <2> QED
    BY <1>4, <2>1
<1>6. CASE m # 0
  <2>1. m - 1 \in 0..n /\ ~(m <= m - 1) /\ m \in 1..n
    BY <1>4, <1>6
  <2>2. m - 1 \notin Bad
    BY <1>3, <2>1
  <2>3. PICK t \in [0..(m - 1) -> U] : UpTo(m - 1, t)
    BY <2>1, <2>2
  <2> DEFINE u == [k \in 0..m |-> IF k = m THEN F[m][t[m - 1]] ELSE t[k]]
  <2>4. t[m - 1] \in U /\ F[m][t[m - 1]] \in U
    BY <2>1, <2>3
  <2>5. u \in [0..m -> U]
    BY <1>4, <2>4
  <2>6. u[0] = a
    BY <1>4, <1>6, <2>3
  <2>7. ASSUME NEW k \in 1..m PROVE u[k] = F[k][u[k - 1]]
    <3>1. k \in 0..m /\ k - 1 \in 0..m /\ k - 1 # m
      BY <1>4, <2>7
    <3>2. u[k - 1] = t[k - 1]
      BY <3>1
    <3>3. CASE k = m
      BY <3>1, <3>2, <3>3
    <3>4. CASE k # m
      <4>1. k \in 1..(m - 1) /\ u[k] = t[k]
        BY <1>4, <2>7, <3>1, <3>4
      <4> QED
        BY <2>3, <3>2, <4>1
    <3> QED
      BY <3>3, <3>4
  <2> HIDE DEF u
  <2>8. UpTo(m, u)
    BY <2>6, <2>7
  <2> QED
    BY <1>4, <2>5, <2>8
<1> QED
  BY <1>5, <1>6

(* Two functions that begin alike and go on alike are alike.               *)
Alike(t, u, n) ==
  t[0] = u[0] /\ \A k \in 1..n : t[k - 1] = u[k - 1] => t[k] = u[k]

LEMMA SameSteps ==
  ASSUME NEW n \in Nat, NEW t, NEW u, Alike(t, u, n)
  PROVE  \A k \in 0..n : t[k] = u[k]
<1> USE DEF Alike
<1> DEFINE Bad == {k \in 0..n : t[k] # u[k]}
<1>1. SUFFICES ASSUME Bad # {} PROVE FALSE
  OBVIOUS
<1>2. Bad \in SUBSET Nat
  OBVIOUS
<1>3. PICK k \in Bad : \A j \in Bad : k <= j
  BY <1>1, <1>2, LeastNumber
<1>4. k \in 0..n /\ t[k] # u[k]
  OBVIOUS
<1>5. k - 1 \in 0..n /\ k \in 1..n /\ ~(k <= k - 1)
  BY <1>4
<1>6. t[k - 1] = u[k - 1]
  BY <1>3, <1>5
<1> QED
  BY <1>4, <1>5, <1>6

(* Induction over sequences: a set that has the empty sequence and, with a *)
(* sequence, each that is one element longer has all.                      *)
LEMMA SeqInduction ==
  ASSUME NEW M, NEW T, <<>> \in T,
         \A s \in Seq(M), x \in M : s \in T => Append(s, x) \in T
  PROVE  \A s \in Seq(M) : s \in T
<1> DEFINE Bad == {n \in Nat : \E s \in Seq(M) : Len(s) = n /\ s \notin T}
<1>1. SUFFICES ASSUME Bad # {} PROVE FALSE
  OBVIOUS
<1>2. PICK n \in Bad : \A k \in Bad : n <= k
  <2>1. Bad \in SUBSET Nat
    OBVIOUS
  <2> QED
    BY <1>1, <2>1, LeastNumber
<1>3. PICK s \in Seq(M) : Len(s) = n /\ s \notin T
  OBVIOUS
<1>4. CASE s = <<>>
  BY <1>3, <1>4
<1>5. CASE s # <<>>
  <2> DEFINE r == SubSeq(s, 1, Len(s) - 1)
             x == s[Len(s)]
  <2>1. r \in Seq(M) /\ x \in M /\ s = Append(r, x) /\ Len(r) = Len(s) - 1
    BY <1>3, <1>5
  <2>2. n \in Nat /\ n # 0 /\ n - 1 \in Nat /\ ~(n <= n - 1)
    BY <1>3, <1>5
  <2> HIDE DEF r, x
  <2>3. n - 1 \notin Bad
    BY <1>2, <2>2
  <2>4. r \in T
    BY <1>3, <2>1, <2>2, <2>3
  <2> QED
    BY <1>3, <2>1, <2>4
<1> QED
  BY <1>4, <1>5

-----------------------------------------------------------------------------
(* The folds *)

Choice(chosen, x, T) == IF x \in T THEN Append(chosen, x) ELSE chosen

IsChosen(t, q, T) ==
  t = [n \in 0..Len(q) |-> IF n = 0 THEN <<>> ELSE Choice(t[n - 1], q[n], T)]

(* Chosen is computed element by element.                                  *)
LEMMA ChosenRuns ==
  ASSUME NEW M, NEW q \in Seq(M), NEW T
  PROVE  \E t \in [0..Len(q) -> Seq(M)] : IsChosen(t, q, T) /\ Chosen(q, T) = t[Len(q)]
<1> DEFINE N == Len(q)
           U == Seq(M)
           F == [k \in 1..N |-> [p \in U |-> Choice(p, q[k], T)]]
           none == <<>>
           u == CHOOSE u : IsChosen(u, q, T)
<1>0. N \in Nat /\ none \in U
  OBVIOUS
<1>1. \A k \in 1..N, p \in U : Choice(p, q[k], T) \in U
  BY DEF Choice
<1> HIDE DEF U, N, none
<1>2. F \in [1..N -> [U -> U]] /\ \A k \in 1..N, p \in U : F[k][p] = Choice(p, q[k], T)
  BY <1>1
<1> HIDE DEF F
<1>3. PICK t \in [0..N -> U] : t[0] = none /\ \A k \in 1..N : t[k] = F[k][t[k - 1]]
  <2>1. F \in [1..N -> [U -> U]]
    BY <1>2
  <2> QED
    BY <1>0, <2>1, Recursion
<1>4. ASSUME NEW k \in 0..N
      PROVE  t[k] = IF k = 0 THEN none ELSE Choice(t[k - 1], q[k], T)
  <2>1. k # 0 => k \in 1..N /\ k - 1 \in 0..N
    BY <1>0
  <2> QED
    BY <1>2, <1>3, <2>1
<1>5. IsChosen(t, q, T)
  <2>1. t = [k \in 0..N |-> IF k = 0 THEN none ELSE Choice(t[k - 1], q[k], T)]
    BY <1>4
  <2> QED
    BY <2>1 DEF IsChosen, N, none
<1>6. IsChosen(u, q, T)
  BY <1>5
<1>7. Chosen(q, T) = u[N]
  BY DEF Chosen, IsChosen, Choice, N
<1> HIDE DEF u
<1>8. \A k \in 0..N : t[k] = u[k]
  <2>1. /\ \A k \in 0..N : t[k] = IF k = 0 THEN none ELSE Choice(t[k - 1], q[k], T)
        /\ \A k \in 0..N : u[k] = IF k = 0 THEN none ELSE Choice(u[k - 1], q[k], T)
    BY <1>5, <1>6 DEF IsChosen, N, none
  <2>2. t[0] = u[0]
    BY <1>0, <2>1
  <2>3. \A k \in 1..N : t[k - 1] = u[k - 1] => t[k] = u[k]
    <3>1. \A k \in 1..N : k \in 0..N /\ k # 0
      BY <1>0
    <3> QED
      BY <2>1, <3>1
  <2>4. Alike(t, u, N)
    BY <2>2, <2>3 DEF Alike
  <2> QED
    BY <1>0, <2>4, SameSteps
<1>9. t[N] = u[N]
  BY <1>0, <1>8
<1> QED
  BY <1>5, <1>7, <1>9 DEF N, U

(* What an element more adds to what is chosen.                            *)
LEMMA ChosenFrom ==
  ASSUME NEW M, NEW T
  PROVE  /\ Chosen(<<>>, T) = <<>>
         /\ \A q \in Seq(M), x \in M : Chosen(Append(q, x), T) = Choice(Chosen(q, T), x, T)
<1>1. Chosen(<<>>, T) = <<>>
  <2>1. <<>> \in Seq(M) /\ Len(<<>>) = 0
    OBVIOUS
  <2>2. PICK t : IsChosen(t, <<>>, T) /\ Chosen(<<>>, T) = t[0]
    BY <2>1, ChosenRuns
  <2> QED
    BY <2>1, <2>2 DEF IsChosen
<1>2. ASSUME NEW q \in Seq(M), NEW x \in M
      PROVE  Chosen(Append(q, x), T) = Choice(Chosen(q, T), x, T)
  <2> DEFINE more == Append(q, x)
             n == Len(q)
             none == <<>>
  <2>1. /\ more \in Seq(M) /\ Len(more) = n + 1 /\ n \in Nat
        /\ \A k \in 1..n : more[k] = q[k]
        /\ more[n + 1] = x
    OBVIOUS
  <2> HIDE DEF more, n, none
  <2>2. PICK t : IsChosen(t, q, T) /\ Chosen(q, T) = t[n]
    BY ChosenRuns DEF n
  <2>3. PICK u : IsChosen(u, more, T) /\ Chosen(more, T) = u[n + 1]
    BY <2>1, ChosenRuns
  <2>4. /\ \A k \in 0..n : t[k] = IF k = 0 THEN none ELSE Choice(t[k - 1], q[k], T)
        /\ \A k \in 0..(n + 1) : u[k] = IF k = 0 THEN none ELSE Choice(u[k - 1], more[k], T)
    BY <2>1, <2>2, <2>3 DEF IsChosen, n, none
  <2>5. t[0] = u[0] /\ u[n + 1] = Choice(u[n], x, T)
    <3>1. 0 \in 0..n /\ 0 \in 0..(n + 1) /\ n + 1 \in 0..(n + 1) /\ n + 1 # 0 /\ (n + 1) - 1 = n
      BY <2>1
    <3> QED
      BY <2>1, <2>4, <3>1
  <2>6. \A k \in 1..n : t[k - 1] = u[k - 1] => t[k] = u[k]
    <3>1. \A k \in 1..n : k \in 0..n /\ k \in 0..(n + 1) /\ k # 0
      BY <2>1
    <3> QED
      BY <2>1, <2>4, <3>1
  <2>7. t[n] = u[n]
    <3>1. n \in Nat /\ Alike(t, u, n)
      BY <2>1, <2>5, <2>6 DEF Alike
    <3>2. \A k \in 0..n : t[k] = u[k]
      BY <3>1, SameSteps
    <3> QED
      BY <3>1, <3>2
  <2> QED
    BY <2>2, <2>3, <2>5, <2>7 DEF more
<1> QED
  BY <1>1, <1>2

Numbered(M) == \A x \in M : x.n \in Nat

IsSum(t, q) ==
  t = [n \in 0..Len(q) |-> IF n = 0 THEN 0 ELSE t[n - 1] + q[n].n]

(* Total is computed element by element.                                   *)
LEMMA TotalRuns ==
  ASSUME NEW M, Numbered(M), NEW q \in Seq(M)
  PROVE  \E t \in [0..Len(q) -> Nat] : IsSum(t, q) /\ Total(q) = t[Len(q)]
<1> DEFINE N == Len(q)
           U == Nat
           F == [k \in 1..N |-> [p \in U |-> p + q[k].n]]
           first == 0
           u == CHOOSE u : IsSum(u, q)
<1>0. N \in Nat /\ first \in U
  OBVIOUS
<1>1. \A k \in 1..N, p \in U : p + q[k].n \in U
  BY DEF Numbered
<1> HIDE DEF U, N, first
<1>2. F \in [1..N -> [U -> U]] /\ \A k \in 1..N, p \in U : F[k][p] = p + q[k].n
  BY <1>1
<1> HIDE DEF F
<1>3. PICK t \in [0..N -> U] : t[0] = first /\ \A k \in 1..N : t[k] = F[k][t[k - 1]]
  <2>1. F \in [1..N -> [U -> U]]
    BY <1>2
  <2> QED
    BY <1>0, <2>1, Recursion
<1>4. ASSUME NEW k \in 0..N
      PROVE  t[k] = IF k = 0 THEN first ELSE t[k - 1] + q[k].n
  <2>1. k # 0 => k \in 1..N /\ k - 1 \in 0..N
    BY <1>0
  <2> QED
    BY <1>2, <1>3, <2>1
<1>5. IsSum(t, q)
  <2>1. t = [k \in 0..N |-> IF k = 0 THEN first ELSE t[k - 1] + q[k].n]
    BY <1>4
  <2> QED
    BY <2>1 DEF IsSum, N, first
<1>6. IsSum(u, q)
  BY <1>5
<1>7. Total(q) = u[N]
  BY DEF Total, IsSum, N
<1> HIDE DEF u
<1>8. Alike(t, u, N)
  <2>1. /\ \A k \in 0..N : t[k] = IF k = 0 THEN first ELSE t[k - 1] + q[k].n
        /\ \A k \in 0..N : u[k] = IF k = 0 THEN first ELSE u[k - 1] + q[k].n
    BY <1>5, <1>6 DEF IsSum, N, first
  <2>2. 0 \in 0..N /\ \A k \in 1..N : k \in 0..N /\ k # 0
    BY <1>0
  <2> QED
    BY <2>1, <2>2 DEF Alike
<1>9. t[N] = u[N]
  <2>1. \A k \in 0..N : t[k] = u[k]
    BY <1>0, <1>8, SameSteps
  <2> QED
    BY <1>0, <2>1
<1> QED
  BY <1>5, <1>7, <1>9 DEF N, U

(* An element more adds its number.                                        *)
LEMMA TotalFrom ==
  ASSUME NEW M, Numbered(M)
  PROVE  /\ Total(<<>>) = 0
         /\ \A q \in Seq(M), x \in M : Total(Append(q, x)) = Total(q) + x.n
<1> DEFINE first == 0
<1>1. Total(<<>>) = first
  <2>1. <<>> \in Seq(M) /\ Len(<<>>) = 0
    OBVIOUS
  <2>2. PICK t : IsSum(t, <<>>) /\ Total(<<>>) = t[0]
    BY <2>1, TotalRuns
  <2> QED
    BY <2>1, <2>2 DEF IsSum
<1> HIDE DEF first
<1>2. ASSUME NEW q \in Seq(M), NEW x \in M
      PROVE  Total(Append(q, x)) = Total(q) + x.n
  <2> DEFINE more == Append(q, x)
             n == Len(q)
  <2>1. /\ more \in Seq(M) /\ Len(more) = n + 1 /\ n \in Nat
        /\ \A k \in 1..n : more[k] = q[k]
        /\ more[n + 1] = x
    OBVIOUS
  <2> HIDE DEF more, n
  <2>2. PICK t : IsSum(t, q) /\ Total(q) = t[n]
    BY TotalRuns DEF n
  <2>3. PICK u : IsSum(u, more) /\ Total(more) = u[n + 1]
    BY <2>1, TotalRuns
  <2>4. /\ \A k \in 0..n : t[k] = IF k = 0 THEN first ELSE t[k - 1] + q[k].n
        /\ \A k \in 0..(n + 1) : u[k] = IF k = 0 THEN first ELSE u[k - 1] + more[k].n
    BY <2>1, <2>2, <2>3 DEF IsSum, n, first
  <2>5. u[n + 1] = u[n] + x.n
    <3>1. n + 1 \in 0..(n + 1) /\ n + 1 # 0 /\ (n + 1) - 1 = n
      BY <2>1
    <3> QED
      BY <2>1, <2>4, <3>1
  <2>6. Alike(t, u, n)
    <3>1. /\ 0 \in 0..n /\ 0 \in 0..(n + 1)
          /\ \A k \in 1..n : k \in 0..n /\ k \in 0..(n + 1) /\ k # 0
      BY <2>1
    <3> QED
      BY <2>1, <2>4, <3>1 DEF Alike
  <2>7. t[n] = u[n]
    <3>1. \A k \in 0..n : t[k] = u[k]
      BY <2>1, <2>6, SameSteps
    <3> QED
      BY <2>1, <3>1
  <2> QED
    BY <2>2, <2>3, <2>5, <2>7 DEF more
<1> QED
  BY <1>1, <1>2 DEF first

Event == [session : Sessions, seq : Nat, from : States, to : States]
Lifecycle == [ok : BOOLEAN, state : [Sessions -> States], seq : [Sessions -> Nat]]

Fresh == [ok |-> TRUE, state |-> Unborn, seq |-> Zero]
Projected(snapshot, e) == [snapshot EXCEPT ![e.session] = e.to]

LEMMA ProjectedTyped ==
  ASSUME NEW p \in [Sessions -> States], NEW e \in Event
  PROVE  Projected(p, e) \in [Sessions -> States]
BY DEF Event, Projected

LEMMA ReplayedTyped ==
  ASSUME NEW l \in Lifecycle, NEW e \in Event
  PROVE  Replayed(l, e) \in Lifecycle
<1>1. e.session \in Sessions /\ e.to \in States /\ e.seq \in Nat
  BY DEF Event
<1>2. l.state \in [Sessions -> States] /\ l.seq \in [Sessions -> Nat] /\ l.ok \in BOOLEAN
  BY DEF Lifecycle
<1>3. CASE l.ok /\ e.to \in Allowed[l.state[e.session]]
  BY <1>1, <1>2, <1>3 DEF Replayed, Lifecycle
<1>4. CASE ~(l.ok /\ e.to \in Allowed[l.state[e.session]])
  <2>1. Replayed(l, e) = [ok |-> FALSE, state |-> l.state, seq |-> l.seq]
    BY <1>4 DEF Replayed, Lifecycle
  <2> QED
    BY <1>2, <2>1 DEF Lifecycle
<1> QED
  BY <1>3, <1>4

IsProjection(t, q) ==
  t = [n \in 0..Len(q) |-> IF n = 0 THEN Unborn ELSE Projected(t[n - 1], q[n])]

(* The projection is computed event by event.                              *)
LEMMA RebuildRuns ==
  ASSUME NEW q \in Seq(Event)
  PROVE  \E t \in [0..Len(q) -> [Sessions -> States]] : IsProjection(t, q) /\ Rebuild(q) = t[Len(q)]
<1> DEFINE N == Len(q)
           U == [Sessions -> States]
           F == [k \in 1..N |-> [p \in U |-> Projected(p, q[k])]]
           first == Unborn
           u == CHOOSE u : IsProjection(u, q)
<1>0. N \in Nat /\ first \in U
  BY DEF Unborn, States, Allowed
<1>1. \A k \in 1..N, p \in U : Projected(p, q[k]) \in U
  <2>1. \A k \in 1..N : q[k] \in Event
    OBVIOUS
  <2> QED
    BY <2>1, ProjectedTyped
<1> HIDE DEF U, N, first
<1>2. F \in [1..N -> [U -> U]] /\ \A k \in 1..N, p \in U : F[k][p] = Projected(p, q[k])
  BY <1>1
<1> HIDE DEF F
<1>3. PICK t \in [0..N -> U] : t[0] = first /\ \A k \in 1..N : t[k] = F[k][t[k - 1]]
  <2>1. F \in [1..N -> [U -> U]]
    BY <1>2
  <2> QED
    BY <1>0, <2>1, Recursion
<1>4. ASSUME NEW k \in 0..N
      PROVE  t[k] = IF k = 0 THEN first ELSE Projected(t[k - 1], q[k])
  <2>1. k # 0 => k \in 1..N /\ k - 1 \in 0..N
    BY <1>0
  <2> QED
    BY <1>2, <1>3, <2>1
<1>5. IsProjection(t, q)
  <2>1. t = [k \in 0..N |-> IF k = 0 THEN first ELSE Projected(t[k - 1], q[k])]
    BY <1>4
  <2> QED
    BY <2>1 DEF IsProjection, N, first
<1>6. IsProjection(u, q)
  BY <1>5
<1>7. Rebuild(q) = u[N]
  BY DEF Rebuild, IsProjection, Projected, N
<1> HIDE DEF u
<1>8. Alike(t, u, N)
  <2>1. /\ \A k \in 0..N : t[k] = IF k = 0 THEN first ELSE Projected(t[k - 1], q[k])
        /\ \A k \in 0..N : u[k] = IF k = 0 THEN first ELSE Projected(u[k - 1], q[k])
    BY <1>5, <1>6 DEF IsProjection, N, first
  <2>2. 0 \in 0..N /\ \A k \in 1..N : k \in 0..N /\ k # 0
    BY <1>0
  <2> QED
    BY <2>1, <2>2 DEF Alike
<1>9. t[N] = u[N]
  <2>1. \A k \in 0..N : t[k] = u[k]
    BY <1>0, <1>8, SameSteps
  <2> QED
    BY <1>0, <2>1
<1> QED
  BY <1>5, <1>7, <1>9 DEF N, U

(* An event more sets the state of its session.                            *)
LEMMA RebuildFrom ==
  /\ Rebuild(<<>>) = Unborn
  /\ \A q \in Seq(Event), x \in Event : Rebuild(Append(q, x)) = Projected(Rebuild(q), x)
<1> DEFINE first == Unborn
<1>1. Rebuild(<<>>) = first
  <2>1. <<>> \in Seq(Event) /\ Len(<<>>) = 0
    OBVIOUS
  <2>2. PICK t : IsProjection(t, <<>>) /\ Rebuild(<<>>) = t[0]
    BY <2>1, RebuildRuns
  <2> QED
    BY <2>1, <2>2 DEF IsProjection
<1> HIDE DEF first
<1>2. ASSUME NEW q \in Seq(Event), NEW x \in Event
      PROVE  Rebuild(Append(q, x)) = Projected(Rebuild(q), x)
  <2> DEFINE more == Append(q, x)
             n == Len(q)
  <2>1. /\ more \in Seq(Event) /\ Len(more) = n + 1 /\ n \in Nat
        /\ \A k \in 1..n : more[k] = q[k]
        /\ more[n + 1] = x
    OBVIOUS
  <2> HIDE DEF more, n
  <2>2. PICK t : IsProjection(t, q) /\ Rebuild(q) = t[n]
    BY RebuildRuns DEF n
  <2>3. PICK u : IsProjection(u, more) /\ Rebuild(more) = u[n + 1]
    BY <2>1, RebuildRuns
  <2>4. /\ \A k \in 0..n : t[k] = IF k = 0 THEN first ELSE Projected(t[k - 1], q[k])
        /\ \A k \in 0..(n + 1) : u[k] = IF k = 0 THEN first ELSE Projected(u[k - 1], more[k])
    BY <2>1, <2>2, <2>3 DEF IsProjection, n, first
  <2>5. u[n + 1] = Projected(u[n], x)
    <3>1. n + 1 \in 0..(n + 1) /\ n + 1 # 0 /\ (n + 1) - 1 = n
      BY <2>1
    <3> QED
      BY <2>1, <2>4, <3>1
  <2>6. Alike(t, u, n)
    <3>1. /\ 0 \in 0..n /\ 0 \in 0..(n + 1)
          /\ \A k \in 1..n : k \in 0..n /\ k \in 0..(n + 1) /\ k # 0
      BY <2>1
    <3> QED
      BY <2>1, <2>4, <3>1 DEF Alike
  <2>7. t[n] = u[n]
    <3>1. \A k \in 0..n : t[k] = u[k]
      BY <2>1, <2>6, SameSteps
    <3> QED
      BY <2>1, <3>1
  <2> QED
    BY <2>2, <2>3, <2>5, <2>7 DEF more
<1> QED
  BY <1>1, <1>2 DEF first

IsReplay(t, q) ==
  t = [n \in 0..Len(q) |-> IF n = 0 THEN Fresh ELSE Replayed(t[n - 1], q[n])]

(* The replay is computed event by event.                                  *)
LEMMA ReplayRuns ==
  ASSUME NEW q \in Seq(Event)
  PROVE  \E t \in [0..Len(q) -> Lifecycle] : IsReplay(t, q) /\ Replay(q) = t[Len(q)]
<1> DEFINE N == Len(q)
           U == Lifecycle
           F == [k \in 1..N |-> [p \in U |-> Replayed(p, q[k])]]
           first == Fresh
           u == CHOOSE u : IsReplay(u, q)
<1>0. N \in Nat /\ first \in U
  BY DEF Fresh, Lifecycle, Unborn, Zero, States, Allowed
<1>1. \A k \in 1..N, p \in U : Replayed(p, q[k]) \in U
  <2>1. \A k \in 1..N : q[k] \in Event
    OBVIOUS
  <2> QED
    BY <2>1, ReplayedTyped
<1> HIDE DEF U, N, first
<1>2. F \in [1..N -> [U -> U]] /\ \A k \in 1..N, p \in U : F[k][p] = Replayed(p, q[k])
  BY <1>1
<1> HIDE DEF F
<1>3. PICK t \in [0..N -> U] : t[0] = first /\ \A k \in 1..N : t[k] = F[k][t[k - 1]]
  <2>1. F \in [1..N -> [U -> U]]
    BY <1>2
  <2> QED
    BY <1>0, <2>1, Recursion
<1>4. ASSUME NEW k \in 0..N
      PROVE  t[k] = IF k = 0 THEN first ELSE Replayed(t[k - 1], q[k])
  <2>1. k # 0 => k \in 1..N /\ k - 1 \in 0..N
    BY <1>0
  <2> QED
    BY <1>2, <1>3, <2>1
<1>5. IsReplay(t, q)
  <2>1. t = [k \in 0..N |-> IF k = 0 THEN first ELSE Replayed(t[k - 1], q[k])]
    BY <1>4
  <2> QED
    BY <2>1 DEF IsReplay, N, first
<1>6. IsReplay(u, q)
  BY <1>5
<1>7. Replay(q) = u[N]
  BY DEF Replay, IsReplay, Fresh, N
<1> HIDE DEF u
<1>8. Alike(t, u, N)
  <2>1. /\ \A k \in 0..N : t[k] = IF k = 0 THEN first ELSE Replayed(t[k - 1], q[k])
        /\ \A k \in 0..N : u[k] = IF k = 0 THEN first ELSE Replayed(u[k - 1], q[k])
    BY <1>5, <1>6 DEF IsReplay, N, first
  <2>2. 0 \in 0..N /\ \A k \in 1..N : k \in 0..N /\ k # 0
    BY <1>0
  <2> QED
    BY <2>1, <2>2 DEF Alike
<1>9. t[N] = u[N]
  <2>1. \A k \in 0..N : t[k] = u[k]
    BY <1>0, <1>8, SameSteps
  <2> QED
    BY <1>0, <2>1
<1> QED
  BY <1>5, <1>7, <1>9 DEF N, U

(* An event more is one transition more.                                   *)
LEMMA ReplayFrom ==
  /\ Replay(<<>>) = Fresh
  /\ \A q \in Seq(Event), x \in Event : Replay(Append(q, x)) = Replayed(Replay(q), x)
<1> DEFINE first == Fresh
<1>1. Replay(<<>>) = first
  <2>1. <<>> \in Seq(Event) /\ Len(<<>>) = 0
    OBVIOUS
  <2>2. PICK t : IsReplay(t, <<>>) /\ Replay(<<>>) = t[0]
    BY <2>1, ReplayRuns
  <2> QED
    BY <2>1, <2>2 DEF IsReplay
<1> HIDE DEF first
<1>2. ASSUME NEW q \in Seq(Event), NEW x \in Event
      PROVE  Replay(Append(q, x)) = Replayed(Replay(q), x)
  <2> DEFINE more == Append(q, x)
             n == Len(q)
  <2>1. /\ more \in Seq(Event) /\ Len(more) = n + 1 /\ n \in Nat
        /\ \A k \in 1..n : more[k] = q[k]
        /\ more[n + 1] = x
    OBVIOUS
  <2> HIDE DEF more, n
  <2>2. PICK t : IsReplay(t, q) /\ Replay(q) = t[n]
    BY ReplayRuns DEF n
  <2>3. PICK u : IsReplay(u, more) /\ Replay(more) = u[n + 1]
    BY <2>1, ReplayRuns
  <2>4. /\ \A k \in 0..n : t[k] = IF k = 0 THEN first ELSE Replayed(t[k - 1], q[k])
        /\ \A k \in 0..(n + 1) : u[k] = IF k = 0 THEN first ELSE Replayed(u[k - 1], more[k])
    BY <2>1, <2>2, <2>3 DEF IsReplay, n, first
  <2>5. u[n + 1] = Replayed(u[n], x)
    <3>1. n + 1 \in 0..(n + 1) /\ n + 1 # 0 /\ (n + 1) - 1 = n
      BY <2>1
    <3> QED
      BY <2>1, <2>4, <3>1
  <2>6. Alike(t, u, n)
    <3>1. /\ 0 \in 0..n /\ 0 \in 0..(n + 1)
          /\ \A k \in 1..n : k \in 0..n /\ k \in 0..(n + 1) /\ k # 0
      BY <2>1
    <3> QED
      BY <2>1, <2>4, <3>1 DEF Alike
  <2>7. t[n] = u[n]
    <3>1. \A k \in 0..n : t[k] = u[k]
      BY <2>1, <2>6, SameSteps
    <3> QED
      BY <2>1, <3>1
  <2> QED
    BY <2>2, <2>3, <2>5, <2>7 DEF more
<1> QED
  BY <1>1, <1>2 DEF first

-----------------------------------------------------------------------------
(* The log of a session *)

(* An event more belongs to the log of its session alone.                  *)
LEMMA OfFrom ==
  ASSUME NEW s
  PROVE  /\ Of(<<>>, s) = <<>>
         /\ \A q \in Seq(Event), e \in Event :
              Of(Append(q, e), s) = IF e.session = s THEN Append(Of(q, s), e) ELSE Of(q, s)
<1> DEFINE T == [session : {s}, seq : Nat, from : States, to : States]
<1>1. \A q : Of(q, s) = Chosen(q, T)
  BY DEF Of
<1>2. \A e \in Event : e \in T <=> e.session = s
  BY DEF Event
<1> HIDE DEF T
<1>3. /\ Chosen(<<>>, T) = <<>>
      /\ \A q \in Seq(Event), x \in Event : Chosen(Append(q, x), T) = Choice(Chosen(q, T), x, T)
  BY ChosenFrom
<1> QED
  BY <1>1, <1>2, <1>3 DEF Choice

LEMMA OfTyped ==
  ASSUME NEW q \in Seq(Event), NEW s
  PROVE  Of(q, s) \in Seq(Event)
<1> DEFINE T == [session : {s}, seq : Nat, from : States, to : States]
<1>1. Of(q, s) = Chosen(q, T)
  BY DEF Of
<1> HIDE DEF T
<1>2. PICK t \in [0..Len(q) -> Seq(Event)] : Chosen(q, T) = t[Len(q)]
  BY ChosenRuns
<1>3. Len(q) \in 0..Len(q)
  OBVIOUS
<1> QED
  BY <1>1, <1>2, <1>3

-----------------------------------------------------------------------------
(* The invariant of events: the log of a session is numbered from 1, each  *)
(* entry is a transition allowed after those before, and what has been     *)
(* accepted of it is its beginning.  What the ingestor has accepted it has *)
(* also seen, so that a number it has passed does not come to it again.    *)

Reached(s, k) == IF k = 0 THEN "created" ELSE Of(events, s)[k].to

InOrder(s) ==
  /\ Len(Of(events, s)) = current_seq[s]
  /\ current_state[s] = Reached(s, current_seq[s])
  /\ \A k \in 1..current_seq[s] :
       Of(events, s)[k].seq = k /\ Of(events, s)[k].to \in Allowed[Reached(s, k - 1)]

InPlace(e) == e.seq \in 1..current_seq[e.session] /\ Of(events, e.session)[e.seq] = e

Lives ==
  /\ current_state \in [Sessions -> States] /\ current_seq \in [Sessions -> Nat]
  /\ events \in Seq(Event)
  /\ \A s \in Sessions : InOrder(s)
  /\ \A i \in DOMAIN events : InPlace(events[i])
  /\ Replay(events) = [ok |-> TRUE, state |-> current_state, seq |-> current_seq]

Follows(s) ==
  /\ last_seq[s] <= current_seq[s]
  /\ Len(Of(accepted, s)) = last_seq[s]
  /\ \A k \in 1..last_seq[s] : Of(accepted, s)[k] = Of(events, s)[k] /\ <<s, k>> \in seen
  /\ Rebuild(accepted)[s] = Reached(s, last_seq[s])

Takes ==
  /\ last_seq \in [Sessions -> Nat]
  /\ accepted \in Seq(Event) /\ reconciliation \in Seq(Event)
  /\ Rebuild(accepted) \in [Sessions -> States]
  /\ \A s \in Sessions : Follows(s)
  /\ Replay(accepted) = [ok |-> TRUE, state |-> Rebuild(accepted), seq |-> last_seq]
  /\ \A i \in DOMAIN reconciliation :
       last_seq[reconciliation[i].session] < reconciliation[i].seq
  /\ IsFiniteSet(seen) /\ NothingForgotten

LEMMA AllowedStates == \A st \in States : Allowed[st] \subseteq States
BY DEF States, Allowed, Ends

(* A transition: the log of its session grows by it, the others stay.      *)
LEMMA TransitionInOrder ==
  ASSUME Lives, Takes, NEW s \in Sessions, NEW to, Transition(s, to)
  PROVE  Lives' /\ Takes'
<1>0. PICK e : e = [session |-> s, seq |-> current_seq[s] + 1,
                    from |-> current_state[s], to |-> to]
  OBVIOUS
<1>1. /\ to \in Allowed[current_state[s]]
      /\ current_state' = [current_state EXCEPT ![s] = to]
      /\ current_seq' = [current_seq EXCEPT ![s] = @ + 1]
      /\ events' = Append(events, e)
      /\ UNCHANGED <<seen, last_seq, accepted, reconciliation>>
  BY <1>0 DEF Transition, ingestor
<1>2. /\ current_state \in [Sessions -> States] /\ current_seq \in [Sessions -> Nat]
      /\ events \in Seq(Event)
  BY DEF Lives
<1>3. to \in States
  BY <1>1, <1>2, AllowedStates
<1>4. /\ e \in Event /\ e.session = s /\ e.seq = current_seq[s] + 1 /\ e.to = to
  BY <1>0, <1>2, <1>3 DEF Event
<1>5. events' \in Seq(Event)
  BY <1>1, <1>2, <1>4
<1>6. /\ Of(events', s) = Append(Of(events, s), e)
      /\ \A r \in Sessions \ {s} : Of(events', r) = Of(events, r)
  BY <1>1, <1>2, <1>4, OfFrom
<1>7. \A r \in Sessions : Of(events, r) \in Seq(Event) /\ Len(Of(events, r)) = current_seq[r]
  BY <1>2, OfTyped DEF Lives, InOrder
<1>8. \A r \in Sessions : \A k \in 1..current_seq[r] : Of(events', r)[k] = Of(events, r)[k]
  <2>1. \A k \in 1..current_seq[s] : Append(Of(events, s), e)[k] = Of(events, s)[k]
    <3>1. Of(events, s) \in Seq(Event) /\ Len(Of(events, s)) = current_seq[s]
      BY <1>7
    <3> QED
      BY <3>1
  <2> QED
    BY <1>6, <2>1
<1>9. Of(events', s)[current_seq[s] + 1] = e /\ Len(Of(events', s)) = current_seq[s] + 1
  BY <1>2, <1>6, <1>7
<1>10. \A r \in Sessions : \A k \in 0..current_seq[r] : Reached(r, k)' = Reached(r, k)
  <2>1. \A r \in Sessions : \A k \in 0..current_seq[r] : k # 0 => k \in 1..current_seq[r]
    BY <1>2
  <2> QED
    BY <1>8, <2>1 DEF Reached
<1>11. /\ current_seq'[s] = current_seq[s] + 1 /\ current_state'[s] = to
       /\ \A r \in Sessions \ {s} :
            current_seq'[r] = current_seq[r] /\ current_state'[r] = current_state[r]
       /\ current_state' \in [Sessions -> States] /\ current_seq' \in [Sessions -> Nat]
       /\ \A r \in Sessions : current_seq[r] <= current_seq'[r]
  BY <1>1, <1>2, <1>3
<1>12. InOrder(s)'
  <2>0. PICK n \in Nat : n = current_seq[s] + 1
    BY <1>2
  <2>1. Reached(s, n)' = to
    BY <1>2, <1>4, <1>9, <2>0 DEF Reached
  <2>2. ASSUME NEW k \in 1..(current_seq[s] + 1)
        PROVE  Of(events', s)[k].seq = k /\ Of(events', s)[k].to \in Allowed[Reached(s, k - 1)']
    <3>1. CASE k \in 1..current_seq[s]
      <4>1. k - 1 \in 0..current_seq[s]
        BY <1>2, <3>1
      <4> QED
        BY <1>8, <1>10, <3>1, <4>1 DEF Lives, InOrder
    <3>2. CASE k = current_seq[s] + 1
      <4>1. k - 1 = current_seq[s] /\ current_seq[s] \in 0..current_seq[s]
        BY <1>2, <3>2
      <4>2. Reached(s, k - 1)' = current_state[s]
        BY <1>10, <4>1 DEF Lives, InOrder
      <4> QED
        BY <1>1, <1>4, <1>9, <3>2, <4>2
    <3> QED
      BY <1>2, <3>1, <3>2
  <2> QED
    BY <1>9, <1>11, <2>0, <2>1, <2>2 DEF InOrder
<1>13. \A r \in Sessions \ {s} : InOrder(r)'
  <2>1. SUFFICES ASSUME NEW r \in Sessions \ {s} PROVE InOrder(r)'
    OBVIOUS
  <2>2. InOrder(r) /\ current_seq'[r] = current_seq[r] /\ current_state'[r] = current_state[r]
    BY <1>11 DEF Lives
  <2>3. PICK n \in Nat : n = current_seq[r]
    BY <1>2
  <2>4. n \in 0..current_seq[r] /\ \A k \in 1..n : k - 1 \in 0..current_seq[r]
    BY <2>3
  <2>5. Reached(r, n)' = Reached(r, n) /\ \A k \in 1..n : Reached(r, k - 1)' = Reached(r, k - 1)
    BY <1>10, <2>4
  <2>6. Of(events', r) = Of(events, r)
    BY <1>6
  <2> QED
    BY <2>2, <2>3, <2>5, <2>6 DEF InOrder
<1>14. (\A i \in DOMAIN events : InPlace(events[i]))'
  <2>1. ASSUME NEW d \in Event, InPlace(d) PROVE InPlace(d)'
    <3>1. d.session \in Sessions /\ d.seq \in 1..current_seq[d.session]
      BY <2>1 DEF Event, InPlace
    <3>2. d.seq \in 1..current_seq'[d.session]
      <4>1. /\ current_seq[d.session] \in Nat /\ current_seq'[d.session] \in Nat
            /\ current_seq[d.session] <= current_seq'[d.session]
        BY <1>2, <1>11, <3>1
      <4> QED
        BY <3>1, <4>1
    <3> QED
      BY <1>8, <2>1, <3>1, <3>2 DEF InPlace
  <2>2. InPlace(e)'
    <3>1. e.seq \in 1..current_seq'[s]
      BY <1>2, <1>4, <1>11
    <3> QED
      BY <1>4, <1>9, <3>1 DEF InPlace
  <2>3. ASSUME NEW i \in DOMAIN events'
        PROVE  events'[i] = e \/ \E j \in DOMAIN events : events'[i] = events[j]
    BY <1>1, <1>2
  <2>4. \A j \in DOMAIN events : events[j] \in Event /\ InPlace(events[j])
    BY <1>2 DEF Lives
  <2>5. SUFFICES ASSUME NEW i \in DOMAIN events' PROVE InPlace(events[i])'
    OBVIOUS
  <2>6. PICK d : d = events'[i]
    OBVIOUS
  <2>7. InPlace(d)'
    BY <2>1, <2>2, <2>3, <2>4, <2>6
  <2> QED
    BY <2>6, <2>7 DEF InPlace
<1>15. Replay(events') = [ok |-> TRUE, state |-> current_state', seq |-> current_seq']
  <2> DEFINE l == [ok |-> TRUE, state |-> current_state, seq |-> current_seq]
  <2>1. Replay(events') = Replayed(l, e)
    BY <1>1, <1>2, <1>4, ReplayFrom DEF Lives
  <2>2. Replayed(l, e) = [ok |-> TRUE, state |-> [current_state EXCEPT ![s] = to],
                          seq |-> [current_seq EXCEPT ![s] = current_seq[s] + 1]]
    BY <1>1, <1>4 DEF Replayed
  <2> QED
    BY <1>1, <2>1, <2>2
<1>16. Lives'
  BY <1>5, <1>11, <1>12, <1>13, <1>14, <1>15 DEF Lives
<1>17. Takes'
  <2>1. ASSUME NEW r \in Sessions PROVE Follows(r)'
    <3>1. Follows(r) /\ last_seq' = last_seq /\ accepted' = accepted /\ seen' = seen
      BY <1>1 DEF Takes
    <3>2. last_seq[r] \in Nat /\ current_seq[r] \in Nat /\ last_seq[r] <= current_seq[r]
      BY <1>2, <3>1 DEF Takes, Follows
    <3>3. PICK n \in Nat : n = last_seq[r]
      BY <3>2
    <3>4. current_seq'[r] \in Nat /\ current_seq[r] <= current_seq'[r]
      BY <1>2, <1>11
    <3>5. n <= current_seq'[r] /\ n \in 0..current_seq[r] /\ \A k \in 1..n : k \in 1..current_seq[r]
      BY <3>2, <3>3, <3>4
    <3>6. Reached(r, n)' = Reached(r, n) /\ \A k \in 1..n : Of(events', r)[k] = Of(events, r)[k]
      BY <1>8, <1>10, <3>5
    <3> QED
      BY <3>1, <3>3, <3>5, <3>6 DEF Follows
  <2>2. NothingForgotten'
    BY <1>1 DEF Takes, NothingForgotten
  <2> QED
    BY <1>1, <2>1, <2>2 DEF Takes
<1> QED
  BY <1>16, <1>17

(* What a list holds after one element more.                               *)
LEMMA RangeGrows ==
  ASSUME NEW M, NEW q \in Seq(M), NEW x
  PROVE  Range(Append(q, x)) = Range(q) \cup {x} /\ Len(Append(q, x)) = Len(q) + 1
<1>1. /\ Len(q) \in Nat /\ Len(Append(q, x)) = Len(q) + 1 /\ DOMAIN q = 1..Len(q)
      /\ DOMAIN Append(q, x) = 1..(Len(q) + 1) /\ Append(q, x)[Len(q) + 1] = x
      /\ \A k \in 1..Len(q) : Append(q, x)[k] = q[k]
  OBVIOUS
<1>2. \A k \in 1..(Len(q) + 1) : k \in 1..Len(q) \/ k = Len(q) + 1
  BY <1>1
<1>3. Len(q) + 1 \in 1..(Len(q) + 1) /\ 1..Len(q) \subseteq 1..(Len(q) + 1)
  BY <1>1
<1> QED
  BY <1>1, <1>2, <1>3 DEF Range

(* What the ingestor does with an event: it remembers it, and puts it into *)
(* one of the two lists.                                                   *)
LEMMA NothingIsForgotten ==
  ASSUME Takes, NEW e \in Event, <<e.session, e.seq>> \notin seen,
         seen' = seen \cup {<<e.session, e.seq>>},
         \/ accepted' = Append(accepted, e) /\ reconciliation' = reconciliation
         \/ accepted' = accepted /\ reconciliation' = Append(reconciliation, e)
  PROVE  IsFiniteSet(seen') /\ NothingForgotten'
<1>1. /\ accepted \in Seq(Event) /\ reconciliation \in Seq(Event) /\ IsFiniteSet(seen)
      /\ Len(accepted) + Len(reconciliation) = Cardinality(seen)
      /\ seen = {<<d.session, d.seq>> : d \in Range(accepted) \cup Range(reconciliation)}
  BY DEF Takes, NothingForgotten
<1>2. Len(accepted) \in Nat /\ Len(reconciliation) \in Nat
  BY <1>1
<1>3. /\ IsFiniteSet(seen')
      /\ (Len(accepted) + Len(reconciliation)) + 1 = Cardinality(seen')
  <2>1. PICK x : x = <<e.session, e.seq>>
    OBVIOUS
  <2>2. x \notin seen /\ seen' = seen \cup {x}
    BY <2>1
  <2>3. /\ IsFiniteSet(seen \cup {x})
        /\ Cardinality(seen \cup {x}) = Cardinality(seen) + 1
    BY <1>1, <2>2, FS_AddElement
  <2> QED
    BY <1>1, <2>2, <2>3
<1>4. /\ Range(Append(accepted, e)) = Range(accepted) \cup {e}
      /\ Len(Append(accepted, e)) = Len(accepted) + 1
      /\ Range(Append(reconciliation, e)) = Range(reconciliation) \cup {e}
      /\ Len(Append(reconciliation, e)) = Len(reconciliation) + 1
  <2>1. accepted \in Seq(Event) /\ reconciliation \in Seq(Event)
    BY <1>1
  <2> QED
    BY <2>1, RangeGrows
<1>5. Range(accepted') \cup Range(reconciliation') = (Range(accepted) \cup Range(reconciliation)) \cup {e}
  BY <1>4
<1>6. seen' = {<<d.session, d.seq>> : d \in Range(accepted') \cup Range(reconciliation')}
  BY <1>1, <1>5
<1>7. Len(accepted') + Len(reconciliation') = Cardinality(seen')
  BY <1>2, <1>3, <1>4
<1> QED
  BY <1>3, <1>6, <1>7 DEF NothingForgotten

(* An event arrives: it is accepted if it is the next of its session, and  *)
(* set aside if it is ahead of it. It cannot be behind, since all the      *)
(* numbers passed have been seen.                                          *)
LEMMA IngestInOrder ==
  ASSUME Lives, Takes, NEW i \in DOMAIN events, Ingest(events[i])
  PROVE  Lives' /\ Takes'
<1>0. PICK e : e = events[i]
  OBVIOUS
<1>1. e \in Event /\ InPlace(e)
  BY <1>0 DEF Lives
<1>2. PICK s \in Sessions : s = e.session
  BY <1>1 DEF Event
<1>3. PICK n \in Nat : n = last_seq[s]
  BY <1>2 DEF Takes
<1>4. /\ <<s, e.seq>> \notin seen /\ seen' = seen \cup {<<s, e.seq>>}
      /\ UNCHANGED <<current_state, current_seq, events>>
  BY <1>0, <1>2 DEF Ingest, lifecycle
<1>5. Lives'
  <2>1. \A r \in Sessions : InOrder(r) => InOrder(r)'
    BY <1>4 DEF InOrder, Reached
  <2>2. (\A j \in DOMAIN events : InPlace(events[j]))'
    BY <1>4 DEF Lives, InPlace
  <2> QED
    BY <1>4, <2>1, <2>2 DEF Lives
<1>6. /\ last_seq \in [Sessions -> Nat] /\ accepted \in Seq(Event) /\ reconciliation \in Seq(Event)
      /\ Rebuild(accepted) \in [Sessions -> States]
      /\ \A r \in Sessions : Follows(r)
      /\ \A j \in DOMAIN reconciliation :
           last_seq[reconciliation[j].session] < reconciliation[j].seq
  BY DEF Takes
<1>7. e.seq \in Nat /\ e.seq \in 1..current_seq[s] /\ Of(events, s)[e.seq] = e
  BY <1>1, <1>2 DEF InPlace, Event
<1>8. \A r \in Sessions : \A k : Reached(r, k)' = Reached(r, k)
  BY <1>4 DEF Reached
<1>9. e.seq > n
  <2>1. \A k \in 1..n : <<s, k>> \in seen
    BY <1>3, <1>6 DEF Follows
  <2>2. e.seq \notin 1..n
    BY <1>4, <2>1
  <2> QED
    BY <1>7, <2>2
<1>10. CASE e.seq = n + 1
  <2>1. /\ last_seq' = [last_seq EXCEPT ![s] = e.seq]
        /\ accepted' = Append(accepted, e)
        /\ reconciliation' = reconciliation
    BY <1>0, <1>2, <1>3, <1>10 DEF Ingest
  <2>2. /\ Of(accepted', s) = Append(Of(accepted, s), e)
        /\ \A r \in Sessions \ {s} : Of(accepted', r) = Of(accepted, r)
    BY <1>1, <1>2, <1>6, <2>1, OfFrom
  <2>3. /\ last_seq'[s] = n + 1 /\ \A r \in Sessions \ {s} : last_seq'[r] = last_seq[r]
        /\ last_seq' \in [Sessions -> Nat]
    BY <1>6, <1>10, <2>1
  <2>4. /\ Rebuild(accepted') = Projected(Rebuild(accepted), e)
        /\ Replay(accepted') = Replayed(Replay(accepted), e)
    BY <1>1, <1>6, <2>1, RebuildFrom, ReplayFrom
  <2>5. /\ Rebuild(accepted') = [Rebuild(accepted) EXCEPT ![s] = e.to]
        /\ Rebuild(accepted') \in [Sessions -> States]
    BY <1>1, <1>2, <1>6, <2>4, ProjectedTyped DEF Projected
  <2>6. Replay(accepted') = [ok |-> TRUE, state |-> Rebuild(accepted'), seq |-> last_seq']
    <3>1. e.to \in Allowed[Rebuild(accepted)[s]]
      <4>1. e.to \in Allowed[Reached(s, e.seq - 1)]
        BY <1>2, <1>7 DEF Lives, InOrder
      <4>2. e.seq - 1 = n
        BY <1>10
      <4> QED
        BY <1>3, <1>6, <4>1, <4>2 DEF Follows
    <3>2. Replay(accepted) = [ok |-> TRUE, state |-> Rebuild(accepted), seq |-> last_seq]
      BY DEF Takes
    <3> DEFINE l == [ok |-> TRUE, state |-> Rebuild(accepted), seq |-> last_seq]
    <3>3. Replayed(l, e) = [ok |-> TRUE, state |-> [Rebuild(accepted) EXCEPT ![s] = e.to],
                            seq |-> [last_seq EXCEPT ![s] = e.seq]]
      BY <1>2, <3>1 DEF Replayed
    <3> QED
      BY <2>1, <2>4, <2>5, <3>2, <3>3
  <2>7. Follows(s)'
    <3>1. Of(accepted, s) \in Seq(Event) /\ Len(Of(accepted, s)) = n
      BY <1>3, <1>6, OfTyped DEF Follows
    <3>2. /\ Len(Of(accepted', s)) = n + 1 /\ Of(accepted', s)[n + 1] = e
          /\ \A k \in 1..n : Of(accepted', s)[k] = Of(accepted, s)[k]
      BY <2>2, <3>1
    <3>3. \A k \in 1..n : Of(accepted, s)[k] = Of(events, s)[k] /\ <<s, k>> \in seen
      BY <1>3, <1>6 DEF Follows
    <3>4. \A k \in 1..(n + 1) : Of(accepted', s)[k] = Of(events', s)[k] /\ <<s, k>> \in seen'
      <4>1. \A k \in 1..(n + 1) : k \in 1..n \/ k = n + 1
        OBVIOUS
      <4> QED
        BY <1>4, <1>7, <1>10, <3>2, <3>3, <4>1
    <3>5. n + 1 <= current_seq'[s]
      BY <1>4, <1>7, <1>10
    <3>6. Rebuild(accepted')[s] = e.to
      BY <1>6, <2>5
    <3>7. Reached(s, n + 1)' = e.to
      BY <1>4, <1>7, <1>10 DEF Reached
    <3> QED
      BY <2>3, <3>2, <3>4, <3>5, <3>6, <3>7 DEF Follows
  <2>8. \A r \in Sessions \ {s} : Follows(r)'
    <3>1. SUFFICES ASSUME NEW r \in Sessions \ {s} PROVE Follows(r)'
      OBVIOUS
    <3>2. PICK m : m = last_seq[r]
      OBVIOUS
    <3>3. Follows(r) /\ last_seq'[r] = m /\ Of(accepted', r) = Of(accepted, r)
      BY <1>6, <2>2, <2>3, <3>2
    <3>4. Rebuild(accepted')[r] = Rebuild(accepted)[r] /\ Reached(r, m)' = Reached(r, m)
      BY <1>6, <1>8, <2>5
    <3> QED
      BY <1>4, <3>2, <3>3, <3>4 DEF Follows
  <2>9. \A j \in DOMAIN reconciliation :
          last_seq'[reconciliation[j].session] < reconciliation[j].seq
    <3>1. SUFFICES ASSUME NEW j \in DOMAIN reconciliation
                   PROVE  last_seq'[reconciliation[j].session] < reconciliation[j].seq
      OBVIOUS
    <3>2. PICK d \in Event : d = reconciliation[j] /\ last_seq[d.session] < d.seq
      BY <1>6
    <3>3. d.session \in Sessions /\ d.seq \in Nat
      BY DEF Event
    <3>4. CASE d.session # s
      BY <2>3, <3>2, <3>3, <3>4
    <3>5. CASE d.session = s
      <4>1. <<d.session, d.seq>> \in seen
        BY <3>2 DEF Takes, NothingForgotten, Range
      <4>2. d.seq # n + 1
        BY <1>4, <1>10, <3>5, <4>1
      <4>3. d.seq > n
        BY <1>3, <3>2, <3>5
      <4> QED
        BY <2>3, <3>2, <3>3, <3>5, <4>2, <4>3
    <3> QED
      BY <3>4, <3>5
  <2>10. IsFiniteSet(seen') /\ NothingForgotten'
    BY <1>1, <1>2, <1>4, <2>1, NothingIsForgotten
  <2>11. accepted' \in Seq(Event)
    BY <1>1, <1>6, <2>1
  <2>12. (\A j \in DOMAIN reconciliation : last_seq[reconciliation[j].session] < reconciliation[j].seq)'
    BY <2>1, <2>9
  <2> QED
    BY <1>5, <1>6, <2>1, <2>3, <2>5, <2>6, <2>7, <2>8, <2>10, <2>11, <2>12 DEF Takes
<1>11. CASE e.seq # n + 1
  <2>1. last_seq' = last_seq /\ accepted' = accepted /\ reconciliation' = Append(reconciliation, e)
    BY <1>0, <1>2, <1>3, <1>11 DEF Ingest
  <2>2. \A r \in Sessions : Follows(r)'
    <3>1. SUFFICES ASSUME NEW r \in Sessions PROVE Follows(r)'
      OBVIOUS
    <3>2. PICK m : m = last_seq[r]
      OBVIOUS
    <3>3. Follows(r) /\ Reached(r, m)' = Reached(r, m)
      BY <1>6, <1>8
    <3> QED
      BY <1>4, <2>1, <3>2, <3>3 DEF Follows
  <2>3. (\A j \in DOMAIN reconciliation : last_seq[reconciliation[j].session] < reconciliation[j].seq)'
    <3>1. ASSUME NEW j \in DOMAIN reconciliation'
          PROVE  reconciliation'[j] = e \/ (j \in DOMAIN reconciliation /\ reconciliation'[j] = reconciliation[j])
      BY <1>6, <2>1
    <3> QED
      BY <1>2, <1>3, <1>6, <1>9, <2>1, <3>1
  <2>4. IsFiniteSet(seen') /\ NothingForgotten'
    BY <1>1, <1>2, <1>4, <2>1, NothingIsForgotten
  <2>5. reconciliation' \in Seq(Event)
    BY <1>1, <1>6, <2>1
  <2>6. (Replay(accepted) = [ok |-> TRUE, state |-> Rebuild(accepted), seq |-> last_seq])'
    BY <2>1 DEF Takes
  <2> QED
    BY <1>5, <1>6, <2>1, <2>2, <2>3, <2>4, <2>5, <2>6 DEF Takes
<1> QED
  BY <1>10, <1>11

-----------------------------------------------------------------------------
(* Outputs and markers *)

OutputSet == [kind : {"output"}, n : Nat]
MarkerSet == [kind : {"dropped"}, n : Nat \ {0}]
Queued == OutputSet \cup MarkerSet

(* An entry of a queue is an output or a marker.                           *)
LEMMA EitherKind ==
  \A x \in Queued :
    /\ x \in OutputSet =>
         x \in [kind : {"output"}, n : Nat] /\ x \notin [kind : {"dropped"}, n : Nat]
    /\ x \in MarkerSet =>
         x \in [kind : {"dropped"}, n : Nat] /\ x \notin [kind : {"output"}, n : Nat]
    /\ x \in OutputSet \/ x \in MarkerSet
BY DEF Queued, OutputSet, MarkerSet

LEMMA OutputsFrom ==
  /\ Outputs(<<>>) = <<>> /\ Markers(<<>>) = <<>>
  /\ \A q \in Seq(Queued), x \in OutputSet :
       Outputs(Append(q, x)) = Append(Outputs(q), x) /\ Markers(Append(q, x)) = Markers(q)
  /\ \A q \in Seq(Queued), x \in MarkerSet :
       Outputs(Append(q, x)) = Outputs(q) /\ Markers(Append(q, x)) = Append(Markers(q), x)
<1> DEFINE O == [kind : {"output"}, n : Nat]
           D == [kind : {"dropped"}, n : Nat]
<1>1. \A q : Outputs(q) = Chosen(q, O) /\ Markers(q) = Chosen(q, D)
  BY DEF Outputs, Markers
<1>2. /\ \A x \in OutputSet : x \in O /\ x \notin D /\ x \in Queued
      /\ \A x \in MarkerSet : x \in D /\ x \notin O /\ x \in Queued
  BY EitherKind DEF Queued
<1> HIDE DEF O, D
<1>3. /\ Chosen(<<>>, O) = <<>>
      /\ \A q \in Seq(Queued), x \in Queued : Chosen(Append(q, x), O) = Choice(Chosen(q, O), x, O)
  BY ChosenFrom
<1>4. /\ Chosen(<<>>, D) = <<>>
      /\ \A q \in Seq(Queued), x \in Queued : Chosen(Append(q, x), D) = Choice(Chosen(q, D), x, D)
  BY ChosenFrom
<1> QED
  BY <1>1, <1>2, <1>3, <1>4 DEF Choice

LEMMA TotalOf ==
  /\ Total(<<>>) = 0
  /\ \A q \in Seq(MarkerSet), x \in MarkerSet : Total(Append(q, x)) = Total(q) + x.n
<1>1. Numbered(MarkerSet)
  BY DEF Numbered, MarkerSet
<1> QED
  BY <1>1, TotalFrom

(* The outputs and the markers of a queue, by number and kind: a marker    *)
(* counts for at least one.                                                *)
Sorted(q) ==
  /\ Outputs(q) \in Seq(OutputSet) /\ Markers(q) \in Seq(MarkerSet)
  /\ Len(Outputs(q)) + Len(Markers(q)) = Len(q)
  /\ Total(Markers(q)) \in Nat /\ Len(Markers(q)) <= Total(Markers(q))

LEMMA QueuesSorted == \A q \in Seq(Queued) : Sorted(q)
<1> DEFINE T == {q \in Seq(Queued) : Sorted(q)}
           none == <<>>
<1>1. none \in T
  <2>1. none \in Seq(Queued) /\ none \in Seq(OutputSet) /\ none \in Seq(MarkerSet) /\ Len(none) = 0
    OBVIOUS
  <2>2. Outputs(none) = none /\ Markers(none) = none /\ Total(none) = 0
    BY OutputsFrom, TotalOf
  <2> HIDE DEF none
  <2>3. Sorted(none)
    BY <2>1, <2>2 DEF Sorted
  <2> QED
    BY <2>1, <2>3
<1>2. ASSUME NEW q \in Seq(Queued), NEW x \in Queued, q \in T
      PROVE  Append(q, x) \in T
  <2> DEFINE more == Append(q, x)
             o == Outputs(q)
             m == Markers(q)
  <2>1. more \in Seq(Queued) /\ Len(q) \in Nat /\ Len(more) = Len(q) + 1
    OBVIOUS
  <2>2. /\ o \in Seq(OutputSet) /\ m \in Seq(MarkerSet) /\ Len(o) + Len(m) = Len(q)
        /\ Total(m) \in Nat /\ Len(m) <= Total(m)
    BY <1>2 DEF Sorted
  <2>3. x \in OutputSet => Outputs(more) = Append(o, x) /\ Markers(more) = m
    BY OutputsFrom
  <2>4. x \in MarkerSet => Outputs(more) = o /\ Markers(more) = Append(m, x)
    BY OutputsFrom
  <2> HIDE DEF T, more, o, m
  <2>5. Len(o) \in Nat /\ Len(m) \in Nat
    BY <2>2
  <2>6. ASSUME x \in OutputSet PROVE Sorted(more)
    <3>1. Append(o, x) \in Seq(OutputSet) /\ Len(Append(o, x)) = Len(o) + 1
      BY <2>2, <2>6
    <3>2. Outputs(more) \in Seq(OutputSet) /\ Len(Outputs(more)) = Len(o) + 1 /\ Markers(more) = m
      BY <2>3, <2>6, <3>1
    <3>3. Len(Outputs(more)) + Len(Markers(more)) = Len(more)
      BY <2>1, <2>2, <2>5, <3>2
    <3> QED
      BY <2>2, <3>2, <3>3 DEF Sorted
  <2>7. ASSUME x \in MarkerSet PROVE Sorted(more)
    <3>1. Append(m, x) \in Seq(MarkerSet) /\ Len(Append(m, x)) = Len(m) + 1
      BY <2>2, <2>7
    <3>2. Total(Append(m, x)) = Total(m) + x.n
      BY <2>2, <2>7, TotalOf
    <3>3. x.n \in Nat /\ x.n >= 1
      BY <2>7 DEF MarkerSet
    <3>4. /\ Markers(more) \in Seq(MarkerSet) /\ Len(Markers(more)) = Len(m) + 1
          /\ Outputs(more) = o /\ Total(Markers(more)) = Total(m) + x.n
      BY <2>4, <2>7, <3>1, <3>2
    <3>5. /\ Len(Outputs(more)) + Len(Markers(more)) = Len(more)
          /\ Total(Markers(more)) \in Nat /\ Len(Markers(more)) <= Total(Markers(more))
      <4>1. PICK c \in Nat : c = x.n /\ c >= 1
        BY <3>3
      <4>2. Len(o) + Len(m) = Len(q) /\ Total(m) \in Nat /\ Len(m) <= Total(m)
        BY <2>2
      <4>3. /\ Len(Markers(more)) = Len(m) + 1 /\ Outputs(more) = o
            /\ Total(Markers(more)) = Total(m) + c
        BY <3>4, <4>1
      <4>4. Len(more) = Len(q) + 1 /\ Len(q) \in Nat
        BY <2>1
      <4>5. Len(o) + (Len(m) + 1) = Len(q) + 1
        BY <2>5, <4>2, <4>4
      <4>6. Total(m) + c \in Nat /\ Len(m) + 1 <= Total(m) + c
        BY <2>5, <4>1, <4>2
      <4> QED
        BY <4>3, <4>4, <4>5, <4>6
    <3> QED
      BY <2>2, <3>4, <3>5 DEF Sorted
  <2>8. Sorted(more)
    BY <2>6, <2>7, EitherKind
  <2> QED
    BY <2>1, <2>8 DEF T, more
<1> HIDE DEF T, none
<1>3. \A q \in Seq(Queued) : q \in T
  BY <1>1, <1>2, SeqInduction DEF none
<1> QED
  BY <1>3 DEF T

Associates(p, q, x) == Append(p \o q, x) = p \o Append(q, x)

LEMMA AppendLast ==
  ASSUME NEW S, NEW p \in Seq(S), NEW q \in Seq(S), NEW x \in S
  PROVE  Associates(p, q, x)
BY DEF Associates

(* Of two queues, one after the other.                                     *)
Split(p, r) ==
  /\ Outputs(p \o r) = Outputs(p) \o Outputs(r)
  /\ Len(Markers(p \o r)) = Len(Markers(p)) + Len(Markers(r))
  /\ Total(Markers(p \o r)) = Total(Markers(p)) + Total(Markers(r))

LEMMA QueuesSplit ==
  ASSUME NEW p \in Seq(Queued)
  PROVE  \A r \in Seq(Queued) : Split(p, r)
<1> DEFINE T == {r \in Seq(Queued) : Split(p, r)}
           none == <<>>
<1>1. none \in T
  <2>1. none \in Seq(Queued) /\ Len(none) = 0 /\ p \o none = p
    OBVIOUS
  <2>2. Outputs(none) = none /\ Markers(none) = none /\ Total(none) = 0
    BY OutputsFrom, TotalOf
  <2>3. Outputs(p) \in Seq(OutputSet) /\ Markers(p) \in Seq(MarkerSet) /\ Total(Markers(p)) \in Nat
    BY QueuesSorted DEF Sorted
  <2>4. Outputs(p) \o none = Outputs(p) /\ Len(Markers(p)) \in Nat
    BY <2>3
  <2> HIDE DEF none
  <2>5. Split(p, none)
    BY <2>1, <2>2, <2>3, <2>4 DEF Split
  <2> QED
    BY <2>1, <2>5
<1>2. ASSUME NEW r \in Seq(Queued), NEW x \in Queued, r \in T
      PROVE  Append(r, x) \in T
  <2> DEFINE pr == p \o r
             rx == Append(r, x)
             prx == p \o rx
             o == Outputs(r)
             m == Markers(r)
             po == Outputs(p)
  <2>1. /\ pr \in Seq(Queued) /\ rx \in Seq(Queued) /\ prx = Append(pr, x)
    OBVIOUS
  <2>2. /\ Outputs(pr) = po \o o
        /\ Len(Markers(pr)) = Len(Markers(p)) + Len(m)
        /\ Total(Markers(pr)) = Total(Markers(p)) + Total(m)
    BY <1>2 DEF Split
  <2> HIDE DEF pr
  <2>3. /\ po \in Seq(OutputSet) /\ o \in Seq(OutputSet)
        /\ m \in Seq(MarkerSet) /\ Markers(p) \in Seq(MarkerSet) /\ Markers(pr) \in Seq(MarkerSet)
        /\ Total(m) \in Nat /\ Total(Markers(p)) \in Nat
    BY <2>1, QueuesSorted DEF Sorted
  <2>4. x \in OutputSet => /\ Outputs(rx) = Append(o, x) /\ Markers(rx) = m
                           /\ Outputs(prx) = Append(Outputs(pr), x) /\ Markers(prx) = Markers(pr)
    BY <2>1, OutputsFrom
  <2>5. x \in MarkerSet => /\ Outputs(rx) = o /\ Markers(rx) = Append(m, x)
                           /\ Outputs(prx) = Outputs(pr) /\ Markers(prx) = Append(Markers(pr), x)
    BY <2>1, OutputsFrom
  <2> HIDE DEF T, rx, prx, o, m, po
  <2>6. ASSUME x \in OutputSet PROVE Split(p, rx)
    <3>1. Append(po \o o, x) = po \o Append(o, x)
      <4>1. po \in Seq(OutputSet) /\ o \in Seq(OutputSet) /\ x \in OutputSet
        BY <2>3, <2>6
      <4>2. Associates(po, o, x)
        BY <4>1, AppendLast
      <4> QED
        BY <4>2 DEF Associates
    <3> QED
      BY <2>2, <2>4, <2>6, <3>1 DEF Split, prx, po
  <2>7. ASSUME x \in MarkerSet PROVE Split(p, rx)
    <3>1. /\ Total(Append(m, x)) = Total(m) + x.n
          /\ Total(Append(Markers(pr), x)) = Total(Markers(pr)) + x.n
      BY <2>3, <2>7, TotalOf
    <3>2. x.n \in Nat
      BY <2>7 DEF MarkerSet
    <3>3. /\ Len(Append(m, x)) = Len(m) + 1 /\ Len(Append(Markers(pr), x)) = Len(Markers(pr)) + 1
          /\ Len(m) \in Nat /\ Len(Markers(p)) \in Nat
      BY <2>3, <2>7
    <3>4. Len(Markers(prx)) = Len(Markers(p)) + Len(Markers(rx))
      <4>1. Len(Markers(prx)) = Len(Markers(pr)) + 1 /\ Len(Markers(rx)) = Len(m) + 1
        BY <2>5, <2>7, <3>3
      <4>2. Len(Markers(pr)) = Len(Markers(p)) + Len(m)
        BY <2>2
      <4>3. Len(m) \in Nat /\ Len(Markers(p)) \in Nat
        BY <3>3
      <4> QED
        BY <4>1, <4>2, <4>3
    <3>5. Total(Markers(prx)) = Total(Markers(p)) + Total(Markers(rx))
      <4>1. PICK c \in Nat : c = x.n
        BY <3>2
      <4>2. Total(Markers(prx)) = Total(Markers(pr)) + c /\ Total(Markers(rx)) = Total(m) + c
        BY <2>5, <2>7, <3>1, <4>1
      <4>3. Total(Markers(pr)) = Total(Markers(p)) + Total(m)
        BY <2>2
      <4>4. Total(m) \in Nat /\ Total(Markers(p)) \in Nat
        BY <2>3
      <4> QED
        BY <4>2, <4>3, <4>4
    <3> QED
      BY <2>2, <2>5, <2>7, <3>4, <3>5 DEF Split, prx, po
  <2>8. Split(p, rx)
    BY <2>6, <2>7, EitherKind
  <2> QED
    BY <2>1, <2>8 DEF T, rx
<1> HIDE DEF T, none
<1>3. \A r \in Seq(Queued) : r \in T
  BY <1>1, <1>2, SeqInduction DEF none
<1> QED
  BY <1>3 DEF T

-----------------------------------------------------------------------------
(* The invariant of the fan-out *)

(* A queue since the last drain, in which count outputs were published: it *)
(* holds the last of them, in order, and markers for no more than the      *)
(* others.                                                                 *)
Announced(q, count) ==
  /\ q \in Seq(Queued) /\ count \in Nat
  /\ Len(Outputs(q)) <= count
  /\ \A i \in 1..Len(Outputs(q)) : Outputs(q)[i] = Output((count - Len(Outputs(q))) + i)
  /\ count > 0 => Len(Outputs(q)) > 0
  /\ (count - Len(Outputs(q)) > 0) = (Len(Markers(q)) > 0)
  /\ Total(Markers(q)) <= count - Len(Outputs(q))
  /\ Len(q) <= Window + 1

FanoutFits ==
  /\ queues = [s \in Streams |-> queues[s]] /\ published = [s \in Streams |-> published[s]]
  /\ \A s \in Streams : Announced(queues[s], published[s])

LEMMA EmptyAnnounced == Announced(<<>>, 0)
<1> DEFINE none == <<>>
<1>1. Outputs(none) = none /\ Markers(none) = none /\ Total(none) = 0
  BY OutputsFrom, TotalOf
<1>2. none \in Seq(Queued) /\ Len(none) = 0
  OBVIOUS
<1> HIDE DEF none
<1>3. Announced(none, 0)
  BY <1>1, <1>2, EventFlowAssumption DEF Announced
<1> QED
  BY <1>3 DEF none

(* What is left of a queue when its first n entries are dropped.           *)
LEMMA Dropping ==
  ASSUME NEW q \in Seq(Queued), NEW n \in 0..Len(q)
  PROVE  \E p \in Seq(Queued) :
           LET r == SubSeq(q, n + 1, Len(q)) IN
           r \in Seq(Queued) /\ q = p \o r /\ Len(p) = n /\ Len(r) = Len(q) - n
<1> DEFINE p == SubSeq(q, 1, n)
           r == SubSeq(q, n + 1, Len(q))
<1>1. p \in Seq(Queued) /\ Len(p) = n /\ \A i \in 1..n : p[i] = q[i]
  OBVIOUS
<1>2. r \in Seq(Queued) /\ Len(r) = Len(q) - n /\ \A i \in 1..(Len(q) - n) : r[i] = q[n + i]
  OBVIOUS
<1> HIDE DEF p, r
<1>3. q = p \o r
  <2>1. p \in Seq(Queued) /\ r \in Seq(Queued)
    BY <1>1, <1>2
  <2>2. p \o r \in Seq(Queued) /\ Len(p \o r) = Len(p) + Len(r)
    BY <2>1
  <2>3. Len(p \o r) = Len(q)
    BY <1>1, <1>2, <2>2
  <2>4. ASSUME NEW i \in 1..Len(q) PROVE (p \o r)[i] = q[i]
    <3>1. Len(p) = n /\ n \in Nat /\ Len(r) = Len(q) - n /\ Len(q) \in Nat
      BY <1>1, <1>2
    <3>2. CASE i \in 1..n
      BY <1>1, <2>1, <3>1, <3>2
    <3>3. CASE i \notin 1..n
      <4>1. i - n \in 1..Len(r) /\ n + (i - n) = i
        BY <3>1, <3>3
      <4>2. (p \o r)[Len(p) + (i - n)] = r[i - n]
        BY <2>1, <4>1
      <4> QED
        BY <1>2, <3>1, <4>1, <4>2
    <3> QED
      BY <3>2, <3>3
  <2> QED
    BY <2>2, <2>3, <2>4, SeqEqual
<1> QED
  BY <1>1, <1>2, <1>3 DEF p, r

(* A queue with room for one more output.                                  *)
Room(q, count) ==
  /\ q \in Seq(Queued) /\ count \in Nat
  /\ Len(Outputs(q)) <= count
  /\ \A i \in 1..Len(Outputs(q)) : Outputs(q)[i] = Output((count - Len(Outputs(q))) + i)
  /\ (count - Len(Outputs(q)) > 0) = (Len(Markers(q)) > 0)
  /\ Total(Markers(q)) <= count - Len(Outputs(q))
  /\ Len(q) <= Window

(* An output more, when there is room for it.                              *)
LEMMA OutputAnnounced ==
  ASSUME NEW q, NEW count, Room(q, count)
  PROVE  Announced(Append(q, Output(count + 1)), count + 1)
<1> DEFINE x == Output(count + 1)
           more == Append(q, x)
           o == Outputs(q)
           m == Markers(q)
<1>1. /\ q \in Seq(Queued) /\ count \in Nat /\ Len(o) <= count
      /\ \A i \in 1..Len(o) : o[i] = Output((count - Len(o)) + i)
      /\ (count - Len(o) > 0) = (Len(m) > 0)
      /\ Total(m) <= count - Len(o) /\ Len(q) <= Window
  BY DEF Room
<1>2. x \in OutputSet /\ x \in Queued
  BY <1>1 DEF Output, OutputSet, Queued
<1>3. Outputs(more) = Append(o, x) /\ Markers(more) = m
  BY <1>1, <1>2, OutputsFrom
<1>4. o \in Seq(OutputSet) /\ m \in Seq(MarkerSet)
  BY <1>1, QueuesSorted DEF Sorted
<1>5. more \in Seq(Queued) /\ Len(more) = Len(q) + 1 /\ Len(q) \in Nat
  BY <1>1, <1>2
<1> HIDE DEF o, m, x, more
<1>6. /\ Len(Outputs(more)) = Len(o) + 1 /\ Len(o) \in Nat
      /\ Outputs(more)[Len(o) + 1] = x
      /\ \A i \in 1..Len(o) : Outputs(more)[i] = o[i]
  BY <1>2, <1>3, <1>4
<1>7. (count + 1) - Len(Outputs(more)) = count - Len(o)
  BY <1>1, <1>6
<1>8. ASSUME NEW i \in 1..Len(Outputs(more))
      PROVE  Outputs(more)[i] = Output(((count + 1) - Len(Outputs(more))) + i)
  <2>1. CASE i \in 1..Len(o)
    BY <1>1, <1>6, <1>7, <2>1
  <2>2. CASE i = Len(o) + 1
    <3>1. (count - Len(o)) + i = count + 1
      BY <1>1, <1>6, <2>2
    <3> QED
      BY <1>6, <1>7, <2>2, <3>1 DEF x
  <2> QED
    BY <1>6, <2>1, <2>2
<1>9. Len(Outputs(more)) <= count + 1 /\ Len(Outputs(more)) > 0 /\ count + 1 \in Nat
  BY <1>1, <1>6
<1>10. Len(more) <= Window + 1
  BY <1>1, <1>5, EventFlowAssumption
<1>11. /\ ((count + 1) - Len(Outputs(more)) > 0) = (Len(Markers(more)) > 0)
       /\ Total(Markers(more)) <= (count + 1) - Len(Outputs(more))
  BY <1>1, <1>3, <1>7
<1>12. Announced(more, count + 1)
  BY <1>5, <1>8, <1>9, <1>10, <1>11 DEF Announced
<1> QED
  BY <1>12 DEF more, x

(* The oldest entries make room for a marker that counts them.  It may     *)
(* count earlier markers among them, but each of those stood for at least  *)
(* one output.                                                             *)
LEMMA MarkerMakesRoom ==
  ASSUME NEW q, NEW count, Announced(q, count), NEW n \in Nat \ {0},
         Len(q) >= Window, n = (Len(q) - Window) + 1
  PROVE  /\ SubSeq(q, n + 1, Len(q)) \in Seq(Queued)
         /\ Room(Append(SubSeq(q, n + 1, Len(q)), Dropped(n)), count)
<1> DEFINE r == SubSeq(q, n + 1, Len(q))
           d == Dropped(n)
           more == Append(r, d)
           lost == count - Len(Outputs(q))
<1>1. /\ q \in Seq(Queued) /\ count \in Nat /\ Len(Outputs(q)) <= count
      /\ \A i \in 1..Len(Outputs(q)) : Outputs(q)[i] = Output(lost + i)
      /\ (lost > 0) = (Len(Markers(q)) > 0)
      /\ Total(Markers(q)) <= lost
  BY DEF Announced
<1>2. Window \in Nat \ {0} /\ Len(q) \in Nat
  BY <1>1, EventFlowAssumption
<1>3. n \in 0..Len(q)
  BY <1>2
<1>4. PICK p \in Seq(Queued) : r \in Seq(Queued) /\ q = p \o r /\ Len(p) = n /\ Len(r) = Len(q) - n
  BY <1>1, <1>3, Dropping
<1>5. d \in MarkerSet /\ d \in Queued /\ d.n = n
  BY DEF Dropped, MarkerSet, Queued
<1> HIDE DEF r, d
<1>6. /\ Outputs(q) = Outputs(p) \o Outputs(r)
      /\ Len(Markers(q)) = Len(Markers(p)) + Len(Markers(r))
      /\ Total(Markers(q)) = Total(Markers(p)) + Total(Markers(r))
  BY <1>4, QueuesSplit DEF Split
<1>7. /\ Outputs(p) \in Seq(OutputSet) /\ Outputs(r) \in Seq(OutputSet)
      /\ Markers(p) \in Seq(MarkerSet) /\ Markers(r) \in Seq(MarkerSet)
      /\ Len(Outputs(p)) + Len(Markers(p)) = n
      /\ Total(Markers(p)) \in Nat /\ Len(Markers(p)) <= Total(Markers(p))
      /\ Total(Markers(r)) \in Nat
  BY <1>4, QueuesSorted DEF Sorted
<1>8. /\ Outputs(more) = Outputs(r) /\ Markers(more) = Append(Markers(r), d)
      /\ Total(Markers(more)) = Total(Markers(r)) + n
  <2>1. Outputs(more) = Outputs(r) /\ Markers(more) = Append(Markers(r), d)
    BY <1>4, <1>5, OutputsFrom
  <2>2. Total(Append(Markers(r), d)) = Total(Markers(r)) + d.n
    BY <1>5, <1>7, TotalOf
  <2> QED
    BY <1>5, <2>1, <2>2
<1>9. more \in Seq(Queued) /\ Len(more) = Len(r) + 1
  <2>1. r \in Seq(Queued) /\ d \in Queued
    BY <1>4, <1>5
  <2> QED
    BY <2>1
<1>10. Len(more) <= Window
  BY <1>2, <1>4, <1>9
<1>11. /\ Len(Outputs(q)) = Len(Outputs(p)) + Len(Outputs(r))
       /\ Len(Outputs(p)) \in Nat /\ Len(Outputs(r)) \in Nat
       /\ \A i \in 1..Len(Outputs(r)) : Outputs(q)[Len(Outputs(p)) + i] = Outputs(r)[i]
  BY <1>6, <1>7
<1>12. Len(Markers(p)) \in Nat /\ Len(Markers(r)) \in Nat /\ Len(Markers(more)) = Len(Markers(r)) + 1
  BY <1>5, <1>7, <1>8
<1> HIDE DEF more
<1>13. PICK po \in Nat, ro \in Nat, pm \in Nat, rm \in Nat, pt \in Nat, rt \in Nat :
         /\ po = Len(Outputs(p)) /\ ro = Len(Outputs(r)) /\ pm = Len(Markers(p))
         /\ rm = Len(Markers(r)) /\ pt = Total(Markers(p)) /\ rt = Total(Markers(r))
  BY <1>7, <1>11, <1>12
<1>14. /\ po + pm = n /\ pm <= pt /\ po + ro <= count /\ pt + rt <= count - (po + ro)
       /\ (count - (po + ro) > 0) = (pm + rm > 0)
  BY <1>1, <1>6, <1>7, <1>11, <1>13
<1>15. /\ ro <= count /\ count - ro > 0 /\ rt + n <= count - ro /\ rm + 1 > 0
  BY <1>1, <1>14
<1>16. ASSUME NEW i \in 1..Len(Outputs(r))
       PROVE  Outputs(r)[i] = Output((count - ro) + i)
  <2>1. po + i \in 1..Len(Outputs(q)) /\ Len(Outputs(q)) = po + ro
    BY <1>11, <1>13
  <2>2. lost + (po + i) = (count - ro) + i
    BY <1>1, <1>13, <2>1
  <2> QED
    BY <1>1, <1>11, <1>13, <2>1, <2>2
<1>17. Room(more, count)
  BY <1>1, <1>8, <1>9, <1>10, <1>12, <1>13, <1>15, <1>16 DEF Room
<1> QED
  BY <1>4, <1>17 DEF r, d, more

(* What publish_output leaves of a queue before the output is added.       *)
LEMMA PublishMakesRoom ==
  ASSUME NEW q, NEW count, Announced(q, count)
  PROVE  LET n == IF Len(q) >= Window THEN Len(q) - Window + 1 ELSE 0
             marker == IF n > 0 THEN <<Dropped(n)>> ELSE <<>>
         IN Room(SubSeq(q, n + 1, Len(q)) \o marker, count)
<1>1. q \in Seq(Queued) /\ Len(q) \in Nat /\ Window \in Nat \ {0}
  BY EventFlowAssumption DEF Announced
<1>2. CASE Len(q) >= Window
  <2>1. PICK n \in Nat \ {0} : n = (Len(q) - Window) + 1
    BY <1>1, <1>2
  <2>2. PICK r \in Seq(Queued) : r = SubSeq(q, n + 1, Len(q)) /\ Room(Append(r, Dropped(n)), count)
    BY <1>2, <2>1, MarkerMakesRoom
  <2>3. Dropped(n) \in Queued
    BY <2>1 DEF Dropped, MarkerSet, Queued
  <2>4. r \o <<Dropped(n)>> = Append(r, Dropped(n))
    BY <2>3
  <2>5. n > 0
    BY <2>1
  <2> QED
    BY <1>2, <2>1, <2>2, <2>4, <2>5
<1>3. CASE ~ (Len(q) >= Window)
  <2>1. PICK r \in Seq(Queued) : r = SubSeq(q, 0 + 1, Len(q)) \o <<>> /\ r = q
    BY <1>1
  <2>2. Room(r, count)
    <3>1. Len(q) <= Window
      BY <1>1, <1>3
    <3>2. /\ count \in Nat /\ Len(Outputs(q)) <= count
          /\ \A i \in 1..Len(Outputs(q)) : Outputs(q)[i] = Output((count - Len(Outputs(q))) + i)
          /\ (count - Len(Outputs(q)) > 0) = (Len(Markers(q)) > 0)
          /\ Total(Markers(q)) <= count - Len(Outputs(q))
      BY DEF Announced
    <3>3. r = q
      BY <2>1
    <3>4. Room(q, count)
      BY <1>1, <3>1, <3>2 DEF Room
    <3> QED
      BY <3>3, <3>4
  <2>3. /\ (IF Len(q) >= Window THEN Len(q) - Window + 1 ELSE 0) = 0
        /\ ~ (0 > 0)
    BY <1>3
  <2>4. (IF 0 > 0 THEN <<Dropped(0)>> ELSE <<>>) = <<>>
    BY <2>3
  <2> QED
    BY <2>1, <2>2, <2>3, <2>4
<1> QED
  BY <1>2, <1>3

LEMMA PublishFits ==
  ASSUME FanoutFits, NEW s \in Streams, Publish(s)
  PROVE  FanoutFits'
<1>1. PICK c : c = published[s]
  OBVIOUS
<1>2. PICK q : q = queues[s]
  OBVIOUS
<1>3. Announced(q, c)
  BY <1>1, <1>2 DEF FanoutFits
<1> DEFINE n == IF Len(q) >= Window THEN Len(q) - Window + 1 ELSE 0
           marker == IF n > 0 THEN <<Dropped(n)>> ELSE <<>>
           rest == SubSeq(q, n + 1, Len(q)) \o marker
<1>4. Room(rest, c)
  BY <1>3, PublishMakesRoom
<1>5. /\ published' = [published EXCEPT ![s] = c + 1]
      /\ queues' = [queues EXCEPT ![s] = rest \o <<Output(c + 1)>>]
  BY <1>1, <1>2 DEF Publish
<1> HIDE DEF rest
<1>6. rest \in Seq(Queued) /\ Output(c + 1) \in Queued
  BY <1>4 DEF Room, Output, OutputSet, Queued
<1>7. rest \o <<Output(c + 1)>> = Append(rest, Output(c + 1))
  BY <1>6
<1>8. PICK more : more = Append(rest, Output(c + 1)) /\ Announced(more, c + 1)
  BY <1>4, OutputAnnounced
<1>9. queues' = [queues EXCEPT ![s] = more]
  BY <1>5, <1>7, <1>8
<1>10. /\ queues = [r \in Streams |-> queues[r]] /\ published = [r \in Streams |-> published[r]]
       /\ \A r \in Streams : Announced(queues[r], published[r])
  BY DEF FanoutFits
<1>11. /\ queues' = [r \in Streams |-> queues'[r]]
       /\ published' = [r \in Streams |-> published'[r]]
       /\ queues'[s] = more /\ published'[s] = c + 1
       /\ \A r \in Streams \ {s} : queues'[r] = queues[r] /\ published'[r] = published[r]
  BY <1>5, <1>9, <1>10
<1>12. \A r \in Streams : Announced(queues'[r], published'[r])
  BY <1>8, <1>10, <1>11
<1> QED
  BY <1>11, <1>12 DEF FanoutFits

LEMMA DrainFits ==
  ASSUME FanoutFits, NEW s \in Streams, Drain(s)
  PROVE  FanoutFits'
<1>1. PICK none : none = <<>>
  OBVIOUS
<1>2. queues' = [queues EXCEPT ![s] = none] /\ published' = [published EXCEPT ![s] = 0]
  BY <1>1 DEF Drain
<1>3. Announced(none, 0)
  BY <1>1, EmptyAnnounced
<1>4. /\ queues = [r \in Streams |-> queues[r]] /\ published = [r \in Streams |-> published[r]]
      /\ \A r \in Streams : Announced(queues[r], published[r])
  BY DEF FanoutFits
<1>5. /\ queues' = [r \in Streams |-> queues'[r]]
      /\ published' = [r \in Streams |-> published'[r]]
      /\ queues'[s] = none /\ published'[s] = 0
      /\ \A r \in Streams \ {s} : queues'[r] = queues[r] /\ published'[r] = published[r]
  BY <1>2, <1>4
<1>6. \A r \in Streams : Announced(queues'[r], published'[r])
  BY <1>3, <1>4, <1>5
<1> QED
  BY <1>5, <1>6 DEF FanoutFits

-----------------------------------------------------------------------------
(* The invariants and the steps *)

IInv == Lives /\ Takes /\ FanoutFits

LEMMA FlowBegins == Init => IInv
<1>1. SUFFICES ASSUME Init PROVE IInv
  OBVIOUS
<1>2. PICK none : none = <<>>
  OBVIOUS
<1>3. /\ current_state = Unborn /\ current_seq = Zero /\ events = none
      /\ seen = {} /\ last_seq = Zero /\ accepted = none /\ reconciliation = none
      /\ queues = [s \in Streams |-> none] /\ published = [s \in Streams |-> 0]
  BY <1>1, <1>2 DEF Init
<1>4. /\ Replay(none) = Fresh /\ Rebuild(none) = Unborn
      /\ \A s : Of(none, s) = none
  BY <1>2, ReplayFrom, RebuildFrom, OfFrom
<1>5. /\ none \in Seq(Event) /\ Len(none) = 0 /\ DOMAIN none = {} /\ Range(none) = {}
  BY <1>2 DEF Range
<1>6. /\ Unborn \in [Sessions -> States] /\ Zero \in [Sessions -> Nat]
      /\ \A s \in Sessions : Unborn[s] = "created" /\ Zero[s] = 0
  BY DEF Unborn, Zero, States, Allowed
<1>7. Fresh = [ok |-> TRUE, state |-> Unborn, seq |-> Zero]
  BY DEF Fresh
<1>8. \A s \in Sessions : InOrder(s)
  <2>1. \A k \in 1..0 : FALSE
    OBVIOUS
  <2> QED
    BY <1>3, <1>4, <1>5, <1>6, <2>1 DEF InOrder, Reached
<1>9. Lives
  BY <1>3, <1>4, <1>5, <1>6, <1>7, <1>8 DEF Lives
<1>10. \A s \in Sessions : Follows(s)
  <2>1. \A k \in 1..0 : FALSE
    OBVIOUS
  <2>2. 0 <= 0
    OBVIOUS
  <2> QED
    BY <1>3, <1>4, <1>5, <1>6, <2>1, <2>2 DEF Follows, Reached
<1>11. IsFiniteSet(seen) /\ NothingForgotten
  <2>1. IsFiniteSet(seen) /\ Cardinality(seen) = 0
    BY <1>3, FS_EmptySet
  <2> QED
    BY <1>3, <1>5, <2>1 DEF NothingForgotten
<1>12. Takes
  BY <1>3, <1>4, <1>5, <1>6, <1>7, <1>10, <1>11 DEF Takes
<1>13. FanoutFits
  <2>1. Announced(none, 0)
    BY <1>2, EmptyAnnounced
  <2> QED
    BY <1>3, <2>1 DEF FanoutFits
<1> QED
  BY <1>9, <1>12, <1>13 DEF IInv

LEMMA FlowGoesOn == IInv /\ [Next]_vars => IInv'
<1>1. SUFFICES ASSUME Lives, Takes, FanoutFits, [Next]_vars PROVE IInv'
  BY DEF IInv
<1>2. UNCHANGED fanout => FanoutFits'
  BY <1>1 DEF FanoutFits, fanout
<1>3. UNCHANGED <<lifecycle, ingestor>> => Lives' /\ Takes'
  <2>1. SUFFICES ASSUME UNCHANGED <<current_state, current_seq, events,
                                    seen, last_seq, accepted, reconciliation>>
                 PROVE  Lives' /\ Takes'
    BY DEF lifecycle, ingestor
  <2>2. \A s \in Sessions : (InOrder(s) => InOrder(s)') /\ (Follows(s) => Follows(s)')
    BY <2>1 DEF InOrder, Follows, Reached
  <2>3. (\A j \in DOMAIN events : InPlace(events[j]))'
    BY <1>1, <2>1 DEF Lives, InPlace
  <2>4. NothingForgotten'
    BY <1>1, <2>1 DEF Takes, NothingForgotten
  <2>5. Lives'
    BY <1>1, <2>1, <2>2, <2>3 DEF Lives
  <2> QED
    BY <1>1, <2>1, <2>2, <2>4, <2>5 DEF Takes
<1>4. CASE \E s \in Sessions, to \in Goals : Transition(s, to)
  <2>1. PICK s \in Sessions, to \in Goals : Transition(s, to)
    BY <1>4
  <2>2. Lives' /\ Takes'
    BY <1>1, <2>1, TransitionInOrder
  <2>3. UNCHANGED fanout
    BY <2>1 DEF Transition
  <2> QED
    BY <1>2, <2>2, <2>3 DEF IInv
<1>5. CASE \E i \in DOMAIN events : Ingest(events[i])
  <2>1. PICK i \in DOMAIN events : Ingest(events[i])
    BY <1>5
  <2>2. Lives' /\ Takes'
    BY <1>1, <2>1, IngestInOrder
  <2>3. UNCHANGED fanout
    BY <2>1 DEF Ingest
  <2> QED
    BY <1>2, <2>2, <2>3 DEF IInv
<1>6. CASE \E s \in Streams : Publish(s) \/ Drain(s)
  <2>1. PICK s \in Streams : Publish(s) \/ Drain(s)
    BY <1>6
  <2>2. FanoutFits'
    BY <1>1, <2>1, PublishFits, DrainFits
  <2>3. UNCHANGED <<lifecycle, ingestor>>
    BY <2>1 DEF Publish, Drain
  <2> QED
    BY <1>3, <2>2, <2>3 DEF IInv
<1>7. CASE UNCHANGED vars
  BY <1>2, <1>3, <1>7 DEF vars, IInv
<1> QED
  BY <1>1, <1>4, <1>5, <1>6, <1>7 DEF Next

LEMMA FlowHolds == Spec => []IInv
BY FlowBegins, FlowGoesOn, PTL DEF Spec

(* However the events of a session are lost, repeated and reordered on the *)
(* way, for any number of them: what the ingestor accepts is the beginning *)
(* of its history, and replay and projection agree on it.                  *)
THEOREM AcceptedAreHistory == Spec => []AcceptedIsHistory
<1>1. IInv => AcceptedIsHistory
  <2>1. SUFFICES ASSUME Lives, Takes PROVE AcceptedIsHistory
    BY DEF IInv
  <2>2. ASSUME NEW s \in Sessions PROVE IsPrefix(Of(accepted, s), Of(events, s))
    <3>1. Of(accepted, s) \in Seq(Event) /\ Of(events, s) \in Seq(Event)
      BY <2>1, OfTyped DEF Lives, Takes
    <3>2. PICK a \in Seq(Event), b \in Seq(Event) : a = Of(accepted, s) /\ b = Of(events, s)
      BY <3>1
    <3>3. PICK n \in Nat, m \in Nat : n = last_seq[s] /\ m = current_seq[s]
      BY <2>1 DEF Lives, Takes
    <3>4. Len(a) = n /\ Len(b) = m /\ n <= m /\ \A k \in 1..n : a[k] = b[k]
      BY <2>1, <3>2, <3>3 DEF Lives, InOrder, Takes, Follows
    <3>5. SubSeq(a, 1, Len(a)) = SubSeq(b, 1, Len(a))
      <4>1. /\ SubSeq(a, 1, n) \in Seq(Event) /\ SubSeq(b, 1, n) \in Seq(Event)
            /\ Len(SubSeq(a, 1, n)) = n /\ Len(SubSeq(b, 1, n)) = n
            /\ \A k \in 1..n : SubSeq(a, 1, n)[k] = a[k] /\ SubSeq(b, 1, n)[k] = b[k]
        BY <3>4
      <4>2. \A k \in 1..n : SubSeq(a, 1, n)[k] = SubSeq(b, 1, n)[k]
        BY <3>4, <4>1
      <4>3. PICK x \in Seq(Event), y \in Seq(Event) : x = SubSeq(a, 1, n) /\ y = SubSeq(b, 1, n)
        BY <4>1
      <4>4. x = y
        BY <4>1, <4>2, <4>3, SeqEqual
      <4> QED
        BY <3>4, <4>3, <4>4
    <3> QED
      BY <3>2, <3>4, <3>5 DEF IsPrefix
  <2>3. \A e \in Range(reconciliation) : last_seq[e.session] < e.seq
    BY <2>1 DEF Takes, Range
  <2> QED
    BY <2>1, <2>2, <2>3 DEF AcceptedIsHistory, Lives, Takes
<1> QED
  BY <1>1, FlowHolds, PTL

(* For a window of every size and any number of outputs: what a reader     *)
(* drains is the newest output, in order, behind a marker if and only if   *)
(* some is missing.                                                        *)
THEOREM DrainsTellOfLoss == Spec => []LossIsAnnounced
<1>1. IInv => LossIsAnnounced
  <2>1. SUFFICES ASSUME FanoutFits, NEW s \in Streams
                 PROVE  LET kept == Outputs(queues[s])
                            marks == Markers(queues[s])
                            lost == published[s] - Len(kept)
                        IN /\ kept = [i \in DOMAIN kept |-> Output(lost + i)]
                           /\ published[s] > 0 => kept # <<>>
                           /\ (lost > 0) = (marks # <<>>)
                           /\ Total(marks) <= lost
                           /\ Len(queues[s]) <= Window + 1
    BY DEF IInv, LossIsAnnounced
  <2>2. PICK q, c : q = queues[s] /\ c = published[s]
    OBVIOUS
  <2>3. Announced(q, c)
    BY <2>1, <2>2 DEF FanoutFits
  <2>4. PICK kept \in Seq(OutputSet), marks \in Seq(MarkerSet) :
          kept = Outputs(q) /\ marks = Markers(q)
    BY <2>3, QueuesSorted DEF Announced, Sorted
  <2>5. kept = [i \in DOMAIN kept |-> Output((c - Len(kept)) + i)]
    <3>1. /\ DOMAIN kept = 1..Len(kept)
          /\ \A i \in 1..Len(kept) : kept[i] = Output((c - Len(kept)) + i)
      BY <2>3, <2>4 DEF Announced
    <3>2. kept = [i \in DOMAIN kept |-> kept[i]]
      BY <2>4
    <3> QED
      BY <3>1, <3>2
  <2>6. (Len(kept) > 0 => kept # <<>>) /\ (Len(marks) > 0) = (marks # <<>>)
    OBVIOUS
  <2> QED
    BY <2>2, <2>3, <2>4, <2>5, <2>6 DEF Announced
<1> QED
  BY <1>1, FlowHolds, PTL

-----------------------------------------------------------------------------
(* Attributes *)

LEMMA RgbListed ==
  ASSUME NEW B, NEW r \in B, NEW g \in B, NEW b \in B
  PROVE  <<"rgb", r, g, b>> \in RgbColors(B)
BY DEF RgbColors

LEMMA ColorsListed ==
  /\ <<"default">> \in CellColors
  /\ \A i \in 0..255 : <<"indexed", i>> \in CellColors
  /\ \A r, g, b \in 0..255 : <<"rgb", r, g, b>> \in CellColors
BY RgbListed DEF CellColors

LEMMA Byte == ASSUME NEW n \in Nat PROVE n % 256 \in 0..255
OBVIOUS

LEMMA PlainTyped == PlainAttr \in CellAttrs
BY ColorsListed DEF PlainAttr, CellAttrs

LEMMA FourLater ==
  ASSUME NEW p \in Seq(Nat), NEW i \in Nat, i + 4 <= Len(p)
  PROVE  p[i + 2] \in Nat /\ p[i + 3] \in Nat /\ p[i + 4] \in Nat
<1>1. ASSUME NEW n \in Nat, i + 4 <= n
      PROVE  i + 2 \in 1..n /\ i + 3 \in 1..n /\ i + 4 \in 1..n
  BY <1>1
<1>2. \A k \in 1..Len(p) : p[k] \in Nat
  OBVIOUS
<1>3. Len(p) \in Nat
  OBVIOUS
<1> QED
  BY <1>1, <1>2, <1>3

(* The parameters of a colour are used up together.                        *)
LEMMA ExtendedTyped ==
  ASSUME NEW p \in Seq(Nat), NEW i \in DOMAIN p
  PROVE  /\ Extended(p, i).used \in {1, 3, 5}
         /\ Extended(p, i).used > 1 => Extended(p, i).color \in CellColors
<1>1. i \in Nat /\ i >= 1 /\ Len(p) \in Nat /\ DOMAIN p = 1..Len(p)
  OBVIOUS
<1>2. CASE i + 2 <= Len(p) /\ p[i + 1] = 5
  <2>1. p[i + 2] \in Nat
    BY <1>1, <1>2
  <2>2. p[i + 2] % 256 \in 0..255
    BY <2>1, Byte
  <2>3. <<"indexed", p[i + 2] % 256>> \in CellColors
    BY <2>2, ColorsListed
  <2>4. Extended(p, i) = [color |-> <<"indexed", p[i + 2] % 256>>, used |-> 3]
    BY <1>2 DEF Extended
  <2> QED
    BY <2>3, <2>4
<1>3. CASE ~(i + 2 <= Len(p) /\ p[i + 1] = 5) /\ i + 4 <= Len(p) /\ p[i + 1] = 2
  <2>1. p[i + 2] \in Nat /\ p[i + 3] \in Nat /\ p[i + 4] \in Nat
    <3>1. i \in Nat /\ Len(p) \in Nat /\ i + 4 <= Len(p)
      BY <1>1, <1>3
    <3> QED
      BY <3>1, FourLater
  <2>2. p[i + 2] % 256 \in 0..255 /\ p[i + 3] % 256 \in 0..255 /\ p[i + 4] % 256 \in 0..255
    BY <2>1, Byte
  <2>3. <<"rgb", p[i + 2] % 256, p[i + 3] % 256, p[i + 4] % 256>> \in CellColors
    BY <2>2, ColorsListed
  <2>4. Extended(p, i) =
          [color |-> <<"rgb", p[i + 2] % 256, p[i + 3] % 256, p[i + 4] % 256>>, used |-> 5]
    BY <1>3 DEF Extended
  <2> QED
    BY <2>3, <2>4
<1>4. CASE /\ ~(i + 2 <= Len(p) /\ p[i + 1] = 5)
           /\ ~(i + 4 <= Len(p) /\ p[i + 1] = 2)
  <2>1. Extended(p, i) = [color |-> <<"none">>, used |-> 1]
    BY <1>4 DEF Extended
  <2> QED
    BY <2>1
<1> QED
  BY <1>2, <1>3, <1>4

LEMMA Recolored ==
  ASSUME NEW a \in CellAttrs, NEW c \in CellColors
  PROVE  [a EXCEPT !.fg = c] \in CellAttrs /\ [a EXCEPT !.bg = c] \in CellAttrs
BY DEF CellAttrs

LEMMA Switched ==
  ASSUME NEW a \in CellAttrs, NEW b \in BOOLEAN
  PROVE  /\ [a EXCEPT !.bold = b] \in CellAttrs /\ [a EXCEPT !.dim = b] \in CellAttrs
         /\ [a EXCEPT !.italic = b] \in CellAttrs /\ [a EXCEPT !.underline = b] \in CellAttrs
         /\ [a EXCEPT !.reverse = b] \in CellAttrs
BY DEF CellAttrs

LEMMA SingleTyped ==
  ASSUME NEW a \in CellAttrs, NEW n \in Nat
  PROVE  Single(a, n) \in CellAttrs
<1>1. CASE n \in {0, 1, 2, 3, 4, 7}
  <2>1. n = 0 => Single(a, n) = PlainAttr
    BY DEF Single
  <2>2. n = 1 => Single(a, n) = [a EXCEPT !.bold = TRUE]
    BY DEF Single
  <2>3. n = 2 => Single(a, n) = [a EXCEPT !.dim = TRUE]
    BY DEF Single
  <2>4. n = 3 => Single(a, n) = [a EXCEPT !.italic = TRUE]
    BY DEF Single
  <2>5. n = 4 => Single(a, n) = [a EXCEPT !.underline = TRUE]
    BY DEF Single
  <2>6. n = 7 => Single(a, n) = [a EXCEPT !.reverse = TRUE]
    BY DEF Single
  <2> QED
    BY <1>1, <2>1, <2>2, <2>3, <2>4, <2>5, <2>6, PlainTyped, Switched
<1>2. CASE n \in {22, 23, 24, 27}
  <2>1. n = 22 => Single(a, n) = [a EXCEPT !.bold = FALSE, !.dim = FALSE]
    BY DEF Single
  <2>2. n = 23 => Single(a, n) = [a EXCEPT !.italic = FALSE]
    BY DEF Single
  <2>3. n = 24 => Single(a, n) = [a EXCEPT !.underline = FALSE]
    BY DEF Single
  <2>4. n = 27 => Single(a, n) = [a EXCEPT !.reverse = FALSE]
    BY DEF Single
  <2>5. [a EXCEPT !.bold = FALSE, !.dim = FALSE] \in CellAttrs
    BY DEF CellAttrs
  <2> QED
    BY <1>2, <2>1, <2>2, <2>3, <2>4, <2>5, Switched
<1>3. CASE n \in 30..37
  <2>1. <<"indexed", n - 30>> \in CellColors
    <3>1. n - 30 \in 0..255
      BY <1>3
    <3> QED
      BY <3>1, ColorsListed
  <2>2. Single(a, n) = [a EXCEPT !.fg = <<"indexed", n - 30>>]
    BY <1>3 DEF Single
  <2> QED
    BY <2>1, <2>2, Recolored
<1>4. CASE n \in 40..47
  <2>1. <<"indexed", n - 40>> \in CellColors
    <3>1. n - 40 \in 0..255
      BY <1>4
    <3> QED
      BY <3>1, ColorsListed
  <2>2. Single(a, n) = [a EXCEPT !.bg = <<"indexed", n - 40>>]
    BY <1>4 DEF Single
  <2> QED
    BY <2>1, <2>2, Recolored
<1>5. CASE n \in 90..97
  <2>1. <<"indexed", n - 82>> \in CellColors
    <3>1. n - 82 \in 0..255
      BY <1>5
    <3> QED
      BY <3>1, ColorsListed
  <2>2. Single(a, n) = [a EXCEPT !.fg = <<"indexed", n - 82>>]
    BY <1>5 DEF Single
  <2> QED
    BY <2>1, <2>2, Recolored
<1>6. CASE n \in 100..107
  <2>1. <<"indexed", n - 92>> \in CellColors
    <3>1. n - 92 \in 0..255
      BY <1>6
    <3> QED
      BY <3>1, ColorsListed
  <2>2. Single(a, n) = [a EXCEPT !.bg = <<"indexed", n - 92>>]
    BY <1>6 DEF Single
  <2> QED
    BY <2>1, <2>2, Recolored
<1>7. CASE n \in {39, 49}
  <2>1. n = 39 => Single(a, n) = [a EXCEPT !.fg = <<"default">>]
    BY DEF Single
  <2>2. n = 49 => Single(a, n) = [a EXCEPT !.bg = <<"default">>]
    BY DEF Single
  <2>3. PICK c \in CellColors : c = <<"default">>
    BY ColorsListed
  <2>4. [a EXCEPT !.fg = c] \in CellAttrs /\ [a EXCEPT !.bg = c] \in CellAttrs
    BY Recolored
  <2> QED
    BY <1>7, <2>1, <2>2, <2>3, <2>4
<1>8. CASE n \notin {0, 1, 2, 3, 4, 7, 22, 23, 24, 27, 39, 49}
            /\ n \notin 30..37 /\ n \notin 40..47 /\ n \notin 90..97 /\ n \notin 100..107
  BY <1>8 DEF Single
<1> QED
  BY <1>1, <1>2, <1>3, <1>4, <1>5, <1>6, <1>7, <1>8

(* Where the reader is: what it has made of the parameters so far.         *)
Reading == [attr : CellAttrs, skip : Nat]
At(a, k) == [attr |-> a, skip |-> k]

LEMMA ReadsTyped ==
  ASSUME NEW s \in Reading, NEW p \in Seq(Nat), NEW i \in DOMAIN p
  PROVE  Reads(s, p, i) \in Reading
<1>1. /\ s.attr \in CellAttrs /\ s.skip \in Nat /\ p[i] \in Nat
      /\ s = [attr |-> s.attr, skip |-> s.skip]
  BY DEF Reading
<1>2. PICK x : x = Extended(p, i)
  OBVIOUS
<1>3. x.used \in {1, 3, 5} /\ (x.used > 1 => x.color \in CellColors)
  BY <1>2, ExtendedTyped
<1>4. CASE s.skip > 0
  <2>1. Reads(s, p, i) = [s EXCEPT !.skip = @ - 1] /\ s.skip - 1 \in Nat
    BY <1>1, <1>4 DEF Reads
  <2> QED
    BY <2>1 DEF Reading
<1>5. CASE s.skip = 0 /\ p[i] \in {38, 48} /\ x.used = 1
  <2>1. Reads(s, p, i) = s
    BY <1>2, <1>5 DEF Reads
  <2> QED
    BY <2>1
<1>6. CASE s.skip = 0 /\ p[i] = 38 /\ x.used > 1
  <2>1. Reads(s, p, i) = [attr |-> [s.attr EXCEPT !.fg = x.color], skip |-> x.used - 1]
    BY <1>2, <1>3, <1>6 DEF Reads
  <2>2. [s.attr EXCEPT !.fg = x.color] \in CellAttrs
    <3>1. x.color \in CellColors /\ s.attr \in CellAttrs
      BY <1>1, <1>3, <1>6
    <3> QED
      BY <3>1, Recolored
  <2>3. x.used - 1 \in Nat
    BY <1>3
  <2> QED
    BY <2>1, <2>2, <2>3 DEF Reading
<1>7. CASE s.skip = 0 /\ p[i] = 48 /\ x.used > 1
  <2>1. Reads(s, p, i) = [attr |-> [s.attr EXCEPT !.bg = x.color], skip |-> x.used - 1]
    BY <1>2, <1>3, <1>7 DEF Reads
  <2>2. [s.attr EXCEPT !.bg = x.color] \in CellAttrs
    <3>1. x.color \in CellColors /\ s.attr \in CellAttrs
      BY <1>1, <1>3, <1>7
    <3> QED
      BY <3>1, Recolored
  <2>3. x.used - 1 \in Nat
    BY <1>3
  <2> QED
    BY <2>1, <2>2, <2>3 DEF Reading
<1>8. CASE s.skip = 0 /\ p[i] \notin {38, 48}
  <2>1. Reads(s, p, i) = [s EXCEPT !.attr = Single(@, p[i])]
    BY <1>8 DEF Reads
  <2>2. Single(s.attr, p[i]) \in CellAttrs
    BY <1>1, SingleTyped
  <2> QED
    BY <2>1, <2>2 DEF Reading
<1> QED
  BY <1>1, <1>3, <1>4, <1>5, <1>6, <1>7, <1>8

(* Sgr, as a chain of readings.                                            *)
IsReading(t, a, p) ==
  t = [i \in 0..Len(p) |-> IF i = 0 THEN At(a, 0) ELSE Reads(t[i - 1], p, i)]

(* Reading the parameters p up to n gives readings.                        *)
Readable(p, n) == \A i \in 1..n, s \in Reading : Reads(s, p, i) \in Reading

LEMMA ReadingExists ==
  ASSUME NEW first \in Reading, NEW n \in Nat, NEW p, Readable(p, n)
  PROVE  \E t : t = [i \in 0..n |-> IF i = 0 THEN first ELSE Reads(t[i - 1], p, i)]
<1> DEFINE F == [i \in 1..n |-> [s \in Reading |-> Reads(s, p, i)]]
<1>2. F \in [1..n -> [Reading -> Reading]]
  BY DEF Readable
<1>3. \A i \in 1..n, s \in Reading : F[i][s] = Reads(s, p, i)
  OBVIOUS
<1> HIDE DEF F
<1>4. PICK t \in [0..n -> Reading] : t[0] = first /\ \A i \in 1..n : t[i] = F[i][t[i - 1]]
  BY <1>2, Recursion
<1>5. ASSUME NEW i \in 0..n
      PROVE  t[i] = IF i = 0 THEN first ELSE Reads(t[i - 1], p, i)
  <2>1. i # 0 => i \in 1..n /\ i - 1 \in 0..n
    OBVIOUS
  <2> QED
    BY <1>3, <1>4, <2>1
<1>6. t = [i \in 0..n |-> IF i = 0 THEN first ELSE Reads(t[i - 1], p, i)]
  BY <1>5
<1> QED
  BY <1>6

LEMMA SgrRuns ==
  ASSUME NEW b \in CellAttrs, NEW p \in Seq(Nat)
  PROVE  \E t : IsReading(t, b, p) /\ Sgr(b, p) = t[Len(p)].attr
<1> DEFINE u == CHOOSE u : IsReading(u, b, p)
<1>1. At(b, 0) \in Reading
  BY DEF Reading, At
<1>2. \E t : IsReading(t, b, p)
  <2>1. PICK n \in Nat : n = Len(p) /\ DOMAIN p = 1..n
    OBVIOUS
  <2>2. Readable(p, n)
    BY <2>1, ReadsTyped DEF Readable
  <2>3. \E t : t = [i \in 0..n |-> IF i = 0 THEN At(b, 0) ELSE Reads(t[i - 1], p, i)]
    BY <1>1, <2>2, ReadingExists
  <2> QED
    BY <2>1, <2>3 DEF IsReading
<1>3. IsReading(u, b, p)
  BY <1>2
<1>4. Sgr(b, p) = u[Len(p)].attr
  BY DEF Sgr, IsReading, At
<1> QED
  BY <1>3, <1>4

LEMMA SgrTyped ==
  ASSUME NEW a \in CellAttrs, NEW p \in Seq(Nat)
  PROVE  Sgr(a, p) \in CellAttrs
<1>1. PICK t : IsReading(t, a, p) /\ Sgr(a, p) = t[Len(p)].attr
  BY SgrRuns
<1>2. PICK N : N = Len(p) /\ N \in Nat /\ DOMAIN p = 1..N
  OBVIOUS
<1>3. \A i \in 0..N : t[i] = IF i = 0 THEN At(a, 0) ELSE Reads(t[i - 1], p, i)
  BY <1>1, <1>2 DEF IsReading
<1> DEFINE Bad == {i \in 0..N : t[i] \notin Reading}
<1>4. SUFFICES ASSUME Bad # {} PROVE FALSE
  <2>1. Bad = {} => t[N] \in Reading
    BY <1>2
  <2> QED
    BY <1>1, <1>2, <2>1 DEF Reading
<1>5. Bad \in SUBSET Nat
  OBVIOUS
<1>6. PICK m \in Bad : \A k \in Bad : m <= k
  BY <1>4, <1>5, LeastNumber
<1>7. m \in 0..N /\ m \in Nat /\ t[m] \notin Reading
  OBVIOUS
<1>8. m # 0
  <2>1. At(a, 0) \in Reading
    BY DEF Reading, At
  <2> QED
    BY <1>3, <1>7, <2>1
<1>9. m - 1 \in 0..N /\ ~(m <= m - 1) /\ m \in DOMAIN p
  BY <1>2, <1>7, <1>8
<1>10. t[m - 1] \in Reading
  BY <1>6, <1>9
<1> QED
  BY <1>3, <1>7, <1>8, <1>9, <1>10, ReadsTyped

(* What is read later does not depend on what was read before, once the    *)
(* parameters before are used up.                                          *)
LEMMA SamePlaces ==
  ASSUME NEW p \in Seq(Nat), NEW q \in Seq(Nat)
  PROVE  /\ Len(p) \in Nat /\ Len(q) \in Nat
         /\ p \o q \in Seq(Nat) /\ Len(p \o q) = Len(p) + Len(q)
         /\ \A i \in 1..Len(q) : (p \o q)[Len(p) + i] = q[i]
         /\ \A i \in 1..Len(p) : (p \o q)[i] = p[i]
OBVIOUS

LEMMA ReadsLater ==
  ASSUME NEW p \in Seq(Nat), NEW q \in Seq(Nat),
         NEW s, NEW i \in 1..Len(q)
  PROVE  Reads(s, p \o q, Len(p) + i) = Reads(s, q, i)
<1> DEFINE r == p \o q
<1>0. Len(p) \in Nat /\ Len(q) \in Nat
  BY SamePlaces
<1>1. PICK m : m = Len(p) /\ m \in Nat
  BY <1>0
<1>2. PICK n : n = Len(q) /\ n \in Nat
  BY <1>0
<1>3. Len(r) = m + n /\ \A k \in 1..n : r[m + k] = q[k]
  BY <1>1, <1>2, SamePlaces
<1> HIDE DEF r
<1>4. i \in Nat /\ i >= 1
  OBVIOUS
<1>5. /\ (m + i) + 2 <= Len(r) <=> i + 2 <= n
      /\ (m + i) + 4 <= Len(r) <=> i + 4 <= n
  BY <1>1, <1>2, <1>3, <1>4
<1>6. /\ r[m + i] = q[i]
      /\ i + 2 <= n => r[(m + i) + 1] = q[i + 1] /\ r[(m + i) + 2] = q[i + 2]
      /\ i + 4 <= n => /\ r[(m + i) + 1] = q[i + 1] /\ r[(m + i) + 2] = q[i + 2]
                       /\ r[(m + i) + 3] = q[i + 3] /\ r[(m + i) + 4] = q[i + 4]
  <2>1. ASSUME NEW k \in Nat, i + k <= n PROVE r[(m + i) + k] = q[i + k]
    <3>1. i + k \in 1..n /\ m + (i + k) = (m + i) + k
      BY <1>1, <1>2, <1>4, <2>1
    <3> QED
      BY <1>3, <3>1
  <2>2. r[m + i] = q[i]
    BY <1>2, <1>3
  <2>3. /\ i + 2 <= n => i + 1 <= n
        /\ i + 4 <= n => i + 1 <= n /\ i + 2 <= n /\ i + 3 <= n
    BY <1>2, <1>4
  <2> QED
    BY <2>1, <2>2, <2>3
<1>7. Extended(r, m + i) = Extended(q, i)
  <2>1. CASE i + 2 <= n
    <3>1. r[(m + i) + 1] = q[i + 1] /\ r[(m + i) + 2] = q[i + 2]
      BY <1>6, <2>1
    <3>2. CASE i + 4 <= n
      <4>1. r[(m + i) + 3] = q[i + 3] /\ r[(m + i) + 4] = q[i + 4]
        BY <1>6, <3>2
      <4> QED
        BY <1>2, <1>5, <2>1, <3>1, <3>2, <4>1, Zenon DEF Extended
    <3>3. CASE ~(i + 4 <= n)
      BY <1>2, <1>5, <2>1, <3>1, <3>3, Zenon DEF Extended
    <3> QED
      BY <3>2, <3>3
  <2>2. CASE ~(i + 2 <= n)
    <3>1. ~(i + 4 <= n)
      BY <1>2, <1>4, <2>2
    <3> QED
      BY <1>2, <1>5, <2>2, <3>1, Zenon DEF Extended
  <2> QED
    BY <2>1, <2>2
<1>8. r[m + i] = q[i]
  BY <1>6
<1>9. Reads(s, r, m + i) = Reads(s, q, i)
  BY <1>7, <1>8 DEF Reads
<1> QED
  BY <1>1, <1>9 DEF r

(* p makes c of b, whatever follows.                                       *)
Makes(p, b, c) == \A q \in Seq(Nat) : Sgr(b, p \o q) = Sgr(c, q)

LEMMA ReadsOn ==
  ASSUME NEW p \in Seq(Nat), NEW q \in Seq(Nat), NEW b \in CellAttrs, NEW c \in CellAttrs,
         \A t : IsReading(t, b, p \o q) => t[Len(p)] = At(c, 0)
  PROVE  Sgr(b, p \o q) = Sgr(c, q)
<1>1. PICK r : r = p \o q
  OBVIOUS
<1>2. PICK m : m = Len(p) /\ m \in Nat
  OBVIOUS
<1>3. PICK n : n = Len(q) /\ n \in Nat
  OBVIOUS
<1>4. r \in Seq(Nat) /\ Len(r) = m + n
  BY <1>1, <1>2, <1>3, SamePlaces
<1>5. PICK t : IsReading(t, b, r) /\ Sgr(b, r) = t[Len(r)].attr
  BY <1>4, SgrRuns
<1>6. PICK u : IsReading(u, c, q) /\ Sgr(c, q) = u[Len(q)].attr
  BY SgrRuns
<1>7. \A i \in 0..m + n : t[i] = IF i = 0 THEN At(b, 0) ELSE Reads(t[i - 1], r, i)
  BY <1>4, <1>5 DEF IsReading
<1>8. \A i \in 0..n : u[i] = IF i = 0 THEN At(c, 0) ELSE Reads(u[i - 1], q, i)
  BY <1>3, <1>6 DEF IsReading
<1>9. t[m] = At(c, 0)
  BY <1>1, <1>2, <1>5
<1>10. \A s : \A i \in 1..n : Reads(s, r, m + i) = Reads(s, q, i)
  <2> TAKE s
  <2> TAKE i \in 1..n
  <2>1. i \in 1..Len(q)
    BY <1>3
  <2>2. Reads(s, p \o q, Len(p) + i) = Reads(s, q, i)
    BY <2>1, ReadsLater
  <2> QED
    BY <1>1, <1>2, <2>2
<1> DEFINE Bad == {i \in 0..n : t[m + i] # u[i]}
<1>11. SUFFICES ASSUME Bad # {} PROVE FALSE
  <2>1. Bad = {} => t[m + n] = u[n]
    BY <1>3
  <2> QED
    BY <1>1, <1>3, <1>4, <1>5, <1>6, <2>1
<1>12. Bad \in SUBSET Nat
  OBVIOUS
<1>13. PICK k \in Bad : \A j \in Bad : k <= j
  BY <1>11, <1>12, LeastNumber
<1>14. k \in 0..n /\ k \in Nat /\ t[m + k] # u[k]
  OBVIOUS
<1>15. k # 0
  <2>1. m + 0 = m /\ 0 \in 0..n
    BY <1>2, <1>3
  <2> QED
    BY <1>8, <1>9, <1>14, <2>1
<1>16. /\ k \in 1..n /\ k - 1 \in 0..n /\ ~(k <= k - 1)
       /\ m + k \in 0..m + n /\ m + k # 0 /\ (m + k) - 1 = m + (k - 1)
  BY <1>2, <1>3, <1>14, <1>15
<1>17. t[m + (k - 1)] = u[k - 1]
  BY <1>13, <1>16
<1>18. t[m + k] = Reads(u[k - 1], r, m + k)
  BY <1>7, <1>16, <1>17
<1>19. u[k] = Reads(u[k - 1], q, k)
  BY <1>8, <1>14, <1>15
<1> QED
  BY <1>10, <1>14, <1>16, <1>18, <1>19

(* The parameters after a colour's first one are passed over.              *)
LEMMA PassedOver ==
  ASSUME NEW x, NEW k \in Nat, NEW n \in Nat, n = k + 1, NEW r, NEW i
  PROVE  Reads(At(x, n), r, i) = At(x, k)
<1> DEFINE s == [attr |-> x, skip |-> n]
<1>1. s.skip > 0 /\ s.skip - 1 = k
  OBVIOUS
<1>2. [s EXCEPT !.skip = k] = [attr |-> x, skip |-> k]
  OBVIOUS
<1> HIDE DEF s
<1>3. Reads(s, r, i) = [s EXCEPT !.skip = s.skip - 1]
  BY <1>1 DEF Reads
<1> QED
  BY <1>1, <1>2, <1>3 DEF s, At

LEMMA ReadsColor ==
  ASSUME NEW s, s.skip = 0, NEW r, NEW i, Extended(r, i).used > 1
  PROVE  /\ r[i] = 38 => Reads(s, r, i) = [attr |-> [s.attr EXCEPT !.fg = Extended(r, i).color],
                                           skip |-> Extended(r, i).used - 1]
         /\ r[i] = 48 => Reads(s, r, i) = [attr |-> [s.attr EXCEPT !.bg = Extended(r, i).color],
                                           skip |-> Extended(r, i).used - 1]
<1>1. ~(s.skip > 0) /\ Extended(r, i).used # 1
  OBVIOUS
<1> QED
  BY <1>1 DEF Reads

LEMMA ReadingSteps ==
  ASSUME NEW t, NEW a, NEW r, IsReading(t, a, r), NEW n \in Nat, n <= Len(r), Len(r) \in Nat
  PROVE  /\ t[0] = At(a, 0)
         /\ \A i, j \in 0..n : i = j + 1 => t[i] = Reads(t[j], r, i)
<1>1. \A i \in 0..Len(r) : t[i] = IF i = 0 THEN At(a, 0) ELSE Reads(t[i - 1], r, i)
  BY DEF IsReading
<1>2. ASSUME NEW i \in 0..n, NEW j \in 0..n, i = j + 1
      PROVE  t[i] = Reads(t[j], r, i)
  <2>1. i \in 0..Len(r) /\ i # 0 /\ i - 1 = j
    BY <1>2
  <2> QED
    BY <1>1, <2>1
<1> QED
  BY <1>1, <1>2

(* The parameters that render_to_sgr writes.                               *)
LEMMA MakesNothing == ASSUME NEW b PROVE Makes(<<>>, b, b)
<1>1. \A q \in Seq(Nat) : <<>> \o q = q
  OBVIOUS
<1> QED
  BY <1>1 DEF Makes

(* Lists of parameters can be joined in either order.                      *)
LEMMA ThreeListsJoin ==
  ASSUME NEW p \in Seq(Nat), NEW q \in Seq(Nat), NEW r \in Seq(Nat)
  PROVE  (p \o q) \o r = p \o (q \o r)
BY ONLY p \in Seq(Nat), q \in Seq(Nat), r \in Seq(Nat), ConcatAssociative, SMTT(60)

LEMMA MakesBoth ==
  ASSUME NEW p \in Seq(Nat), NEW q \in Seq(Nat), NEW b, NEW c, NEW d,
         Makes(p, b, c), Makes(q, c, d)
  PROVE  p \o q \in Seq(Nat) /\ Makes(p \o q, b, d)
<1>1. ASSUME NEW r \in Seq(Nat) PROVE Sgr(b, (p \o q) \o r) = Sgr(d, r)
  <2>1. (p \o q) \o r = p \o (q \o r)
    BY ThreeListsJoin
  <2>2. q \o r \in Seq(Nat)
    BY SamePlaces
  <2>3. Sgr(b, p \o (q \o r)) = Sgr(c, q \o r)
    BY <2>2 DEF Makes
  <2>4. Sgr(c, q \o r) = Sgr(d, r)
    BY DEF Makes
  <2> QED
    BY <2>1, <2>3, <2>4
<1>2. p \o q \in Seq(Nat)
  BY SamePlaces
<1> QED
  BY <1>1, <1>2 DEF Makes

LEMMA MakesOne ==
  ASSUME NEW b \in CellAttrs, NEW n \in Nat, n \notin {38, 48}
  PROVE  <<n>> \in Seq(Nat) /\ Makes(<<n>>, b, Single(b, n))
<1>1. PICK p \in Seq(Nat) : p = <<n>> /\ Len(p) = 1 /\ p[1] = n
  <2>1. <<n>> \in Seq(Nat) /\ Len(<<n>>) = 1 /\ <<n>>[1] = n
    OBVIOUS
  <2> QED
    BY <2>1
<1>2. Single(b, n) \in CellAttrs
  BY SingleTyped
<1>3. ASSUME NEW q \in Seq(Nat) PROVE Sgr(b, p \o q) = Sgr(Single(b, n), q)
  <2>1. ASSUME NEW t, IsReading(t, b, p \o q) PROVE t[Len(p)] = At(Single(b, n), 0)
    <3>1. Len(p \o q) \in Nat /\ Len(p \o q) >= 1 /\ (p \o q)[1] = n
      BY <1>1, SamePlaces
    <3>2. t[0] = At(b, 0) /\ t[1] = Reads(t[0], p \o q, 1)
      BY <2>1, <3>1 DEF IsReading
    <3> QED
      BY <1>1, <3>1, <3>2 DEF Reads, At
  <2> QED
    BY <1>1, <1>2, <2>1, ReadsOn
<1> QED
  BY <1>1, <1>3 DEF Makes

(* b, with the colour c: of the text or behind it.                         *)
InColor(b, base, c) == IF base = 38 THEN [b EXCEPT !.fg = c] ELSE [b EXCEPT !.bg = c]

LEMMA MakesIndexed ==
  ASSUME NEW b \in CellAttrs, NEW base \in {38, 48}, NEW i \in 0..255
  PROVE  /\ <<base, 5, i>> \in Seq(Nat)
         /\ Makes(<<base, 5, i>>, b, InColor(b, base, <<"indexed", i>>))
<1>1. PICK p \in Seq(Nat) : p = <<base, 5, i>> /\ Len(p) = 3 /\ p[1] = base /\ p[2] = 5 /\ p[3] = i
  <2>1. base \in Nat /\ i \in Nat
    OBVIOUS
  <2>2. /\ <<base, 5, i>> \in Seq(Nat) /\ Len(<<base, 5, i>>) = 3
        /\ <<base, 5, i>>[1] = base /\ <<base, 5, i>>[2] = 5 /\ <<base, 5, i>>[3] = i
    BY <2>1
  <2> QED
    BY <2>2
<1>2. PICK c \in CellColors : c = <<"indexed", i>>
  BY ColorsListed
<1>3. InColor(b, base, c) \in CellAttrs
  BY <1>2, Recolored DEF InColor
<1>4. i % 256 = i
  OBVIOUS
<1>5. ASSUME NEW q \in Seq(Nat) PROVE Sgr(b, p \o q) = Sgr(InColor(b, base, c), q)
  <2>1. ASSUME NEW t, IsReading(t, b, p \o q) PROVE t[Len(p)] = At(InColor(b, base, c), 0)
    <3>1. PICK r : r = p \o q
      OBVIOUS
    <3>2. Len(r) \in Nat /\ Len(r) >= 3 /\ r[1] = base /\ r[2] = 5 /\ r[3] = i
      BY <1>1, <3>1, SamePlaces
    <3>3. /\ t[0] = At(b, 0) /\ t[1] = Reads(t[0], r, 1)
          /\ t[2] = Reads(t[1], r, 2) /\ t[3] = Reads(t[2], r, 3)
      <4>1. t[0] = At(b, 0) /\ \A k, j \in 0..3 : k = j + 1 => t[k] = Reads(t[j], r, k)
        <5>1. IsReading(t, b, r) /\ Len(r) \in Nat /\ 3 \in Nat /\ 3 <= Len(r)
          BY <2>1, <3>1, <3>2
        <5> QED
          BY <5>1, ReadingSteps
      <4> QED
        BY <4>1
    <3>4. Extended(r, 1) = [color |-> c, used |-> 3]
      <4>1. 1 + 2 <= Len(r) /\ r[1 + 1] = 5 /\ r[1 + 2] = i
        BY <3>2
      <4>2. Extended(r, 1) = [color |-> <<"indexed", r[1 + 2] % 256>>, used |-> 3]
        BY <4>1 DEF Extended
      <4> QED
        BY <1>2, <1>4, <4>1, <4>2
    <3>5. t[1] = At(InColor(b, base, c), 2)
      <4>1. At(b, 0).skip = 0 /\ At(b, 0).attr = b
        BY DEF At
      <4>2. Extended(r, 1).used = 3 /\ Extended(r, 1).color = c
        BY <3>4
      <4>3. CASE base = 38
        <5>1. Reads(At(b, 0), r, 1) = [attr |-> [b EXCEPT !.fg = c], skip |-> 3 - 1]
          <6>1. r[1] = 38 /\ Extended(r, 1).used > 1
            BY <3>2, <4>2, <4>3
          <6> QED
            BY <4>1, <4>2, <6>1, ReadsColor
        <5> QED
          BY <3>3, <4>3, <5>1 DEF InColor, At
      <4>4. CASE base = 48
        <5>1. Reads(At(b, 0), r, 1) = [attr |-> [b EXCEPT !.bg = c], skip |-> 3 - 1]
          <6>1. r[1] = 48 /\ Extended(r, 1).used > 1
            BY <3>2, <4>2, <4>4
          <6> QED
            BY <4>1, <4>2, <6>1, ReadsColor
        <5> QED
          BY <3>3, <4>4, <5>1 DEF InColor, At
      <4> QED
        BY <4>3, <4>4
    <3>6. t[2] = At(InColor(b, base, c), 1)
      <4>1. Reads(At(InColor(b, base, c), 2), r, 2)
              = At(InColor(b, base, c), 1)
        <5>1. 2 = 1 + 1 /\ 2 \in Nat /\ 1 \in Nat
          OBVIOUS
        <5> QED
          BY <5>1, PassedOver
      <4> QED
        BY <3>3, <3>5, <4>1
    <3>7. t[3] = At(InColor(b, base, c), 0)
      <4>1. Reads(At(InColor(b, base, c), 1), r, 3)
              = At(InColor(b, base, c), 0)
        <5>1. 1 = 0 + 1 /\ 1 \in Nat /\ 0 \in Nat
          OBVIOUS
        <5> QED
          BY <5>1, PassedOver
      <4> QED
        BY <3>3, <3>6, <4>1
    <3> QED
      BY <1>1, <3>7 DEF At
  <2> QED
    BY <1>1, <1>3, <2>1, ReadsOn
<1> QED
  BY <1>1, <1>2, <1>5 DEF Makes

RgbMade(b, base, x, y, z) ==
  /\ <<base, 2, x, y, z>> \in Seq(Nat)
  /\ Makes(<<base, 2, x, y, z>>, b, InColor(b, base, <<"rgb", x, y, z>>))

LEMMA MakesRgb ==
  ASSUME NEW b \in CellAttrs, NEW base \in {38, 48},
         NEW x \in 0..255, NEW y \in 0..255, NEW z \in 0..255
  PROVE  RgbMade(b, base, x, y, z)
<1>1. PICK p \in Seq(Nat) : /\ p = <<base, 2, x, y, z>> /\ Len(p) = 5
                            /\ p[1] = base /\ p[2] = 2 /\ p[3] = x /\ p[4] = y /\ p[5] = z
  <2>1. base \in Nat /\ x \in Nat /\ y \in Nat /\ z \in Nat
    OBVIOUS
  <2>2. /\ <<base, 2, x, y, z>> \in Seq(Nat) /\ Len(<<base, 2, x, y, z>>) = 5
        /\ <<base, 2, x, y, z>>[1] = base /\ <<base, 2, x, y, z>>[2] = 2
        /\ <<base, 2, x, y, z>>[3] = x /\ <<base, 2, x, y, z>>[4] = y
        /\ <<base, 2, x, y, z>>[5] = z
    BY <2>1
  <2> QED
    BY <2>2
<1>2. PICK c \in CellColors : c = <<"rgb", x, y, z>>
  BY ColorsListed
<1>3. InColor(b, base, c) \in CellAttrs
  BY <1>2, Recolored DEF InColor
<1>4. x % 256 = x /\ y % 256 = y /\ z % 256 = z
  OBVIOUS
<1>5. ASSUME NEW q \in Seq(Nat) PROVE Sgr(b, p \o q) = Sgr(InColor(b, base, c), q)
  <2>1. ASSUME NEW t, IsReading(t, b, p \o q) PROVE t[Len(p)] = At(InColor(b, base, c), 0)
    <3>1. PICK r : r = p \o q
      OBVIOUS
    <3>2. /\ Len(r) \in Nat /\ Len(r) >= 5 /\ r[1] = base /\ r[2] = 2
          /\ r[3] = x /\ r[4] = y /\ r[5] = z
      BY <1>1, <3>1, SamePlaces
    <3>3. /\ t[0] = At(b, 0) /\ t[1] = Reads(t[0], r, 1)
          /\ t[2] = Reads(t[1], r, 2) /\ t[3] = Reads(t[2], r, 3)
          /\ t[4] = Reads(t[3], r, 4) /\ t[5] = Reads(t[4], r, 5)
      <4>1. t[0] = At(b, 0) /\ \A k, j \in 0..5 : k = j + 1 => t[k] = Reads(t[j], r, k)
        <5>1. IsReading(t, b, r) /\ Len(r) \in Nat /\ 5 \in Nat /\ 5 <= Len(r)
          BY <2>1, <3>1, <3>2
        <5> QED
          BY <5>1, ReadingSteps
      <4> QED
        BY <4>1
    <3>4. Extended(r, 1) = [color |-> c, used |-> 5]
      <4>1. /\ 1 + 4 <= Len(r) /\ r[1 + 1] = 2 /\ r[1 + 1] # 5
            /\ r[1 + 2] = x /\ r[1 + 3] = y /\ r[1 + 4] = z
        BY <3>2
      <4>2. Extended(r, 1) =
              [color |-> <<"rgb", r[1 + 2] % 256, r[1 + 3] % 256, r[1 + 4] % 256>>, used |-> 5]
        BY <4>1, Zenon DEF Extended
      <4> QED
        BY <1>2, <1>4, <4>1, <4>2, Zenon
    <3>5. t[1] = At(InColor(b, base, c), 4)
      <4>1. At(b, 0).skip = 0 /\ At(b, 0).attr = b
        BY DEF At
      <4>2. Extended(r, 1).used = 5 /\ Extended(r, 1).color = c
        BY <3>4
      <4>3. CASE base = 38
        <5>1. Reads(At(b, 0), r, 1) = [attr |-> [b EXCEPT !.fg = c], skip |-> 5 - 1]
          <6>1. r[1] = 38 /\ Extended(r, 1).used > 1
            BY <3>2, <4>2, <4>3
          <6> QED
            BY <4>1, <4>2, <6>1, ReadsColor
        <5> QED
          BY <3>3, <4>3, <5>1 DEF InColor, At
      <4>4. CASE base = 48
        <5>1. Reads(At(b, 0), r, 1) = [attr |-> [b EXCEPT !.bg = c], skip |-> 5 - 1]
          <6>1. r[1] = 48 /\ Extended(r, 1).used > 1
            BY <3>2, <4>2, <4>4
          <6> QED
            BY <4>1, <4>2, <6>1, ReadsColor
        <5> QED
          BY <3>3, <4>4, <5>1 DEF InColor, At
      <4> QED
        BY <4>3, <4>4
    <3>6. t[2] = At(InColor(b, base, c), 3)
      <4>1. Reads(At(InColor(b, base, c), 4), r, 2)
              = At(InColor(b, base, c), 3)
        <5>1. 4 = 3 + 1 /\ 4 \in Nat /\ 3 \in Nat
          OBVIOUS
        <5> QED
          BY <5>1, PassedOver
      <4> QED
        BY <3>3, <3>5, <4>1
    <3>7. t[3] = At(InColor(b, base, c), 2)
      <4>1. Reads(At(InColor(b, base, c), 3), r, 3)
              = At(InColor(b, base, c), 2)
        <5>1. 3 = 2 + 1 /\ 3 \in Nat /\ 2 \in Nat
          OBVIOUS
        <5> QED
          BY <5>1, PassedOver
      <4> QED
        BY <3>3, <3>6, <4>1
    <3>8. t[4] = At(InColor(b, base, c), 1)
      <4>1. Reads(At(InColor(b, base, c), 2), r, 4)
              = At(InColor(b, base, c), 1)
        <5>1. 2 = 1 + 1 /\ 2 \in Nat /\ 1 \in Nat
          OBVIOUS
        <5> QED
          BY <5>1, PassedOver
      <4> QED
        BY <3>3, <3>7, <4>1
    <3>9. t[5] = At(InColor(b, base, c), 0)
      <4>1. Reads(At(InColor(b, base, c), 1), r, 5)
              = At(InColor(b, base, c), 0)
        <5>1. 1 = 0 + 1 /\ 1 \in Nat /\ 0 \in Nat
          OBVIOUS
        <5> QED
          BY <5>1, PassedOver
      <4> QED
        BY <3>3, <3>8, <4>1
    <3> QED
      BY <1>1, <3>9 DEF At
  <2> QED
    BY <1>1, <1>3, <2>1, ReadsOn
<1> QED
  BY <1>1, <1>2, <1>5 DEF Makes, RgbMade

LEMMA RgbIs ==
  ASSUME NEW B, NEW c \in RgbColors(B)
  PROVE  \E r \in B : \E g \in B : \E b \in B : c = <<"rgb", r, g, b>>
BY DEF RgbColors

LEMMA MakesColor ==
  ASSUME NEW b \in CellAttrs, NEW base \in {38, 48}, NEW c \in CellColors,
         b = InColor(b, base, <<"default">>)
  PROVE  /\ ColorParams(base, c) \in Seq(Nat)
         /\ Makes(ColorParams(base, c), b, InColor(b, base, c))
<1>1. CASE c = <<"default">>
  <2>1. ColorParams(base, c) = <<>> /\ <<>> \in Seq(Nat)
    BY <1>1 DEF ColorParams
  <2>2. InColor(b, base, c) = b
    BY <1>1
  <2> QED
    BY <2>1, <2>2, MakesNothing
<1>2. CASE \E i \in 0..255 : c = <<"indexed", i>>
  <2>1. PICK i \in 0..255 : c = <<"indexed", i>>
    BY <1>2
  <2>2. ColorParams(base, c) = <<base, 5, i>>
    BY <2>1 DEF ColorParams
  <2>3. /\ <<base, 5, i>> \in Seq(Nat)
        /\ Makes(<<base, 5, i>>, b, InColor(b, base, <<"indexed", i>>))
    BY <2>1, MakesIndexed
  <2> QED
    BY <2>1, <2>2, <2>3, Zenon
<1>3. CASE c \in RgbColors(0..255)
  <2>1. PICK B : B = 0..255
    OBVIOUS
  <2>4. c \in RgbColors(B)
    BY <1>3, <2>1
  <2>6. PICK x \in B : \E y \in B : \E z \in B : c = <<"rgb", x, y, z>>
    BY <2>4, RgbIs
  <2>5. PICK y \in B, z \in B : c = <<"rgb", x, y, z>>
    BY <2>6
  <2>7. x \in 0..255 /\ y \in 0..255 /\ z \in 0..255
    BY <2>1, <2>5, <2>6
  <2>2. ColorParams(base, c) = <<base, 2, x, y, z>>
    BY <2>5 DEF ColorParams
  <2>3. /\ <<base, 2, x, y, z>> \in Seq(Nat)
        /\ Makes(<<base, 2, x, y, z>>, b, InColor(b, base, <<"rgb", x, y, z>>))
    <3>1. RgbMade(b, base, x, y, z)
      BY <2>7, MakesRgb
    <3> QED
      BY <3>1 DEF RgbMade
  <2> QED
    BY <2>5, <2>2, <2>3, Zenon
<1> QED
  BY <1>1, <1>2, <1>3 DEF CellColors

SwitchedOn(s, n, on) == IF on THEN Single(s, n) ELSE s

LEMMA MakesFlag ==
  ASSUME NEW b \in CellAttrs, NEW n \in {1, 2, 3, 4, 7}, NEW on \in BOOLEAN
  PROVE  Flag(on, n) \in Seq(Nat) /\ Makes(Flag(on, n), b, SwitchedOn(b, n, on))
<1>1. CASE on
  BY <1>1, MakesOne DEF Flag, SwitchedOn
<1>2. CASE ~on
  BY <1>2, MakesNothing DEF Flag, SwitchedOn
<1> QED
  BY <1>1, <1>2

(* Attributes, one by one.                                                 *)
Attr(fg, bg, bold, dim, italic, underline, reverse) ==
  [fg |-> fg, bg |-> bg, bold |-> bold, italic |-> italic, underline |-> underline,
   dim |-> dim, reverse |-> reverse]

LEMMA Colored ==
  ASSUME NEW fg, NEW bg, NEW bo, NEW di, NEW it, NEW un, NEW re, NEW c
  PROVE  /\ InColor(Attr(fg, bg, bo, di, it, un, re), 48, c) = Attr(fg, c, bo, di, it, un, re)
         /\ InColor(Attr(fg, bg, bo, di, it, un, re), 38, c) = Attr(c, bg, bo, di, it, un, re)
<1>1. PICK s : s = Attr(fg, bg, bo, di, it, un, re)
  OBVIOUS
<1>2. InColor(s, 48, c) = [s EXCEPT !.bg = c]
  BY DEF InColor
<1>3. InColor(s, 38, c) = [s EXCEPT !.fg = c]
  BY DEF InColor
<1>4. [s EXCEPT !.bg = c] = Attr(fg, c, bo, di, it, un, re)
  BY <1>1 DEF Attr
<1>5. [s EXCEPT !.fg = c] = Attr(c, bg, bo, di, it, un, re)
  BY <1>1 DEF Attr
<1> QED
  BY <1>1, <1>2, <1>3, <1>4, <1>5

With(s, n, on) ==
  CASE n = 1 -> [s EXCEPT !.bold = on]
    [] n = 2 -> [s EXCEPT !.dim = on]
    [] n = 3 -> [s EXCEPT !.italic = on]
    [] n = 4 -> [s EXCEPT !.underline = on]
    [] n = 7 -> [s EXCEPT !.reverse = on]

LEMMA SwitchedIsWith ==
  ASSUME NEW s, NEW n \in {1, 2, 3, 4, 7}, NEW on \in BOOLEAN, s = With(s, n, FALSE)
  PROVE  SwitchedOn(s, n, on) = With(s, n, on)
<1>1. Single(s, n) = With(s, n, TRUE)
  BY DEF Single, With
<1>2. CASE on = TRUE
  BY <1>1, <1>2 DEF SwitchedOn
<1>3. CASE on = FALSE
  BY <1>3 DEF SwitchedOn
<1> QED
  BY <1>2, <1>3

LEMMA Flagged ==
  ASSUME NEW fg, NEW bg, NEW bo, NEW di, NEW it, NEW un, NEW re, NEW x
  PROVE  /\ With(Attr(fg, bg, bo, di, it, un, re), 1, x) = Attr(fg, bg, x, di, it, un, re)
         /\ With(Attr(fg, bg, bo, di, it, un, re), 2, x) = Attr(fg, bg, bo, x, it, un, re)
         /\ With(Attr(fg, bg, bo, di, it, un, re), 3, x) = Attr(fg, bg, bo, di, x, un, re)
         /\ With(Attr(fg, bg, bo, di, it, un, re), 4, x) = Attr(fg, bg, bo, di, it, x, re)
         /\ With(Attr(fg, bg, bo, di, it, un, re), 7, x) = Attr(fg, bg, bo, di, it, un, x)
<1>1. PICK s : s = Attr(fg, bg, bo, di, it, un, re)
  OBVIOUS
<1>2. With(s, 1, x) = Attr(fg, bg, x, di, it, un, re)
  BY <1>1 DEF Attr, With
<1>3. With(s, 2, x) = Attr(fg, bg, bo, x, it, un, re)
  BY <1>1 DEF Attr, With
<1>4. With(s, 3, x) = Attr(fg, bg, bo, di, x, un, re)
  BY <1>1 DEF Attr, With
<1>5. With(s, 4, x) = Attr(fg, bg, bo, di, it, x, re)
  BY <1>1 DEF Attr, With
<1>6. With(s, 7, x) = Attr(fg, bg, bo, di, it, un, x)
  BY <1>1 DEF Attr, With
<1> QED
  BY <1>1, <1>2, <1>3, <1>4, <1>5, <1>6

(* Whatever the attributes are, what is written for a makes a of them.     *)
LEMMA EmittedMakes ==
  ASSUME NEW a \in CellAttrs, NEW b \in CellAttrs
  PROVE  Emitted(a) \in Seq(Nat) /\ Makes(Emitted(a), b, a)
<1>0. PICK no : no = FALSE
  OBVIOUS
<1> DEFINE a1 == Attr(<<"default">>, a.bg, no, no, no, no, no)
           a2 == Attr(a.fg, a.bg, no, no, no, no, no)
           a3 == Attr(a.fg, a.bg, a.bold, no, no, no, no)
           a4 == Attr(a.fg, a.bg, a.bold, a.dim, no, no, no)
           a5 == Attr(a.fg, a.bg, a.bold, a.dim, a.italic, no, no)
           a6 == Attr(a.fg, a.bg, a.bold, a.dim, a.italic, a.underline, no)
           a7 == Attr(a.fg, a.bg, a.bold, a.dim, a.italic, a.underline, a.reverse)
           p1 == ColorParams(48, a.bg)
           p2 == ColorParams(38, a.fg)
           p3 == Flag(a.bold, 1)
           p4 == Flag(a.dim, 2)
           p5 == Flag(a.italic, 3)
           p6 == Flag(a.underline, 4)
           p7 == Flag(a.reverse, 7)
<1>1. /\ a.fg \in CellColors /\ a.bg \in CellColors
      /\ a.bold \in BOOLEAN /\ a.dim \in BOOLEAN /\ a.italic \in BOOLEAN
      /\ a.underline \in BOOLEAN /\ a.reverse \in BOOLEAN
  BY DEF CellAttrs
<1>2. /\ PlainAttr \in CellAttrs /\ a1 \in CellAttrs /\ a2 \in CellAttrs /\ a3 \in CellAttrs
      /\ a4 \in CellAttrs /\ a5 \in CellAttrs /\ a6 \in CellAttrs
  BY <1>0, <1>1, PlainTyped, ColorsListed DEF CellAttrs, Attr
<1>3. p1 \in Seq(Nat) /\ Makes(p1, PlainAttr, a1)
  <2>1. PlainAttr = Attr(<<"default">>, <<"default">>, no, no, no, no, no)
    BY <1>0 DEF PlainAttr, Attr
  <2>2. PlainAttr = InColor(PlainAttr, 48, <<"default">>) /\ a1 = InColor(PlainAttr, 48, a.bg)
    BY <2>1, Colored
  <2> HIDE DEF a1
  <2>3. /\ ColorParams(48, a.bg) \in Seq(Nat)
        /\ Makes(ColorParams(48, a.bg), PlainAttr, InColor(PlainAttr, 48, a.bg))
    BY <1>1, <1>2, <2>2, MakesColor
  <2> QED
    BY <2>2, <2>3, Zenon DEF p1
<1>4. p2 \in Seq(Nat) /\ Makes(p2, a1, a2)
  <2>1. a1 = InColor(a1, 38, <<"default">>) /\ a2 = InColor(a1, 38, a.fg)
    BY Colored
  <2> HIDE DEF a1, a2
  <2>2. /\ ColorParams(38, a.fg) \in Seq(Nat)
        /\ Makes(ColorParams(38, a.fg), a1, InColor(a1, 38, a.fg))
    BY <1>1, <1>2, <2>1, MakesColor
  <2> QED
    BY <2>1, <2>2, Zenon DEF p2
<1>5. p3 \in Seq(Nat) /\ Makes(p3, a2, a3)
  <2>1. a2 = With(a2, 1, no) /\ a3 = With(a2, 1, a.bold)
    BY Flagged
  <2> HIDE DEF a2, a3
  <2>2. SwitchedOn(a2, 1, a.bold) = With(a2, 1, a.bold)
    BY <1>0, <1>1, <2>1, SwitchedIsWith
  <2> QED
    BY <1>1, <1>2, <2>1, <2>2, MakesFlag
<1>6. p4 \in Seq(Nat) /\ Makes(p4, a3, a4)
  <2>1. a3 = With(a3, 2, no) /\ a4 = With(a3, 2, a.dim)
    BY Flagged
  <2> HIDE DEF a3, a4
  <2>2. SwitchedOn(a3, 2, a.dim) = With(a3, 2, a.dim)
    BY <1>0, <1>1, <2>1, SwitchedIsWith
  <2> QED
    BY <1>1, <1>2, <2>1, <2>2, MakesFlag
<1>7. p5 \in Seq(Nat) /\ Makes(p5, a4, a5)
  <2>1. a4 = With(a4, 3, no) /\ a5 = With(a4, 3, a.italic)
    BY Flagged
  <2> HIDE DEF a4, a5
  <2>2. SwitchedOn(a4, 3, a.italic) = With(a4, 3, a.italic)
    BY <1>0, <1>1, <2>1, SwitchedIsWith
  <2> QED
    BY <1>1, <1>2, <2>1, <2>2, MakesFlag
<1>8. p6 \in Seq(Nat) /\ Makes(p6, a5, a6)
  <2>1. a5 = With(a5, 4, no) /\ a6 = With(a5, 4, a.underline)
    BY Flagged
  <2> HIDE DEF a5, a6
  <2>2. SwitchedOn(a5, 4, a.underline) = With(a5, 4, a.underline)
    BY <1>0, <1>1, <2>1, SwitchedIsWith
  <2> QED
    BY <1>1, <1>2, <2>1, <2>2, MakesFlag
<1>9. p7 \in Seq(Nat) /\ Makes(p7, a6, a7)
  <2>1. a6 = With(a6, 7, no) /\ a7 = With(a6, 7, a.reverse)
    BY Flagged
  <2> HIDE DEF a6, a7
  <2>2. SwitchedOn(a6, 7, a.reverse) = With(a6, 7, a.reverse)
    BY <1>0, <1>1, <2>1, SwitchedIsWith
  <2> QED
    BY <1>1, <1>2, <2>1, <2>2, MakesFlag
<1>10. <<0>> \in Seq(Nat) /\ Makes(<<0>>, b, PlainAttr)
  <2>1. Single(b, 0) = PlainAttr
    BY DEF Single
  <2> QED
    BY <2>1, MakesOne
<1>11. Emitted(a) = <<0>> \o ((((((p1 \o p2) \o p3) \o p4) \o p5) \o p6) \o p7)
  BY DEF Emitted, Switches
<1>22. a = a7
  BY DEF CellAttrs, Attr
<1> HIDE DEF a1, a2, a3, a4, a5, a6, a7, p1, p2, p3, p4, p5, p6, p7
<1>12. p1 \o p2 \in Seq(Nat) /\ Makes(p1 \o p2, PlainAttr, a2)
  BY <1>3, <1>4, MakesBoth
<1>13. (p1 \o p2) \o p3 \in Seq(Nat) /\ Makes((p1 \o p2) \o p3, PlainAttr, a3)
  BY <1>5, <1>12, MakesBoth
<1>14. /\ ((p1 \o p2) \o p3) \o p4 \in Seq(Nat)
       /\ Makes(((p1 \o p2) \o p3) \o p4, PlainAttr, a4)
  BY <1>6, <1>13, MakesBoth
<1>15. /\ (((p1 \o p2) \o p3) \o p4) \o p5 \in Seq(Nat)
       /\ Makes((((p1 \o p2) \o p3) \o p4) \o p5, PlainAttr, a5)
  BY <1>7, <1>14, MakesBoth
<1>16. /\ ((((p1 \o p2) \o p3) \o p4) \o p5) \o p6 \in Seq(Nat)
       /\ Makes(((((p1 \o p2) \o p3) \o p4) \o p5) \o p6, PlainAttr, a6)
  BY <1>8, <1>15, MakesBoth
<1>17. /\ (((((p1 \o p2) \o p3) \o p4) \o p5) \o p6) \o p7 \in Seq(Nat)
       /\ Makes((((((p1 \o p2) \o p3) \o p4) \o p5) \o p6) \o p7, PlainAttr, a7)
  BY <1>9, <1>16, MakesBoth
<1>18. PICK w \in Seq(Nat) : /\ w = (((((p1 \o p2) \o p3) \o p4) \o p5) \o p6) \o p7
                             /\ Makes(w, PlainAttr, a)
  BY <1>17, <1>22
<1>19. PICK z \in Seq(Nat) : z = <<0>> /\ Makes(z, b, PlainAttr)
  BY <1>10
<1>20. Emitted(a) = z \o w
  BY <1>11, <1>18, <1>19
<1>21. z \o w \in Seq(Nat) /\ Makes(z \o w, b, a)
  BY <1>18, <1>19, MakesBoth
<1> QED
  BY <1>20, <1>21

LEMMA ReadingEmitted ==
  ASSUME NEW a \in CellAttrs, NEW b \in CellAttrs
  PROVE  Sgr(b, Emitted(a)) = a
<1>1. PICK p \in Seq(Nat) : p = Emitted(a) /\ Makes(p, b, a)
  BY EmittedMakes
<1>2. PICK none \in Seq(Nat) : none = <<>> /\ Len(none) = 0 /\ p \o none = p
  <2>1. <<>> \in Seq(Nat) /\ Len(<<>>) = 0 /\ p \o <<>> = p
    BY <1>1
  <2> QED
    BY <2>1
<1>3. Sgr(b, p) = Sgr(a, none)
  BY <1>1, <1>2 DEF Makes
<1>4. PICK t : IsReading(t, a, none) /\ Sgr(a, none) = t[Len(none)].attr
  BY <1>2, SgrRuns
<1>5. t[0] = At(a, 0)
  BY <1>2, <1>4 DEF IsReading
<1> QED
  BY <1>1, <1>2, <1>3, <1>4, <1>5 DEF At

(* The attributes of the cells to come.                                    *)
PenTyped == pen \in CellAttrs

LEMMA PenIsTyped == ScreenSpec => []PenTyped
<1>1. ScreenInit => PenTyped
  BY PlainTyped DEF ScreenInit, PenTyped
<1>2. PenTyped /\ [ScreenNext]_screenVars => PenTyped'
  <2> SUFFICES ASSUME PenTyped, [ScreenNext]_screenVars PROVE PenTyped'
    OBVIOUS
  <2>1. CASE \E p \in Renditions : SetRendition(p)
    <3>1. PICK p \in Renditions : SetRendition(p)
      BY <2>1
    <3>2. p \in Seq(Nat)
      BY ScreenGridAssumption
    <3> QED
      BY <3>1, <3>2, SgrTyped DEF SetRendition, PenTyped
  <2>2. CASE UNCHANGED screenVars
    BY <2>2 DEF screenVars, PenTyped
  <2>3. CASE Drawing
    <3>1. pen' = pen
      BY <2>3 DEF Drawing, Resize, PutChar, MoveCursor, PlaceCursor, LineFeed, Erase,
         EditLines, DeleteChars, Scroll, SetRegion, EnterAlt, LeaveAlt, SaveCursor, RestoreCursor
    <3> QED
      BY <3>1 DEF PenTyped
  <2> QED
    BY <2>1, <2>2, <2>3 DEF ScreenNext
<1> QED
  BY <1>1, <1>2, PTL DEF ScreenSpec

(* The attributes of a cell are read back from what render_to_sgr writes,  *)
(* after any other cell, whatever sequences have made the two.             *)
THEOREM AttributesReadBack == ScreenSpec => SgrRoundTrip
<1> DEFINE Back == pen' # pen => \A b \in {PlainAttr, pen} : Sgr(b, Emitted(pen')) = pen'
<1>1. PenTyped /\ PenTyped' => [Back]_screenVars
  BY PlainTyped, ReadingEmitted DEF PenTyped
<1> HIDE DEF Back
<1>2. ScreenSpec => [][Back]_screenVars
  BY <1>1, PenIsTyped, PTL DEF ScreenSpec
<1> QED
  BY <1>2 DEF SgrRoundTrip, Back

-----------------------------------------------------------------------------
(* Rows as sequences *)

LEMMA BlankIsCell == Blank \in Cells
BY PlainTyped DEF Blank, Cells, Chars

LEMMA BlankRowFits == ASSUME NEW n \in Nat PROVE BlankRow(n) \in [1..n -> Cells]
BY BlankIsCell DEF BlankRow

LEMMA FunctionIsSeq ==
  ASSUME NEW n \in Nat, NEW S, NEW f \in [1..n -> S]
  PROVE  f \in Seq(S) /\ Len(f) = n
OBVIOUS

LEMMA SeqIsFunction ==
  ASSUME NEW S, NEW f \in Seq(S)
  PROVE  f \in [1..Len(f) -> S] /\ Len(f) \in Nat
OBVIOUS

(* A row taken out and another put in.                                     *)
LEMMA TurnKeeps ==
  ASSUME NEW S, NEW n \in Nat, NEW g \in [1..n -> S], NEW b \in S,
         NEW i \in 1..n, NEW j \in 1..n
  PROVE  InsertAt(RemoveAt(g, i), j, b) \in [1..n -> S]
<1>1. g \in Seq(S) /\ Len(g) = n
  BY FunctionIsSeq
<1> DEFINE p == SubSeq(g, 1, i - 1)
           q == SubSeq(g, i + 1, n)
           h == p \o q
<1>2. /\ p \in Seq(S) /\ Len(p) = i - 1
      /\ q \in Seq(S) /\ Len(q) = n - i
  BY <1>1, SubSeqProperties
<1> HIDE DEF p, q
<1>3. h \in Seq(S) /\ Len(h) = n - 1
  <2>1. p \in Seq(S) /\ q \in Seq(S)
    BY <1>2
  <2>2. p \o q \in Seq(S) /\ Len(p \o q) = Len(p) + Len(q)
    BY <2>1, ConcatProperties
  <2> QED
    BY <1>2, <2>2
<1>4. RemoveAt(g, i) = h
  BY <1>1 DEF RemoveAt, p, q
<1> HIDE DEF h
<1> DEFINE u == SubSeq(h, 1, j - 1)
           v == SubSeq(h, j, n - 1)
<1>5. /\ u \in Seq(S) /\ Len(u) = j - 1
      /\ v \in Seq(S) /\ Len(v) = n - j
  BY <1>3, SubSeqProperties
<1>6. InsertAt(h, j, b) = u \o <<b>> \o v
  BY <1>3 DEF InsertAt
<1> HIDE DEF u, v
<1>7. <<b>> \in Seq(S) /\ Len(<<b>>) = 1
  OBVIOUS
<1>8. u \o <<b>> \in Seq(S) /\ Len(u \o <<b>>) = j
  BY <1>5, <1>7, ConcatProperties
<1>9. (u \o <<b>>) \o v \in Seq(S) /\ Len((u \o <<b>>) \o v) = n
  BY <1>5, <1>8, ConcatProperties
<1> QED
  BY <1>4, <1>6, <1>9, SeqIsFunction

LEMMA RestOfRow ==
  ASSUME NEW a \in Nat, NEW b \in Nat, a <= b
  PROVE  (IF a + 1 <= b THEN b - (a + 1) + 1 ELSE 0) = b - a
<1>1. CASE a = b
  BY <1>1
<1>2. CASE a # b
  <2>1. a + 1 <= b
    BY <1>2
  <2>2. b - (a + 1) + 1 = b - a
    OBVIOUS
  <2> QED
    BY <2>1, <2>2
<1> QED
  BY <1>1, <1>2

(* What deleting characters makes of the row of the cursor.                *)
LEMMA DeletedFits ==
  ASSUME NEW cols \in Nat, NEW row \in [1..cols -> Cells], NEW col \in Nat, NEW n \in Nat,
         NEW end, end = Least(col + n, cols), ~(col > end)
  PROVE  SubSeq(row, 1, col) \o SubSeq(row, end + 1, Len(row))
           \o BlankRow(Least(n, cols - col)) \in [1..cols -> Cells]
<1> DEFINE S == Cells
           k == Least(n, cols - col)
           p == SubSeq(row, 1, col)
           q == SubSeq(row, end + 1, cols)
           b == BlankRow(k)
<1>1. row \in Seq(S) /\ Len(row) = cols
  BY FunctionIsSeq
<1>2. end \in Nat /\ end <= cols /\ col <= end /\ k \in Nat /\ col + (cols - end) + k = cols
  BY DEF Least
<1>3. b \in [1..k -> S]
  BY <1>2, BlankRowFits
<1>4. b \in Seq(S) /\ Len(b) = k
  BY <1>2, <1>3, FunctionIsSeq
<1>5. p \in Seq(S) /\ Len(p) = col
  <2>1. \A i \in 1..col : row[i] \in S
    BY <1>1, <1>2
  <2>2. p \in Seq(S) /\ Len(p) = IF 1 <= col THEN col - 1 + 1 ELSE 0
    BY <2>1, SubSeqProperties
  <2> QED
    BY <2>2
<1>6. q \in Seq(S) /\ Len(q) = cols - end
  <2>1. \A i \in (end + 1)..cols : row[i] \in S
    BY <1>1, <1>2
  <2>2. end + 1 \in Int /\ cols \in Int
    BY <1>2
  <2>3. q \in Seq(S) /\ Len(q) = IF end + 1 <= cols THEN cols - (end + 1) + 1 ELSE 0
    BY <2>1, <2>2, SubSeqProperties
  <2>4. (IF end + 1 <= cols THEN cols - (end + 1) + 1 ELSE 0) = cols - end
    <3>1. end \in Nat /\ end <= cols
      BY <1>2
    <3> QED
      BY <3>1, RestOfRow
  <2>5. Len(q) = cols - end
    <3>1. Len(q) = IF end + 1 <= cols THEN cols - (end + 1) + 1 ELSE 0
      BY <2>3
    <3> HIDE DEF q
    <3> QED
      BY <3>1, <2>4, Zenon
  <2> QED
    BY <2>3, <2>5
<1> HIDE DEF k, p, q, b, S
<1>7. p \o q \in Seq(S) /\ Len(p \o q) = Len(p) + Len(q)
  BY <1>5, <1>6, ConcatProperties
<1>8. (p \o q) \o b \in Seq(S) /\ Len((p \o q) \o b) = Len(p \o q) + Len(b)
  BY <1>4, <1>7, ConcatProperties
<1>9. Len((p \o q) \o b) = cols
  BY <1>2, <1>4, <1>5, <1>6, <1>7, <1>8
<1>10. (p \o q) \o b \in [1..cols -> S]
  BY <1>8, <1>9, SeqIsFunction
<1> QED
  BY <1>1, <1>10 DEF p, q, b, k, S

-----------------------------------------------------------------------------
(* Scrolling *)

(* The rows and the grids of a size.                                       *)
RowOf(sz) == [1..sz.cols -> Cells]
GridOf(sz) == [1..sz.rows -> RowOf(sz)]

(* Rotated, as a chain of turns.                                           *)
Turn(g, from, to) == InsertAt(RemoveAt(g, from + 1), to + 1, BlankRow(size.cols))
IsTurns(t, g, from, to, n) ==
  t = [k \in 0..n |-> IF k = 0 THEN g ELSE Turn(t[k - 1], from, to)]

LEMMA TurnsExist ==
  ASSUME NEW S, NEW from, NEW to, \A x \in S : Turn(x, from, to) \in S,
         NEW g \in S, NEW n \in Nat
  PROVE  \E t : IsTurns(t, g, from, to, n)
<1> DEFINE F == [k \in 1..n |-> [x \in S |-> Turn(x, from, to)]]
<1>1. F \in [1..n -> [S -> S]]
  OBVIOUS
<1>2. \A k \in 1..n, x \in S : F[k][x] = Turn(x, from, to)
  OBVIOUS
<1> HIDE DEF F
<1>3. PICK t \in [0..n -> S] : t[0] = g /\ \A k \in 1..n : t[k] = F[k][t[k - 1]]
  BY <1>1, Recursion
<1>4. ASSUME NEW k \in 0..n PROVE t[k] = IF k = 0 THEN g ELSE Turn(t[k - 1], from, to)
  <2>1. CASE k = 0
    BY <1>3, <2>1
  <2>2. CASE k # 0
    <3>1. k \in 1..n /\ k - 1 \in 0..n
      BY <1>4, <2>2
    <3>2. t[k - 1] \in S
      BY <3>1
    <3> QED
      BY <1>2, <1>3, <2>2, <3>1, <3>2
  <2> QED
    BY <2>1, <2>2
<1>5. t = [k \in 0..n |-> IF k = 0 THEN g ELSE Turn(t[k - 1], from, to)]
  BY <1>4
<1> QED
  BY <1>5 DEF IsTurns

(* What each turn keeps, all of them keep.                                 *)
LEMMA TurnsKeep ==
  ASSUME NEW S, NEW from, NEW to, \A x \in S : Turn(x, from, to) \in S,
         NEW g \in S, NEW n \in Nat, NEW t, IsTurns(t, g, from, to, n)
  PROVE  t[n] \in S
<1>1. \A k \in 0..n : t[k] = IF k = 0 THEN g ELSE Turn(t[k - 1], from, to)
  BY DEF IsTurns
<1> DEFINE Bad == {m \in 0..n : t[m] \notin S}
<1>2. SUFFICES ASSUME Bad # {} PROVE FALSE
  OBVIOUS
<1>3. Bad \in SUBSET Nat
  OBVIOUS
<1>4. PICK m \in Bad : \A k \in Bad : m <= k
  BY <1>2, <1>3, LeastNumber
<1>5. m \in 0..n /\ t[m] \notin S /\ m \in Nat
  OBVIOUS
<1>6. m # 0
  BY <1>1, <1>5
<1>7. m - 1 \in 0..n /\ ~(m <= m - 1)
  BY <1>5, <1>6
<1>8. t[m - 1] \in S
  BY <1>4, <1>7
<1> QED
  BY <1>1, <1>5, <1>6, <1>8

LEMMA RotatedIsTurns ==
  ASSUME NEW S, NEW from, NEW to, \A x \in S : Turn(x, from, to) \in S,
         NEW g \in S, NEW n \in Nat
  PROVE  \E t : IsTurns(t, g, from, to, n) /\ Rotated(g, from, to, n) = t[n]
<1> DEFINE t == CHOOSE t : IsTurns(t, g, from, to, n)
<1>1. IsTurns(t, g, from, to, n)
  BY TurnsExist
<1>2. Rotated(g, from, to, n) = t[n]
  BY DEF Rotated, IsTurns, Turn
<1> QED
  BY <1>1, <1>2

LEMMA RotatedKeeps ==
  ASSUME NEW sz \in Sizes, size = sz, NEW g \in GridOf(sz), NEW n \in Nat,
         NEW from \in 0..(sz.rows - 1), NEW to \in 0..(sz.rows - 1)
  PROVE  Rotated(g, from, to, n) \in GridOf(sz)
<1>1. sz.rows \in Nat /\ BlankRow(sz.cols) \in RowOf(sz)
  <2>1. sz.rows \in Nat /\ sz.cols \in Nat
    BY ScreenGridAssumption
  <2> QED
    BY <2>1, BlankRowFits DEF RowOf
<1>2. from + 1 \in 1..sz.rows /\ to + 1 \in 1..sz.rows
  BY <1>1
<1>3. \A x \in GridOf(sz) : Turn(x, from, to) \in GridOf(sz)
  BY <1>1, <1>2, TurnKeeps DEF GridOf, Turn
<1> QED
  BY <1>3, RotatedIsTurns, TurnsKeep

-----------------------------------------------------------------------------
(* The inductive invariant *)

ScreensFit ==
  /\ size \in Sizes
  /\ grid \in GridOf(size) /\ main \in GridOf(size)
  /\ alt = None \/ alt \in GridOf(size)
  /\ inAlt \in BOOLEAN /\ (inAlt <=> alt # None)

PlacesFit ==
  /\ cursor \in [row : Nat, col : Nat] /\ saved \in [row : Nat, col : Nat]
  /\ region \in [top : Nat, bottom : Nat] /\ region.bottom < size.rows

ScreenInv == ScreensFit /\ PlacesFit /\ MainScreenKept

LEMMA SizeFacts ==
  ASSUME NEW sz \in Sizes
  PROVE  /\ sz.rows \in Nat /\ sz.cols \in Nat /\ sz.rows >= 1 /\ sz.cols >= 1
         /\ sz.rows < Word /\ sz.cols < Word /\ Word \in Nat /\ Word > 0
         /\ None \notin GridOf(sz)
<1>1. sz \in [cols : 1..Word - 1, rows : 1..Word - 1] /\ Word \in Nat
  BY ScreenGridAssumption
<1>2. sz.rows \in 1..Word - 1 /\ sz.cols \in 1..Word - 1
  BY <1>1
<1>3. None \notin GridOf(sz)
  BY NoneIsNoScreen DEF GridOf, RowOf
<1> QED
  BY <1>1, <1>2, <1>3

LEMMA EmptyFits ==
  ASSUME NEW sz \in Sizes
  PROVE  EmptyGrid(sz) \in GridOf(sz)
BY SizeFacts, BlankRowFits DEF EmptyGrid, GridOf, RowOf

LEMMA CroppedFits ==
  ASSUME NEW sz \in Sizes, NEW old \in Sizes, NEW g \in GridOf(old)
  PROVE  Cropped(g, sz) \in GridOf(sz)
<1>1. /\ DOMAIN g = 1..old.rows
      /\ \A r \in 1..old.rows : DOMAIN g[r] = 1..old.cols /\ \A c \in 1..old.cols : g[r][c] \in Cells
  BY DEF GridOf, RowOf
<1>2. \A r \in 1..sz.rows, c \in 1..sz.cols :
        (IF r \in DOMAIN g /\ c \in DOMAIN g[r] THEN g[r][c] ELSE Blank) \in Cells
  BY <1>1, BlankIsCell
<1> QED
  BY <1>2 DEF Cropped, GridOf, RowOf

(* A sequence that redraws the screen it shows.                            *)
LEMMA ShowsKeeps ==
  ASSUME ScreensFit, MainScreenKept, size' = size, NEW g \in GridOf(size), Shows(g)
  PROVE  ScreensFit' /\ MainScreenKept'
BY SizeFacts DEF ScreensFit, MainScreenKept, Shows

LEMMA ScreensKeep ==
  ASSUME ScreensFit, MainScreenKept, UNCHANGED <<size, screens>>
  PROVE  ScreensFit' /\ MainScreenKept'
BY DEF ScreensFit, MainScreenKept, screens

LEMMA ScrolledFits ==
  ASSUME ScreensFit, PlacesFit, NEW up \in BOOLEAN, NEW n \in Nat
  PROVE  Scrolled(grid, up, n) \in GridOf(size)
<1>1. CASE region.top >= region.bottom
  BY <1>1 DEF Scrolled, ScreensFit
<1>2. CASE ~(region.top >= region.bottom)
  <2>1. region.top \in 0..(size.rows - 1) /\ region.bottom \in 0..(size.rows - 1)
    BY <1>2, SizeFacts DEF PlacesFit, ScreensFit
  <2>2. /\ Rotated(grid, region.top, region.bottom, n) \in GridOf(size)
        /\ Rotated(grid, region.bottom, region.top, n) \in GridOf(size)
    BY <2>1, RotatedKeeps DEF ScreensFit
  <2> QED
    BY <1>2, <2>2 DEF Scrolled
<1> QED
  BY <1>1, <1>2

(* Every sequence and every resize preserves the invariant.                *)
LEMMA InvPreserved ==
  ASSUME ScreenInv, PenTyped, [ScreenNext]_screenVars
  PROVE  ScreenInv'
<1> USE DEF ScreenInv
<1>1. /\ size.rows \in Nat /\ size.cols \in Nat /\ size.rows >= 1 /\ size.cols >= 1
      /\ Word \in Nat /\ Word > 0
      /\ cursor.row \in Nat /\ cursor.col \in Nat
      /\ region.top \in Nat /\ region.bottom \in Nat /\ region.bottom < size.rows
      /\ Counts \subseteq Nat
  BY SizeFacts, ScreenGridAssumption DEF ScreensFit, PlacesFit
<1>2. ASSUME NEW sz \in Sizes, Resize(sz) PROVE ScreenInv'
  <2>1. ScreensFit' /\ MainScreenKept'
    <3>1. /\ Cropped(grid, sz) \in GridOf(sz) /\ Cropped(main, sz) \in GridOf(sz)
          /\ alt # None => Cropped(alt, sz) \in GridOf(sz)
      BY CroppedFits DEF ScreensFit
    <3>2. None \notin GridOf(sz)
      BY SizeFacts
    <3>3. /\ size' = sz /\ grid' = Cropped(grid, sz) /\ main' = Cropped(main, sz)
          /\ alt' = (IF alt = None THEN None ELSE Cropped(alt, sz))
          /\ inAlt' = inAlt /\ nested' = nested
      BY <1>2 DEF Resize
    <3>4. ScreensFit'
      BY <3>1, <3>2, <3>3 DEF ScreensFit
    <3>5. MainScreenKept'
      BY <3>3 DEF ScreensFit, MainScreenKept
    <3> QED
      BY <3>4, <3>5
  <2>2. PlacesFit'
    BY <1>1, <1>2, SizeFacts DEF Resize, MovesTo, Least, PlacesFit
  <2> QED
    BY <2>1, <2>2
<1>3. ASSUME NEW ch \in Chars, PutChar(ch) PROVE ScreenInv'
  <2> DEFINE cell == [char |-> ch, attr |-> pen]
             g == [grid EXCEPT ![cursor.row + 1][cursor.col + 1] = cell]
  <2>1. g \in GridOf(size)
    <3>1. cell \in Cells
      BY DEF Cells, PenTyped
    <3> HIDE DEF cell
    <3> QED
      BY <1>1, <3>1 DEF ScreensFit, GridOf, RowOf
  <2>2. size' = size /\ Shows(g)
    BY <1>3 DEF PutChar
  <2> HIDE DEF g
  <2>3. ScreensFit' /\ MainScreenKept'
    BY <2>1, <2>2, ShowsKeeps
  <2>4. PlacesFit'
    BY <1>1, <1>3 DEF PutChar, MovesTo, Least, LastCol, PlacesFit
  <2> QED
    BY <2>3, <2>4
<1>4. ASSUME NEW n \in Counts, MoveCursor(n) PROVE ScreenInv'
  <2>1. UNCHANGED <<size, saved, region>> /\ UNCHANGED <<size, screens>>
    BY <1>4 DEF MoveCursor
  <2>2. cursor' \in [row : Nat, col : Nat]
    BY <1>1, <1>4 DEF MoveCursor, MovesTo, NewPosition, Minus, Least, LastRow, LastCol
  <2> QED
    BY <2>1, <2>2, ScreensKeep DEF PlacesFit
<1>5. ASSUME NEW n \in Counts, NEW m \in Counts, PlaceCursor(n, m) PROVE ScreenInv'
  <2>1. UNCHANGED <<size, saved, region>> /\ UNCHANGED <<size, screens>>
    BY <1>5 DEF PlaceCursor
  <2>2. cursor' \in [row : Nat, col : Nat]
    BY <1>1, <1>5 DEF PlaceCursor, MovesTo, Minus, Least, LastRow, LastCol
  <2> QED
    BY <2>1, <2>2, ScreensKeep DEF PlacesFit
<1>6. CASE LineFeed
  <2>1. UNCHANGED <<size, saved, region>>
    BY <1>6 DEF LineFeed
  <2>2. CASE cursor.row + 1 > region.bottom
    <3>1. Shows(Scrolled(grid, TRUE, 1)) /\ MovesTo(region.bottom, cursor.col)
      BY <1>6, <2>2 DEF LineFeed
    <3> QED
      BY <1>1, <2>1, <3>1, ScrolledFits, ShowsKeeps DEF MovesTo, PlacesFit
  <2>3. CASE ~(cursor.row + 1 > region.bottom)
    <3>1. UNCHANGED screens /\ MovesTo(cursor.row + 1, cursor.col)
      BY <1>6, <2>3 DEF LineFeed
    <3> QED
      BY <1>1, <2>1, <3>1, ScreensKeep DEF MovesTo, PlacesFit
  <2> QED
    BY <2>2, <2>3
<1>7. ASSUME NEW lines \in BOOLEAN, NEW mode \in 0..2, Erase(lines, mode) PROVE ScreenInv'
  <2>1. PICK g \in GridOf(size) : Shows(g)
    BY <1>7, BlankIsCell DEF Erase, Erased, ScreensFit, GridOf, RowOf
  <2>2. UNCHANGED <<size, cursor, saved, region>>
    BY <1>7 DEF Erase
  <2> QED
    BY <2>1, <2>2, ShowsKeeps DEF PlacesFit
<1>8. ASSUME NEW n \in Counts, NEW insert \in BOOLEAN, EditLines(n, insert) PROVE ScreenInv'
  <2>1. /\ UNCHANGED <<size, cursor, saved, region>> /\ cursor.row <= region.bottom
        /\ \E k \in Nat : Shows(IF insert THEN Rotated(grid, region.bottom, cursor.row, k)
                                          ELSE Rotated(grid, cursor.row, region.bottom, k))
    BY <1>1, <1>8 DEF EditLines
  <2>2. cursor.row \in 0..(size.rows - 1) /\ region.bottom \in 0..(size.rows - 1)
    BY <1>1, <2>1
  <2>3. PICK k \in Nat : Shows(IF insert THEN Rotated(grid, region.bottom, cursor.row, k)
                                         ELSE Rotated(grid, cursor.row, region.bottom, k))
    BY <2>1
  <2>4. /\ Rotated(grid, region.bottom, cursor.row, k) \in GridOf(size)
        /\ Rotated(grid, cursor.row, region.bottom, k) \in GridOf(size)
    BY <2>2, RotatedKeeps DEF ScreensFit
  <2>5. \E g \in GridOf(size) : Shows(g)
    BY <2>3, <2>4
  <2> QED
    BY <2>1, <2>5, ShowsKeeps DEF PlacesFit
<1>9. ASSUME NEW n \in Counts, DeleteChars(n) PROVE ScreenInv'
  <2>1. UNCHANGED <<size, cursor, saved, region>> /\ cursor.row < size.rows
    BY <1>9 DEF DeleteChars
  <2> DEFINE row == grid[cursor.row + 1]
             end == Least(cursor.col + n, size.cols)
             cut == SubSeq(row, 1, cursor.col) \o SubSeq(row, end + 1, Len(row))
                      \o BlankRow(Least(n, size.cols - cursor.col))
  <2>2. CASE cursor.col > end
    BY <1>9, <2>1, <2>2, ScreensKeep DEF DeleteChars, PlacesFit
  <2>3. CASE ~(cursor.col > end)
    <3>1. row \in [1..size.cols -> Cells]
      BY <1>1, <2>1 DEF ScreensFit, GridOf, RowOf
    <3>2. cut \in [1..size.cols -> Cells]
      BY <1>1, <2>3, <3>1, DeletedFits
    <3>3. Shows([grid EXCEPT ![cursor.row + 1] = cut])
      BY <1>9, <2>3 DEF DeleteChars
    <3> HIDE DEF cut
    <3>4. [grid EXCEPT ![cursor.row + 1] = cut] \in GridOf(size)
      BY <3>2 DEF ScreensFit, GridOf, RowOf
    <3> QED
      BY <2>1, <3>3, <3>4, ShowsKeeps DEF PlacesFit
  <2> QED
    BY <2>2, <2>3
<1>10. ASSUME NEW up \in BOOLEAN, NEW n \in Counts, Scroll(up, n) PROVE ScreenInv'
  <2>1. UNCHANGED <<size, cursor, saved, region>> /\ Shows(Scrolled(grid, up, n)) /\ n \in Nat
    BY <1>1, <1>10 DEF Scroll
  <2> QED
    BY <2>1, ScrolledFits, ShowsKeeps DEF PlacesFit
<1>11. ASSUME NEW top \in Counts, NEW bottom \in Counts, SetRegion(top, bottom) PROVE ScreenInv'
  <2>1. UNCHANGED <<size, screens>> /\ UNCHANGED <<size, saved>>
    BY <1>11 DEF SetRegion
  <2>2. PlacesFit'
    BY <1>1, <1>11 DEF SetRegion, MovesTo, Minus, Least, LastRow, PlacesFit
  <2> QED
    BY <2>1, <2>2, ScreensKeep
<1>12. CASE EnterAlt
  <2>1. /\ UNCHANGED <<size, region, main>> /\ alt' = grid /\ grid' = EmptyGrid(size)
        /\ inAlt' = TRUE /\ nested' = (nested \/ inAlt) /\ saved' = cursor
        /\ cursor' = [row |-> 0, col |-> 0]
    BY <1>12 DEF EnterAlt, MovesTo
  <2>2. EmptyGrid(size) \in GridOf(size) /\ None \notin GridOf(size)
    BY EmptyFits, SizeFacts DEF ScreensFit
  <2>3. ScreensFit'
    BY <2>1, <2>2 DEF ScreensFit
  <2>4. MainScreenKept'
    BY <2>1 DEF MainScreenKept
  <2>5. PlacesFit'
    BY <2>1 DEF PlacesFit
  <2> QED
    BY <2>3, <2>4, <2>5
<1>13. CASE LeaveAlt
  <2>1. /\ UNCHANGED <<size, region, saved, main, nested>> /\ cursor' = saved
        /\ grid' = (IF alt = None THEN grid ELSE alt) /\ alt' = None /\ inAlt' = FALSE
    BY <1>13 DEF LeaveAlt
  <2>2. ScreensFit'
    BY <2>1 DEF ScreensFit
  <2>3. MainScreenKept'
    BY <2>1 DEF MainScreenKept, ScreensFit
  <2>4. PlacesFit'
    BY <2>1 DEF PlacesFit
  <2> QED
    BY <2>2, <2>3, <2>4
<1>14. CASE SaveCursor \/ RestoreCursor \/ (\E p \in Renditions : SetRendition(p)) \/ UNCHANGED screenVars
  <2>1. /\ UNCHANGED <<size, screens>> /\ UNCHANGED <<size, region>>
        /\ cursor' \in {cursor, saved} /\ saved' \in {cursor, saved}
    BY <1>14 DEF SaveCursor, RestoreCursor, SetRendition, screenVars
  <2> QED
    BY <2>1, ScreensKeep DEF PlacesFit
<1> QED
  BY <1>2, <1>3, <1>4, <1>5, <1>6, <1>7, <1>8, <1>9, <1>10, <1>11, <1>12, <1>13, <1>14
     DEF ScreenNext, Drawing

LEMMA InvHolds == ScreenSpec => []ScreenInv
<1>1. ScreenInit => ScreenInv
  <2> SUFFICES ASSUME ScreenInit PROVE ScreenInv
    OBVIOUS
  <2>1. size \in Sizes /\ EmptyGrid(size) \in GridOf(size)
    BY EmptyFits DEF ScreenInit
  <2>2. size.rows - 1 \in Nat /\ size.rows - 1 < size.rows
    BY <2>1, SizeFacts
  <2>3. ScreensFit /\ MainScreenKept
    BY <2>1 DEF ScreenInit, ScreensFit, MainScreenKept
  <2>4. PlacesFit
    BY <2>2 DEF ScreenInit, PlacesFit
  <2> QED
    BY <2>3, <2>4 DEF ScreenInv
<1>2. ScreenInv /\ PenTyped /\ [ScreenNext]_screenVars => ScreenInv'
  BY InvPreserved
<1> QED
  BY <1>1, <1>2, PenIsTyped, PTL DEF ScreenSpec

-----------------------------------------------------------------------------
(* The screen *)

(* Both screens have the size of the pane and the scroll region ends on    *)
(* the screen, for every pane, whatever sequences a program sends.         *)
THEOREM ScreensHaveTheSizeOfThePane == ScreenSpec => []GridFits
<1>1. ScreenInv => GridFits
  <2>1. \A g : g \in GridOf(size) => Fits(g)
    BY DEF GridOf, RowOf, Fits
  <2> QED
    BY <2>1 DEF ScreenInv, ScreensFit, PlacesFit, GridFits
<1> QED
  BY <1>1, InvHolds, PTL

(* Leaving the alternate screen shows the main one as it was left.         *)
THEOREM AlternateScreenGivesBack == ScreenSpec => []MainScreenKept
<1>1. ScreenInv => MainScreenKept
  BY DEF ScreenInv
<1> QED
  BY <1>1, InvHolds, PTL

(* Only a restored position that a smaller size has cut off takes the      *)
(* cursor out of the grid, and only such a cursor makes a sequence index   *)
(* out of range.                                                           *)
THEOREM OnlyRestoringLeavesGrid == ScreenSpec => CursorStaysInGrid
<1> DEFINE Stays == /\ InGrid(cursor) /\ ~InGrid(cursor)' => cursor' = saved /\ ~InGrid(saved)
                    /\ panicked' => ~InGrid(cursor)
<1>1. ScreenInv /\ [ScreenNext]_screenVars => [Stays]_screenVars
  <2> SUFFICES ASSUME ScreenInv, ScreenNext PROVE Stays
    BY DEF screenVars
  <2>1. /\ size.rows \in Nat /\ size.cols \in Nat /\ size.rows >= 1 /\ size.cols >= 1
        /\ Word \in Nat /\ Word > 0
        /\ cursor.row \in Nat /\ cursor.col \in Nat
        /\ region.bottom \in Nat /\ region.bottom < size.rows /\ Counts \subseteq Nat
    BY SizeFacts, ScreenGridAssumption DEF ScreenInv, ScreensFit, PlacesFit
  <2>2. ASSUME InGrid(cursor)', panicked' = panicked, ~panicked PROVE Stays
    BY <2>2
  <2>3. ASSUME UNCHANGED <<size, cursor>>, panicked' = panicked, ~panicked PROVE Stays
    BY <2>3 DEF InGrid
  <2>4. ASSUME NEW sz \in Sizes, Resize(sz) PROVE Stays
    <3>1. InGrid(cursor)'
      BY <2>1, <2>4, SizeFacts DEF Resize, MovesTo, Least, InGrid
    <3> QED
      BY <2>2, <2>4, <3>1 DEF Resize, Alive
  <2>5. ASSUME NEW ch \in Chars, PutChar(ch) PROVE Stays
    <3>1. InGrid(cursor)'
      BY <2>1, <2>5 DEF PutChar, MovesTo, Least, LastCol, InGrid
    <3> QED
      BY <2>2, <2>5, <3>1 DEF PutChar, Alive
  <2>6. ASSUME NEW n \in Counts, MoveCursor(n) PROVE Stays
    <3>1. InGrid(cursor) => InGrid(cursor)'
      BY <2>1, <2>6 DEF MoveCursor, MovesTo, NewPosition, Minus, Least, LastRow, LastCol, InGrid
    <3> QED
      BY <2>6, <3>1 DEF MoveCursor, Alive
  <2>7. ASSUME NEW n \in Counts, NEW m \in Counts, PlaceCursor(n, m) PROVE Stays
    <3>1. InGrid(cursor)'
      BY <2>1, <2>7 DEF PlaceCursor, MovesTo, Minus, Least, LastRow, LastCol, InGrid
    <3> QED
      BY <2>2, <2>7, <3>1 DEF PlaceCursor, Alive
  <2>8. CASE LineFeed
    <3>1. size' = size /\ panicked' = panicked /\ ~panicked
      BY <2>8 DEF LineFeed, Alive
    <3>2. cursor' = [row |-> IF cursor.row + 1 > region.bottom THEN region.bottom ELSE cursor.row + 1,
                     col |-> cursor.col]
      BY <2>8 DEF LineFeed, MovesTo
    <3>3. InGrid(cursor) => InGrid(cursor)'
      BY <2>1, <3>1, <3>2 DEF InGrid
    <3> QED
      BY <3>1, <3>3
  <2>9. CASE (\E lines \in BOOLEAN, mode \in 0..2 : Erase(lines, mode))
             \/ (\E n \in Counts, b \in BOOLEAN : EditLines(n, b) \/ Scroll(b, n))
             \/ (\E p \in Renditions : SetRendition(p)) \/ SaveCursor
    BY <2>3, <2>9 DEF Erase, EditLines, Scroll, SetRendition, SaveCursor, Alive
  <2>10. ASSUME NEW n \in Counts, DeleteChars(n) PROVE Stays
    <3>1. UNCHANGED <<size, cursor>> /\ ~panicked
      BY <2>10 DEF DeleteChars, Alive
    <3>2. panicked' => cursor.col > Least(cursor.col + n, size.cols)
      BY <2>10, <3>1 DEF DeleteChars
    <3>3. cursor.col > Least(cursor.col + n, size.cols) => cursor.col > size.cols
      BY <2>1 DEF Least
    <3>4. cursor.col > size.cols => ~InGrid(cursor)
      BY <2>1 DEF InGrid
    <3> QED
      BY <3>1, <3>2, <3>3, <3>4 DEF InGrid
  <2>11. ASSUME NEW top \in Counts, NEW bottom \in Counts, SetRegion(top, bottom) PROVE Stays
    <3>1. InGrid(cursor)'
      BY <2>1, <2>11 DEF SetRegion, MovesTo, InGrid
    <3> QED
      BY <2>2, <2>11, <3>1 DEF SetRegion, Alive
  <2>12. CASE EnterAlt
    <3>1. InGrid(cursor)'
      BY <2>1, <2>12 DEF EnterAlt, MovesTo, InGrid
    <3> QED
      BY <2>2, <2>12, <3>1 DEF EnterAlt, Alive
  <2>13. CASE LeaveAlt \/ RestoreCursor
    BY <2>13 DEF LeaveAlt, RestoreCursor, Alive, InGrid
  <2> HIDE DEF Stays
  <2> QED
    BY <2>4, <2>5, <2>6, <2>7, <2>8, <2>9, <2>10, <2>11, <2>12, <2>13 DEF ScreenNext, Drawing
<1> QED
  BY <1>1, InvHolds, PTL DEF ScreenSpec, CursorStaysInGrid

-----------------------------------------------------------------------------
(* Repaints *)

(* Regions, as a scan from column to column.                               *)
NoRun == [start |-> 0, done |-> {}]
Run == [start : Nat, done : SUBSET (Nat \X Nat)]
IsScan(f, new, old, n) ==
  f = [c \in 0..n |-> IF c = 0 THEN NoRun ELSE Compared(f[c - 1], new, old, c)]

Columns(runs) == UNION {q[1]..q[2] : q \in runs}
Changed(new, old, n) == {c \in 1..n : Differs(new, old, c)}

LEMMA OneMoreRun ==
  ASSUME NEW runs, NEW a, NEW b, NEW i
  PROVE  i \in Columns(runs \cup {<<a, b>>}) <=> i \in Columns(runs) \/ i \in a..b
<1> DEFINE q == <<a, b>>
<1>1. q[1] = a /\ q[2] = b
  OBVIOUS
<1> HIDE DEF q
<1>2. i \in Columns(runs \cup {q}) <=> i \in Columns(runs) \/ i \in q[1]..q[2]
  BY DEF Columns
<1>3. i \in Columns(runs \cup {q}) <=> i \in Columns(runs) \/ i \in a..b
  BY <1>1, <1>2
<1> QED
  BY <1>3 DEF q

LEMMA ComparedTyped ==
  ASSUME NEW s \in Run, NEW new, NEW old, NEW c \in Nat \ {0}
  PROVE  Compared(s, new, old, c) \in Run
<1>1. /\ s.start \in Nat /\ s.done \subseteq Nat \X Nat /\ c - 1 \in Nat
      /\ [s EXCEPT !.start = c] \in Run
  BY DEF Run
<1>2. [start |-> 0, done |-> s.done \cup {<<s.start, c - 1>>}] \in Run
  BY <1>1 DEF Run
<1> QED
  BY <1>1, <1>2 DEF Compared

LEMMA ScanExists ==
  ASSUME NEW new, NEW old, NEW n \in Nat
  PROVE  \E f : IsScan(f, new, old, n)
<1> DEFINE F == [k \in 1..n |-> [x \in Run |-> Compared(x, new, old, k)]]
<1>1. \A k \in 1..n, x \in Run : Compared(x, new, old, k) \in Run
  BY ComparedTyped
<1>2. F \in [1..n -> [Run -> Run]]
  BY <1>1
<1>3. \A k \in 1..n, x \in Run : F[k][x] = Compared(x, new, old, k)
  OBVIOUS
<1>4. NoRun \in Run
  BY DEF NoRun, Run
<1> HIDE DEF F
<1>5. PICK t \in [0..n -> Run] : t[0] = NoRun /\ \A k \in 1..n : t[k] = F[k][t[k - 1]]
  BY <1>2, <1>4, Recursion
<1>6. ASSUME NEW k \in 0..n PROVE t[k] = IF k = 0 THEN NoRun ELSE Compared(t[k - 1], new, old, k)
  <2>1. CASE k = 0
    BY <1>5, <2>1
  <2>2. CASE k # 0
    <3>1. k \in 1..n /\ k - 1 \in 0..n
      BY <1>6, <2>2
    <3>2. t[k - 1] \in Run
      BY <3>1
    <3> QED
      BY <1>3, <1>5, <2>2, <3>1, <3>2
  <2> QED
    BY <2>1, <2>2
<1>7. t = [k \in 0..n |-> IF k = 0 THEN NoRun ELSE Compared(t[k - 1], new, old, k)]
  BY <1>6
<1> QED
  BY <1>7 DEF IsScan

(* After c columns: the finished runs are the changed columns before the   *)
(* open run, and every column of the open run has changed.                 *)
ScanAt(s, new, old, c) ==
  /\ s \in Run /\ s.start <= c
  /\ s.start # 0 => \A i \in s.start..c : Differs(new, old, i)
  /\ \A i : i \in Columns(s.done) <=>
              i \in Changed(new, old, c) /\ (s.start = 0 \/ i < s.start)

LEMMA ScanStep ==
  ASSUME NEW new, NEW old, NEW c \in Nat \ {0}, NEW s, ScanAt(s, new, old, c - 1)
  PROVE  ScanAt(Compared(s, new, old, c), new, old, c)
<1>1. /\ s \in Run /\ s.start \in Nat /\ s.start <= c - 1
      /\ s.start # 0 => \A i \in s.start..(c - 1) : Differs(new, old, i)
      /\ Compared(s, new, old, c) \in Run
  BY ComparedTyped DEF ScanAt, Run
<1>2. \A i : i \in Columns(s.done) <=>
              i \in Changed(new, old, c - 1) /\ (s.start = 0 \/ i < s.start)
  BY DEF ScanAt
<1>3. \A i : i \in Changed(new, old, c) <=>
              i \in Changed(new, old, c - 1) \/ (i = c /\ Differs(new, old, c))
  BY DEF Changed
<1>4. \A i \in Changed(new, old, c - 1) : i \in 1..(c - 1)
  BY DEF Changed
<1>5. CASE Differs(new, old, c) /\ s.start = 0
  <2>1. Compared(s, new, old, c).start = c /\ Compared(s, new, old, c).done = s.done
    BY <1>1, <1>5 DEF Compared, Run
  <2>2. \A i \in c..c : Differs(new, old, i)
    BY <1>5 DEF Differs
  <2>3. \A i : i \in Columns(s.done) <=> i \in Changed(new, old, c) /\ i < c
    BY <1>2, <1>3, <1>4, <1>5
  <2> QED
    BY <1>1, <2>1, <2>2, <2>3 DEF ScanAt
<1>6. CASE ~Differs(new, old, c) /\ s.start # 0
  <2> DEFINE runs == s.done \cup {<<s.start, c - 1>>}
  <2>1. Compared(s, new, old, c) = [start |-> 0, done |-> runs]
    BY <1>6 DEF Compared
  <2>2. \A i : i \in Columns(runs) <=> i \in Columns(s.done) \/ i \in s.start..(c - 1)
    BY OneMoreRun
  <2>3. \A i \in s.start..(c - 1) : i \in Changed(new, old, c - 1)
    BY <1>1, <1>6 DEF Changed
  <2>4. \A i \in Changed(new, old, c - 1) : ~(i < s.start) => i \in s.start..(c - 1)
    BY <1>1, <1>4
  <2>5. \A i : i \in Columns(runs) <=> i \in Changed(new, old, c)
    BY <1>2, <1>3, <1>6, <2>2, <2>3, <2>4
  <2> HIDE DEF runs
  <2> QED
    BY <1>1, <2>1, <2>5 DEF ScanAt
<1>7. CASE /\ ~(Differs(new, old, c) /\ s.start = 0)
           /\ ~(~Differs(new, old, c) /\ s.start # 0)
  <2>1. Compared(s, new, old, c) = s
    BY <1>7 DEF Compared
  <2>2. s.start # 0 => \A i \in s.start..c : Differs(new, old, i)
    BY <1>1, <1>7
  <2>3. \A i : i \in Columns(s.done) <=>
                i \in Changed(new, old, c) /\ (s.start = 0 \/ i < s.start)
    BY <1>1, <1>2, <1>3, <1>7
  <2> QED
    BY <1>1, <2>1, <2>2, <2>3 DEF ScanAt
<1> QED
  BY <1>5, <1>6, <1>7

LEMMA ScanHolds ==
  ASSUME NEW new, NEW old, NEW n \in Nat, NEW f, IsScan(f, new, old, n)
  PROVE  ScanAt(f[n], new, old, n)
<1>1. \A c \in 0..n : f[c] = IF c = 0 THEN NoRun ELSE Compared(f[c - 1], new, old, c)
  BY DEF IsScan
<1> DEFINE Bad == {c \in 0..n : ~ScanAt(f[c], new, old, c)}
<1>2. SUFFICES ASSUME Bad # {} PROVE FALSE
  OBVIOUS
<1>3. Bad \in SUBSET Nat
  OBVIOUS
<1>4. PICK m \in Bad : \A k \in Bad : m <= k
  BY <1>2, <1>3, LeastNumber
<1>5. m \in 0..n /\ m \in Nat /\ ~ScanAt(f[m], new, old, m)
  OBVIOUS
<1>6. CASE m = 0
  <2>1. f[m] = NoRun
    BY <1>1, <1>5, <1>6
  <2>2. NoRun \in Run /\ NoRun.start = 0 /\ NoRun.done = {}
    BY DEF NoRun, Run
  <2>3. \A i : i \notin Columns({}) /\ i \notin Changed(new, old, 0)
    BY DEF Columns, Changed
  <2>4. ScanAt(NoRun, new, old, 0)
    BY <2>2, <2>3 DEF ScanAt
  <2> QED
    BY <1>5, <1>6, <2>1, <2>4
<1>7. CASE m # 0
  <2>1. m - 1 \in 0..n /\ ~(m <= m - 1) /\ m \in Nat \ {0}
    BY <1>5, <1>7
  <2>2. ScanAt(f[m - 1], new, old, m - 1)
    BY <1>4, <2>1
  <2>3. f[m] = Compared(f[m - 1], new, old, m)
    BY <1>1, <1>5, <1>7
  <2> QED
    BY <1>5, <2>1, <2>2, <2>3, ScanStep
<1> QED
  BY <1>6, <1>7

(* The regions of a row are the columns that differ, if rows have one      *)
(* length or no column differs.                                            *)
LEMMA RegionsAreTheChanges ==
  ASSUME NEW new, NEW old, NEW n \in Nat, n = Least(Len(new), Len(old)),
         n = Len(new) \/ Changed(new, old, n) = {}
  PROVE  Columns(Regions(new, old)) = Changed(new, old, n)
<1> DEFINE f == CHOOSE f : IsScan(f, new, old, n)
           s == f[n]
           runs == s.done \cup (IF s.start = 0 THEN {} ELSE {<<s.start, Len(new)>>})
<1>1. IsScan(f, new, old, n)
  BY ScanExists
<1>2. Regions(new, old) = runs
  BY DEF Regions, IsScan, NoRun
<1> HIDE DEF f
<1>3. ScanAt(s, new, old, n)
  BY <1>1, ScanHolds
<1> HIDE DEF s
<1>4. /\ s.start \in Nat /\ s.start <= n
      /\ s.start # 0 => \A i \in s.start..n : Differs(new, old, i)
      /\ \A i : i \in Columns(s.done) <=>
                 i \in Changed(new, old, n) /\ (s.start = 0 \/ i < s.start)
  BY <1>3 DEF ScanAt, Run
<1>5. CASE s.start = 0
  <2>1. runs = s.done
    BY <1>5
  <2>2. \A i : i \in Columns(s.done) <=> i \in Changed(new, old, n)
    BY <1>4, <1>5
  <2> QED
    BY <1>2, <2>1, <2>2
<1>6. CASE s.start # 0
  <2>1. \A i \in s.start..n : i \in Changed(new, old, n)
    BY <1>4, <1>6 DEF Changed
  <2>2. n = Len(new)
    BY <1>4, <1>6, <2>1
  <2>3. \A i : i \in Columns(runs) <=> i \in Columns(s.done) \/ i \in s.start..n
    BY <1>6, <2>2, OneMoreRun
  <2>4. \A i \in Changed(new, old, n) : ~(i < s.start) => i \in s.start..n
    BY <1>4 DEF Changed
  <2>5. \A i : i \in Columns(runs) <=> i \in Changed(new, old, n)
    BY <1>4, <2>1, <2>3, <2>4
  <2> HIDE DEF runs
  <2> QED
    BY <1>2, <2>5
<1> QED
  BY <1>5, <1>6

(* Reported for two screens that have one width, or differ in nothing that *)
(* both of them have.                                                      *)
LEMMA ReportedAreTheChanges ==
  ASSUME NEW ns \in Sizes, NEW os \in Sizes, NEW new \in GridOf(ns), NEW old \in GridOf(os),
         \/ ns.cols = os.cols
         \/ \A r \in DOMAIN new : r \in DOMAIN old =>
              Changed(new[r], old[r], Least(ns.cols, os.cols)) = {}
  PROVE  Reported(new, old) = Redrawn(new, old)
<1>1. /\ DOMAIN new = 1..ns.rows /\ DOMAIN old = 1..os.rows
      /\ ns.cols \in Nat /\ os.cols \in Nat
      /\ \A r \in DOMAIN new : DOMAIN new[r] = 1..ns.cols
      /\ \A r \in DOMAIN old : DOMAIN old[r] = 1..os.cols
  BY SizeFacts DEF GridOf, RowOf
<1> DEFINE n == Least(ns.cols, os.cols)
           Marked(r) == IF r \in DOMAIN old THEN Columns(Regions(new[r], old[r])) ELSE DOMAIN new[r]
<1>2. n \in Nat /\ n <= ns.cols /\ n <= os.cols /\ (ns.cols = os.cols => n = ns.cols)
      /\ \A c : c \in 1..n <=> c \in 1..ns.cols /\ c \in 1..os.cols
  BY <1>1 DEF Least
<1>3. ASSUME NEW r \in DOMAIN new, r \in DOMAIN old
      PROVE  Columns(Regions(new[r], old[r])) = Changed(new[r], old[r], n)
  <2>1. new[r] \in [1..ns.cols -> Cells] /\ old[r] \in [1..os.cols -> Cells]
    BY <1>1, <1>3 DEF GridOf, RowOf
  <2>2. Len(new[r]) = ns.cols /\ Len(old[r]) = os.cols
    BY <1>1, <2>1, FunctionIsSeq
  <2>3. n = Len(new[r]) \/ Changed(new[r], old[r], n) = {}
    BY <1>2, <1>3, <2>2
  <2> QED
    BY <1>2, <2>2, <2>3, RegionsAreTheChanges
<1>4. Reported(new, old) = UNION {{r} \X Marked(r) : r \in DOMAIN new}
  BY DEF Reported, Columns
<1> HIDE DEF n
<1>5. \A r \in DOMAIN new : Marked(r) = {c \in 1..ns.cols :
         \/ r \notin DOMAIN old
         \/ r \in DOMAIN old /\ c \in 1..os.cols /\ new[r][c].char # old[r][c].char}
  BY <1>1, <1>2, <1>3 DEF Changed, Differs
<1> HIDE DEF Marked
<1>6. \A p : p \in Reported(new, old) <=>
             \E r \in DOMAIN new, c \in 1..ns.cols :
               /\ p = <<r, c>>
               /\ \/ r \notin DOMAIN old
                  \/ r \in DOMAIN old /\ c \in 1..os.cols /\ new[r][c].char # old[r][c].char
  BY <1>4, <1>5
<1>7. \A p : p \in Places(new) <=> \E r \in DOMAIN new, c \in 1..ns.cols : p = <<r, c>>
  BY <1>1 DEF Places
<1>8. \A r, c : <<r, c>> \in Places(old) <=> r \in DOMAIN old /\ c \in 1..os.cols
  BY <1>1 DEF Places
<1>9. \A p : p \in Redrawn(new, old) <=>
             \E r \in DOMAIN new, c \in 1..ns.cols :
               /\ p = <<r, c>>
               /\ \/ r \notin DOMAIN old
                  \/ r \in DOMAIN old /\ c \in 1..os.cols /\ new[r][c].char # old[r][c].char
  BY <1>7, <1>8 DEF Redrawn
<1> QED
  BY <1>6, <1>9

(* A resize crops: what both screens have is the same in both.             *)
LEMMA CroppedIsSame ==
  ASSUME NEW sz \in Sizes, NEW os \in Sizes, NEW g \in GridOf(os)
  PROVE  \A r \in DOMAIN Cropped(g, sz) : r \in DOMAIN g =>
           Changed(Cropped(g, sz)[r], g[r], Least(sz.cols, os.cols)) = {}
<1> SUFFICES ASSUME NEW r \in 1..sz.rows, r \in DOMAIN g, NEW c \in 1..Least(sz.cols, os.cols)
             PROVE  ~Differs(Cropped(g, sz)[r], g[r], c)
  BY DEF Cropped, Changed
<1>1. c \in 1..sz.cols /\ c \in DOMAIN g[r]
  BY SizeFacts DEF Least, GridOf, RowOf
<1>2. Cropped(g, sz)[r][c] = g[r][c]
  BY <1>1 DEF Cropped
<1> QED
  BY <1>2 DEF Differs

(* Every sequence leaves the size alone.                                   *)
LEMMA OnlyResizes ==
  ASSUME ScreenNext
  PROVE  size' = size \/ \E sz \in Sizes : Resize(sz)
BY DEF ScreenNext, Drawing, PutChar, MoveCursor, PlaceCursor, LineFeed, Erase, EditLines,
   DeleteChars, Scroll, SetRegion, EnterAlt, LeaveAlt, SaveCursor, RestoreCursor, SetRendition

(* A diff finds the characters that a step has changed and the rows that a *)
(* resize has added, no more and no fewer, for every size; attributes it   *)
(* does not look at.                                                       *)
THEOREM DiffsFindCharacters == ScreenSpec => DiffFindsCharacters
<1> DEFINE Finds == grid' # grid => Reported(grid', grid) = Redrawn(grid', grid)
<1>1. ScreenInv /\ ScreenInv' /\ [ScreenNext]_screenVars => Finds
  <2> SUFFICES ASSUME ScreenInv, ScreenInv', [ScreenNext]_screenVars, grid' # grid
               PROVE  Reported(grid', grid) = Redrawn(grid', grid)
    OBVIOUS
  <2>1. /\ size \in Sizes /\ grid \in GridOf(size)
        /\ size' \in Sizes /\ grid' \in GridOf(size')
    BY DEF ScreenInv, ScreensFit
  <2>2. ScreenNext
    BY DEF screenVars, screens
  <2>3. CASE size' = size
    BY <2>1, <2>3, ReportedAreTheChanges
  <2>4. ASSUME NEW sz \in Sizes, Resize(sz)
        PROVE  Reported(grid', grid) = Redrawn(grid', grid)
    <3>1. size' = sz /\ grid' = Cropped(grid, sz)
      BY <2>4 DEF Resize
    <3>2. \A r \in DOMAIN grid' : r \in DOMAIN grid =>
            Changed(grid'[r], grid[r], Least(sz.cols, size.cols)) = {}
      BY <2>1, <3>1, CroppedIsSame
    <3> QED
      BY <2>1, <3>1, <3>2, ReportedAreTheChanges
  <2> QED
    BY <2>2, <2>3, <2>4, OnlyResizes
<1> HIDE DEF Finds
<1>2. ScreenSpec => [][Finds]_screenVars
  BY <1>1, InvHolds, PTL DEF ScreenSpec
<1> QED
  BY <1>2 DEF DiffFindsCharacters, Finds
=============================================================================
