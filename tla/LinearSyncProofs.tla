--------------------------- MODULE LinearSyncProofs ----------------------------
(***************************************************************************)
(* Theorems about LinearSync and the database under it (IssueStore), for   *)
(* any issues, sessions, mappings and history of Linear's list.            *)
(***************************************************************************)
EXTENDS LinearSync, SequenceTheorems, TLAPS

N == Len(Statements)

(* What the first n statements leave, whatever the file held before.       *)
Standing(n) ==
  {x \in Latest : \E j \in 1 .. n : /\ x \in Statements[j].adds
                                    /\ \A k \in j + 1 .. n : x \notin Statements[k].drops}

(* An open has done its first step - 1 statements; a closed file may lack  *)
(* anything.                                                               *)
SchemaGrows ==
  /\ step \in 0 .. N + 1
  /\ schema \subseteq Latest
  /\ step > 0 => Standing(step - 1) \subseteq schema

LinkRecord == [session : Sessions, primary : BOOLEAN]
Distinct(q) == \A j, k \in DOMAIN q : q[j].session = q[k].session => j = k

(* A session is linked to an issue at most once.                           *)
LinksTyped ==
  /\ links \in [Issues -> Seq(LinkRecord)]
  /\ \A i \in Issues : Distinct(links[i])

RemoteRecord == [id : ExternalIds, status : ExternalStatuses]

SyncTyped == remote \in Seq(RemoteRecord) /\ cursor \in Nat

IInv == SchemaGrows /\ LinksTyped /\ SyncTyped /\ NothingPassedOver

-----------------------------------------------------------------------------
(* The migrations *)

Raw == {Migration001[k] : k \in 1 .. 6} \cup {Migration002[k] : k \in 1 .. 3}
         \cup {Migration003[k] : k \in 1 .. 3} \cup {Migration004[k] : k \in 1 .. 8}

LEMMA TupleOf3 ==
  ASSUME NEW S, NEW a \in S, NEW b \in S, NEW c \in S
  PROVE  <<a, b, c>> \in Seq(S) /\ Len(<<a, b, c>>) = 3
OBVIOUS

LEMMA TupleOf6 ==
  ASSUME NEW S, NEW a \in S, NEW b \in S, NEW c \in S, NEW d \in S, NEW e \in S, NEW f \in S
  PROVE  <<a, b, c, d, e, f>> \in Seq(S) /\ Len(<<a, b, c, d, e, f>>) = 6
OBVIOUS

LEMMA TupleOf8 ==
  ASSUME NEW S, NEW a \in S, NEW b \in S, NEW c \in S, NEW d \in S, NEW e \in S, NEW f \in S,
         NEW g \in S, NEW h \in S
  PROVE  <<a, b, c, d, e, f, g, h>> \in Seq(S) /\ Len(<<a, b, c, d, e, f, g, h>>) = 8
OBVIOUS

LEMMA MigrationsTyped ==
  /\ Migration001 \in Seq(Raw) /\ Len(Migration001) = 6
  /\ Migration002 \in Seq(Raw) /\ Len(Migration002) = 3
  /\ Migration003 \in Seq(Raw) /\ Len(Migration003) = 3
  /\ Migration004 \in Seq(Raw) /\ Len(Migration004) = 8
<1>1. Migration001 \in Seq(Raw) /\ Len(Migration001) = 6
  <2> DEFINE t ==
        <<Migration001[1], Migration001[2], Migration001[3], Migration001[4],
        Migration001[5], Migration001[6]>>
  <2>1. Migration001 = t
    BY DEF Migration001
  <2>2. \A k \in 1 .. 6 : Migration001[k] \in Raw
    BY DEF Raw
  <2>3. t \in Seq(Raw) /\ Len(t) = 6
    BY <2>2, TupleOf6
  <2> HIDE DEF t
  <2> QED
    BY <2>1, <2>3
<1>2. Migration002 \in Seq(Raw) /\ Len(Migration002) = 3
  <2> DEFINE t ==
        <<Migration002[1], Migration002[2], Migration002[3]>>
  <2>1. Migration002 = t
    BY DEF Migration002
  <2>2. \A k \in 1 .. 3 : Migration002[k] \in Raw
    BY DEF Raw
  <2>3. t \in Seq(Raw) /\ Len(t) = 3
    BY <2>2, TupleOf3
  <2> HIDE DEF t
  <2> QED
    BY <2>1, <2>3
<1>3. Migration003 \in Seq(Raw) /\ Len(Migration003) = 3
  <2> DEFINE t ==
        <<Migration003[1], Migration003[2], Migration003[3]>>
  <2>1. Migration003 = t
    BY DEF Migration003
  <2>2. \A k \in 1 .. 3 : Migration003[k] \in Raw
    BY DEF Raw
  <2>3. t \in Seq(Raw) /\ Len(t) = 3
    BY <2>2, TupleOf3
  <2> HIDE DEF t
  <2> QED
    BY <2>1, <2>3
<1>4. Migration004 \in Seq(Raw) /\ Len(Migration004) = 8
  <2> DEFINE t ==
        <<Migration004[1], Migration004[2], Migration004[3], Migration004[4],
        Migration004[5], Migration004[6], Migration004[7], Migration004[8]>>
  <2>1. Migration004 = t
    BY DEF Migration004
  <2>2. \A k \in 1 .. 8 : Migration004[k] \in Raw
    BY DEF Raw
  <2>3. t \in Seq(Raw) /\ Len(t) = 8
    BY <2>2, TupleOf8
  <2> HIDE DEF t
  <2> QED
    BY <2>1, <2>3
<1> QED
  BY <1>1, <1>2, <1>3, <1>4

LEMMA JoinOfTwo ==
  ASSUME NEW S, NEW s \in Seq(S), NEW t \in Seq(S)
  PROVE  /\ s \o t \in Seq(S) /\ Len(s \o t) = Len(s) + Len(t)
         /\ \A k \in 1 .. Len(s) + Len(t) :
              (s \o t)[k] = IF k <= Len(s) THEN s[k] ELSE t[k - Len(s)]
BY ConcatProperties

(* Only the last migration drops anything, and makes it again later.       *)
LEMMA DropsAreRemade ==
  /\ Statements \in Seq(Raw) /\ N = 20
  /\ \A k \in 1 .. 12 : Statements[k].drops = {}
  /\ \A k \in 1 .. 8 : Statements[12 + k] = Migration004[k]
<1> DEFINE M12 == Migration001 \o Migration002
           M123 == M12 \o Migration003
<1>1. M12 \in Seq(Raw) /\ Len(M12) = 9
      /\ \A k \in 1 .. 9 : M12[k] = IF k <= 6 THEN Migration001[k] ELSE Migration002[k - 6]
  <2>1. /\ M12 \in Seq(Raw) /\ Len(M12) = Len(Migration001) + Len(Migration002)
        /\ \A k \in 1 .. Len(Migration001) + Len(Migration002) :
             M12[k] = IF k <= Len(Migration001) THEN Migration001[k]
                      ELSE Migration002[k - Len(Migration001)]
    BY MigrationsTyped, JoinOfTwo
  <2> HIDE DEF M12
  <2> QED
    BY <2>1, MigrationsTyped
<1>2. M123 \in Seq(Raw) /\ Len(M123) = 12
      /\ \A k \in 1 .. 12 : M123[k] = IF k <= 9 THEN M12[k] ELSE Migration003[k - 9]
  <2>1. /\ M123 \in Seq(Raw) /\ Len(M123) = Len(M12) + Len(Migration003)
        /\ \A k \in 1 .. Len(M12) + Len(Migration003) :
             M123[k] = IF k <= Len(M12) THEN M12[k] ELSE Migration003[k - Len(M12)]
    <3> HIDE DEF M12
    <3> QED
      BY <1>1, MigrationsTyped, JoinOfTwo
  <2> HIDE DEF M12, M123
  <2> QED
    BY <1>1, <2>1, MigrationsTyped
<1>3. Statements \in Seq(Raw) /\ Len(Statements) = 20
      /\ \A k \in 1 .. 20 : Statements[k] = IF k <= 12 THEN M123[k] ELSE Migration004[k - 12]
  <2>1. Statements = M123 \o Migration004
    BY DEF Statements
  <2> HIDE DEF M123
  <2>2. /\ Statements \in Seq(Raw) /\ Len(Statements) = Len(M123) + Len(Migration004)
        /\ \A k \in 1 .. Len(M123) + Len(Migration004) :
             Statements[k] = IF k <= Len(M123) THEN M123[k] ELSE Migration004[k - Len(M123)]
    BY <1>2, <2>1, MigrationsTyped, JoinOfTwo
  <2> QED
    BY <1>2, <2>2, MigrationsTyped
<1>4. /\ \A k \in 1 .. 6 : Migration001[k].drops = {}
      /\ \A k \in 1 .. 3 : Migration002[k].drops = {} /\ Migration003[k].drops = {}
  <2>1. \A k \in 1 .. 6 : k = 1 \/ k = 2 \/ k = 3 \/ k = 4 \/ k = 5 \/ k = 6
    OBVIOUS
  <2>2. \A k \in 1 .. 3 : k = 1 \/ k = 2 \/ k = 3
    OBVIOUS
  <2>3. /\ Migration001[1].drops = {} /\ Migration001[2].drops = {} /\ Migration001[3].drops = {}
        /\ Migration001[4].drops = {} /\ Migration001[5].drops = {} /\ Migration001[6].drops = {}
    BY DEF Migration001, Adds
  <2>4. /\ Migration002[1].drops = {} /\ Migration002[2].drops = {} /\ Migration002[3].drops = {}
        /\ Migration003[1].drops = {} /\ Migration003[2].drops = {} /\ Migration003[3].drops = {}
    BY DEF Migration002, Migration003, Adds
  <2> QED
    BY <2>1, <2>2, <2>3, <2>4
<1>5. \A k \in 1 .. 12 : M123[k].drops = {}
  <2> HIDE DEF M12, M123
  <2> QED
    BY <1>1, <1>2, <1>4
<1> HIDE DEF M12, M123
<1>6. \A k \in 1 .. 8 : 12 + k \in 1 .. 20 /\ ~(12 + k <= 12) /\ (12 + k) - 12 = k
  OBVIOUS
<1> QED
  BY <1>3, <1>5, <1>6 DEF N

LEMMA LatestStands == Standing(N) = Latest
<1>1. /\ Migration004[1].drops = {"uq_issues"} /\ Migration004[2].drops = {"idx_issues_board"}
      /\ "uq_issues" \in Migration004[4].adds /\ "idx_issues_board" \in Migration004[5].adds
      /\ \A k \in 3 .. 8 : Migration004[k].drops = {}
  <2>1. \A k \in 3 .. 8 : k = 3 \/ k = 4 \/ k = 5 \/ k = 6 \/ k = 7 \/ k = 8
    OBVIOUS
  <2>2. /\ Migration004[3].drops = {} /\ Migration004[4].drops = {} /\ Migration004[5].drops = {}
        /\ Migration004[6].drops = {} /\ Migration004[7].drops = {} /\ Migration004[8].drops = {}
    BY DEF Migration004, Adds
  <2>3. /\ Migration004[1].drops = {"uq_issues"} /\ Migration004[2].drops = {"idx_issues_board"}
        /\ "uq_issues" \in Migration004[4].adds /\ "idx_issues_board" \in Migration004[5].adds
    BY DEF Migration004, Adds, Drops
  <2> QED
    BY <2>1, <2>2, <2>3
<1>2. /\ Statements[13] = Migration004[1] /\ Statements[14] = Migration004[2]
      /\ Statements[16] = Migration004[4] /\ Statements[17] = Migration004[5]
      /\ \A k \in 15 .. 20 : Statements[k] = Migration004[k - 12]
  <2>1. \A k \in 15 .. 20 : k - 12 \in 1 .. 8 /\ 12 + (k - 12) = k
    OBVIOUS
  <2> QED
    BY <2>1, DropsAreRemade
<1>3. \A k \in 15 .. 20 : Statements[k].drops = {}
  BY <1>1, <1>2
<1>4. \A k \in 1 .. 20 : k \in 1 .. 12 \/ k = 13 \/ k = 14 \/ k \in 15 .. 20
  OBVIOUS
<1>5. \A x, k : k \in 1 .. 20 /\ x \in Statements[k].drops =>
        (x = "uq_issues" /\ k = 13) \/ (x = "idx_issues_board" /\ k = 14)
  <2>1. SUFFICES ASSUME NEW k \in 1 .. 20, NEW x \in Statements[k].drops
                 PROVE  (x = "uq_issues" /\ k = 13) \/ (x = "idx_issues_board" /\ k = 14)
    OBVIOUS
  <2>2. CASE k \in 1 .. 12
    <3>1. Statements[k].drops = {}
      BY <2>2, DropsAreRemade
    <3> QED
      BY <3>1
  <2>3. CASE k \in 15 .. 20
    BY <1>3, <2>3
  <2>4. CASE k = 13 \/ k = 14
    BY <1>1, <1>2, <2>4
  <2> QED
    BY <1>4, <2>2, <2>3, <2>4
<1>6. ASSUME NEW x \in Latest
      PROVE  \E j \in 1 .. 20 : /\ x \in Statements[j].adds
                                /\ \A k \in j + 1 .. 20 : x \notin Statements[k].drops
  <2>1. CASE x = "uq_issues"
    BY <1>1, <1>2, <1>5, <2>1
  <2>2. CASE x = "idx_issues_board"
    BY <1>1, <1>2, <1>5, <2>2
  <2>3. CASE x # "uq_issues" /\ x # "idx_issues_board"
    <3>1. DOMAIN Statements = 1 .. 20
      BY DropsAreRemade, LenProperties DEF N
    <3>2. PICK j \in 1 .. 20 : x \in Statements[j].adds
      BY <3>1 DEF Latest
    <3> QED
      BY <1>5, <2>3, <3>2
  <2> QED
    BY <2>1, <2>2, <2>3
<1> QED
  BY <1>6, DropsAreRemade DEF Standing

(* One more statement.                                                     *)
LEMMA StandingGrows ==
  ASSUME NEW n \in 1 .. N
  PROVE  Standing(n) \subseteq (Standing(n - 1) \ Statements[n].drops) \cup Statements[n].adds
<1>1. N \in Nat
  BY DropsAreRemade
<1>2. SUFFICES ASSUME NEW x \in Standing(n), x \notin Statements[n].adds
               PROVE  x \in Standing(n - 1) /\ x \notin Statements[n].drops
  OBVIOUS
<1>3. PICK j \in 1 .. n : /\ x \in Statements[j].adds
                          /\ \A k \in j + 1 .. n : x \notin Statements[k].drops
  BY <1>2 DEF Standing
<1>4. j \in 1 .. n - 1 /\ n \in j + 1 .. n
  BY <1>1, <1>2, <1>3
<1> QED
  BY <1>1, <1>2, <1>3, <1>4 DEF Standing

LEMMA AddsAreLatest == \A k \in 1 .. N : Statements[k].adds \subseteq Latest
BY DropsAreRemade, LenProperties DEF Latest, N

-----------------------------------------------------------------------------
(* Steps *)

LEMMA InitIsInOrder == Init => IInv
<1> SUFFICES ASSUME Init PROVE IInv
  OBVIOUS
<1>1. SchemaGrows
  BY DropsAreRemade DEF Init, StoreInit, SchemaGrows
<1>2. LinksTyped
  BY DEF Init, StoreInit, LinksTyped, Distinct
<1>3. SyncTyped /\ NothingPassedOver
  BY DEF Init, SyncTyped, NothingPassedOver
<1> QED
  BY <1>1, <1>2, <1>3 DEF IInv

LEMMA SchemaPreserved ==
  ASSUME SchemaGrows, OpenFile \/ Apply \/ CloseFile \/ UNCHANGED <<schema, step>>
  PROVE  SchemaGrows'
<1> USE DropsAreRemade DEF SchemaGrows
<1>1. CASE OpenFile
  <2>1. Standing(0) = {}
    BY DEF Standing
  <2> QED
    BY <1>1, <2>1 DEF OpenFile
<1>2. CASE Apply
  <2>1. step \in 1 .. N
    BY <1>2, LenProperties DEF Apply, N
  <2>2. /\ schema' = (schema \ Statements[step].drops) \cup Statements[step].adds
        /\ step' = step + 1 /\ step' - 1 = step
    BY <1>2, <2>1 DEF Apply
  <2>3. Standing(step) \subseteq schema'
    <3>1. Standing(step)
            \subseteq (Standing(step - 1) \ Statements[step].drops) \cup Statements[step].adds
      BY <2>1, StandingGrows
    <3>2. Standing(step - 1) \subseteq schema
      BY <2>1
    <3> QED
      BY <2>2, <3>1, <3>2
  <2>4. schema' \subseteq Latest
    BY <2>1, <2>2, AddsAreLatest
  <2> QED
    BY <2>1, <2>2, <2>3, <2>4
<1>3. CASE CloseFile
  BY <1>3 DEF CloseFile
<1>4. CASE UNCHANGED <<schema, step>>
  BY <1>4
<1> QED
  BY <1>1, <1>2, <1>3, <1>4

(* A link replaces the session's own or is the issue's newest.             *)
LEMMA DemotedLinks ==
  ASSUME NEW q \in Seq(LinkRecord), NEW s \in Sessions, Distinct(q)
  PROVE  /\ Demoted(q, s) \in Seq(LinkRecord) /\ Distinct(Demoted(q, s))
         /\ DOMAIN Demoted(q, s) = DOMAIN q
         /\ \A k \in DOMAIN q : /\ Demoted(q, s)[k].session = q[k].session
                                /\ q[k].session # s => ~Demoted(q, s)[k].primary
                                /\ Demoted(q, s)[k].primary => q[k].primary
<1>1. DOMAIN q = 1 .. Len(q) /\ Len(q) \in Nat /\ \A k \in DOMAIN q : q[k] \in LinkRecord
  BY LenProperties
<1>2. \A k \in 1 .. Len(q) :
        (IF q[k].session # s THEN Link(q[k].session, FALSE) ELSE q[k]) \in LinkRecord
  BY <1>1 DEF Link, LinkRecord
<1>3. Demoted(q, s) \in Seq(LinkRecord) /\ DOMAIN Demoted(q, s) = DOMAIN q
  <2> DEFINE d == [k \in 1 .. Len(q) |->
                     IF q[k].session # s THEN Link(q[k].session, FALSE) ELSE q[k]]
  <2>1. Demoted(q, s) = d
    BY <1>1 DEF Demoted
  <2>2. d \in [1 .. Len(q) -> LinkRecord]
    BY <1>2
  <2>3. d \in Seq(LinkRecord) /\ DOMAIN d = 1 .. Len(q)
    <3> HIDE DEF d
    <3> QED
      BY <1>1, <2>2
  <2> QED
    BY <1>1, <2>1, <2>3
<1>4. \A k \in DOMAIN q : /\ Demoted(q, s)[k].session = q[k].session
                          /\ q[k].session # s => ~Demoted(q, s)[k].primary
                          /\ Demoted(q, s)[k].primary => q[k].primary
  BY DEF Demoted, Link
<1>5. Distinct(Demoted(q, s))
  BY <1>3, <1>4 DEF Distinct
<1> QED
  BY <1>3, <1>4, <1>5

(* u is q with the link of s at m.                                         *)
Placed(u, q, s, p, m) ==
  /\ u[m] = Link(s, p)
  /\ DOMAIN u = DOMAIN q \cup {m}
  /\ \A k \in DOMAIN q \ {m} : q[k].session # s /\ u[k] = q[k]

LEMMA UpsertedLinks ==
  ASSUME NEW q \in Seq(LinkRecord), NEW s \in Sessions, NEW p \in BOOLEAN, Distinct(q)
  PROVE  /\ Upserted(q, s, p) \in Seq(LinkRecord) /\ Distinct(Upserted(q, s, p))
         /\ \E m : Placed(Upserted(q, s, p), q, s, p, m)
<1>1. DOMAIN q = 1 .. Len(q) /\ Len(q) \in Nat /\ \A k \in DOMAIN q : q[k] \in LinkRecord
  BY LenProperties
<1>2. Link(s, p) \in LinkRecord /\ Link(s, p).session = s
  BY DEF Link, LinkRecord
<1>3. CASE Linked(q, s)
  <2> DEFINE u == [k \in DOMAIN q |-> IF q[k].session = s THEN Link(s, p) ELSE q[k]]
  <2>1. Upserted(q, s, p) = u
    BY <1>3 DEF Upserted
  <2>2. u \in Seq(LinkRecord) /\ DOMAIN u = DOMAIN q
    BY <1>1, <1>2
  <2>3. \A k \in DOMAIN q : u[k].session = q[k].session
    BY <1>2
  <2>4. PICK m \in DOMAIN q : q[m].session = s
    BY <1>3 DEF Linked
  <2>5. u[m] = Link(s, p) /\ \A k \in DOMAIN q \ {m} : q[k].session # s /\ u[k] = q[k]
    BY <2>4 DEF Distinct
  <2>6. Distinct(u)
    BY <2>2, <2>3 DEF Distinct
  <2>7. DOMAIN u = DOMAIN q \cup {m}
    BY <2>2, <2>4
  <2> HIDE DEF u
  <2> QED
    BY <2>1, <2>2, <2>4, <2>5, <2>6, <2>7 DEF Placed
<1>4. CASE ~Linked(q, s)
  <2> DEFINE u == Append(q, Link(s, p))
  <2>1. Upserted(q, s, p) = u
    BY <1>4 DEF Upserted
  <2>2. /\ u \in Seq(LinkRecord) /\ DOMAIN u = DOMAIN q \cup {Len(q) + 1}
        /\ u[Len(q) + 1] = Link(s, p) /\ \A k \in DOMAIN q : u[k] = q[k]
        /\ Len(q) + 1 \notin DOMAIN q
    <3>1. /\ u \in Seq(LinkRecord) /\ Len(u) = Len(q) + 1
          /\ u[Len(q) + 1] = Link(s, p) /\ \A k \in 1 .. Len(q) : u[k] = q[k]
      BY <1>2, AppendProperties
    <3>2. DOMAIN u = 1 .. Len(q) + 1
      BY <3>1, LenProperties
    <3> QED
      BY <1>1, <3>1, <3>2
  <2> HIDE DEF u
  <2>3. \A k \in DOMAIN q : q[k].session # s
    BY <1>4 DEF Linked
  <2>4. Distinct(u)
    BY <1>2, <2>2, <2>3 DEF Distinct
  <2>5. Placed(u, q, s, p, Len(q) + 1)
    BY <2>2, <2>3 DEF Placed
  <2> QED
    BY <2>1, <2>2, <2>4, <2>5
<1> QED
  BY <1>3, <1>4

LEMMA WithLinkFacts ==
  ASSUME LinksTyped, NEW i \in Issues, NEW s \in Sessions, NEW p \in BOOLEAN
  PROVE  WithLink(i, s, p) \in Seq(LinkRecord) /\ Distinct(WithLink(i, s, p))
<1> DEFINE base == IF p /\ InProgress(i) THEN Demoted(links[i], s) ELSE links[i]
<1>1. base \in Seq(LinkRecord) /\ Distinct(base)
  BY DemotedLinks DEF LinksTyped
<1> HIDE DEF base
<1>2. Upserted(base, s, p) \in Seq(LinkRecord) /\ Distinct(Upserted(base, s, p))
  BY <1>1, UpsertedLinks
<1> QED
  BY <1>2 DEF WithLink, base

LEMMA LinksPreserved ==
  ASSUME LinksTyped,
         UNCHANGED links
           \/ \E i \in Issues, s \in Sessions, p \in BOOLEAN : CreateLink(i, s, p)
  PROVE  LinksTyped'
<1>1. CASE UNCHANGED links
  BY <1>1 DEF LinksTyped
<1>2. ASSUME NEW i \in Issues, NEW s \in Sessions, NEW p \in BOOLEAN, CreateLink(i, s, p)
      PROVE  LinksTyped'
  BY <1>2, WithLinkFacts DEF LinksTyped, CreateLink
<1> QED
  BY <1>1, <1>2

-----------------------------------------------------------------------------
(* The engine *)

LEMMA RemoveAtTyped ==
  ASSUME NEW S, NEW q \in Seq(S), NEW k \in DOMAIN q
  PROVE  RemoveAt(q, k) \in Seq(S)
<1>1. DOMAIN q = 1 .. Len(q) /\ Len(q) \in Nat /\ \A j \in 1 .. Len(q) : q[j] \in S
  BY LenProperties
<1>2. SubSeq(q, 1, k - 1) \in Seq(S) /\ SubSeq(q, k + 1, Len(q)) \in Seq(S)
  BY <1>1, SubSeqProperties
<1> QED
  BY <1>2, ConcatProperties DEF RemoveAt

(* An operation that is done has an outcome.                               *)
LEMMA DoneFacts ==
  ASSUME NEW ops, processed \subseteq DOMAIN outcome,
         processed' = processed \cup (ops \ processed),
         DOMAIN outcome' = DOMAIN outcome \cup (ops \ processed)
  PROVE  /\ processed' \subseteq DOMAIN outcome'
         /\ ops \subseteq DOMAIN outcome'
         /\ DOMAIN outcome \subseteq DOMAIN outcome'
OBVIOUS

(* What Linear does to its list.                                           *)
LEMMA RemotePreserved ==
  ASSUME SyncTyped, NothingPassedOver, RemoteChange
  PROVE  SyncTyped' /\ NothingPassedOver'
<1> USE DEF SyncTyped, NothingPassedOver
<1>1. DOMAIN remote = 1 .. Len(remote) /\ Len(remote) \in Nat
      /\ \A k \in DOMAIN remote : remote[k] \in RemoteRecord
  BY LenProperties
<1>2. UNCHANGED <<cursor, processed, outcome>>
  BY DEF RemoteChange
<1>3. ASSUME NEW x \in ExternalIds, NEW st \in ExternalStatuses,
             remote' = Append(remote, [id |-> x, status |-> st]), UNCHANGED shrunk
      PROVE  SyncTyped' /\ NothingPassedOver'
  <2>1. [id |-> x, status |-> st] \in RemoteRecord
    BY DEF RemoteRecord
  <2>2. /\ remote' \in Seq(RemoteRecord) /\ Len(remote') = Len(remote) + 1
        /\ \A k \in 1 .. Len(remote) : remote'[k] = remote[k]
    BY <1>3, <2>1, AppendProperties
  <2>3. ~shrunk => \A k \in 1 .. cursor : remote'[k] = remote[k]
    BY <1>1, <2>2
  <2> QED
    BY <1>1, <1>2, <1>3, <2>2, <2>3 DEF PullOp
<1>4. ASSUME NEW k \in DOMAIN remote, NEW st \in ExternalStatuses,
             remote' = [remote EXCEPT ![k].status = st], UNCHANGED shrunk
      PROVE  SyncTyped' /\ NothingPassedOver'
  <2>1. remote[k] \in RemoteRecord
    BY <1>1
  <2>2. [remote[k] EXCEPT !.status = st] \in RemoteRecord
        /\ [remote[k] EXCEPT !.status = st].id = remote[k].id
    BY <2>1 DEF RemoteRecord
  <2>3. remote' = [remote EXCEPT ![k] = [remote[k] EXCEPT !.status = st]]
    BY <1>1, <1>4
  <2>4. remote' \in Seq(RemoteRecord) /\ Len(remote') = Len(remote)
    BY <1>1, <2>2, <2>3, ExceptSeq
  <2>5. \A j \in DOMAIN remote : remote'[j].id = remote[j].id
    BY <1>1, <2>2, <2>3
  <2> QED
    BY <1>1, <1>2, <1>4, <2>4, <2>5 DEF PullOp
<1>5. ASSUME NEW k \in DOMAIN remote, remote' = RemoveAt(remote, k), shrunk' = TRUE
      PROVE  SyncTyped' /\ NothingPassedOver'
  BY <1>2, <1>5, RemoveAtTyped
<1> QED
  BY <1>3, <1>4, <1>5 DEF RemoteChange

LEMMA PullPreserved ==
  ASSUME SyncTyped, NothingPassedOver, Pull
  PROVE  SyncTyped' /\ NothingPassedOver'
<1> DEFINE news == SubSeq(remote, cursor + 1, Len(remote))
           ops == {PullOp(x) : x \in Range(news)}
<1>1. /\ processed' = processed \cup (ops \ processed)
      /\ DOMAIN outcome' = DOMAIN outcome \cup (ops \ processed)
      /\ cursor' = Len(remote) /\ UNCHANGED <<remote, shrunk>>
  BY DEF Pull, Done
<1>2. processed \subseteq DOMAIN outcome
  BY DEF NothingPassedOver
<1>3. /\ processed' \subseteq DOMAIN outcome'
      /\ ops \subseteq DOMAIN outcome'
      /\ DOMAIN outcome \subseteq DOMAIN outcome'
  BY <1>1, <1>2, DoneFacts
<1>4. Len(remote) \in Nat /\ \A k \in 1 .. Len(remote) : remote[k] \in RemoteRecord
  BY LenProperties DEF SyncTyped
<1>5. ASSUME NEW k \in 1 .. Len(remote), k > cursor
      PROVE  PullOp(remote[k]) \in ops
  <2>1. /\ Len(news) = Len(remote) - cursor /\ news \in Seq(RemoteRecord)
        /\ \A j \in 1 .. Len(remote) - cursor : news[j] = remote[cursor + j]
    BY <1>4, <1>5, SubSeqProperties DEF SyncTyped
  <2>2. k - cursor \in DOMAIN news /\ news[k - cursor] = remote[k]
    BY <1>4, <1>5, <2>1, LenProperties DEF SyncTyped
  <2>3. remote[k] \in Range(news)
    BY <2>2 DEF Range
  <2> QED
    BY <2>3
<1>6. ~shrunk => \A k \in 1 .. Len(remote) : PullOp(remote[k]) \in DOMAIN outcome'
  BY <1>3, <1>4, <1>5 DEF SyncTyped, NothingPassedOver
<1> QED
  BY <1>1, <1>3, <1>4, <1>6 DEF SyncTyped, NothingPassedOver

LEMMA PushPreserved ==
  ASSUME SyncTyped, NothingPassedOver, Push
  PROVE  SyncTyped' /\ NothingPassedOver'
<1> DEFINE ops == {PushOp(i) : i \in DOMAIN status}
<1>1. /\ processed' = processed \cup (ops \ processed)
      /\ DOMAIN outcome' = DOMAIN outcome \cup (ops \ processed)
      /\ UNCHANGED <<remote, shrunk, cursor>>
  BY DEF Push, Done
<1>2. processed \subseteq DOMAIN outcome
  BY DEF NothingPassedOver
<1>3. processed' \subseteq DOMAIN outcome' /\ DOMAIN outcome \subseteq DOMAIN outcome'
  BY <1>1, <1>2, DoneFacts
<1> QED
  BY <1>1, <1>3 DEF SyncTyped, NothingPassedOver

LEMMA StepKeepsOrder == IInv /\ [Next]_vars => IInv'
<1> SUFFICES ASSUME IInv, [Next]_vars PROVE IInv'
  OBVIOUS
<1>1. SchemaGrows'
  <2>1. OpenFile \/ Apply \/ CloseFile \/ UNCHANGED <<schema, step>>
    BY DEF Next, CreateLink, SetStatus, Restart, SaveProfile, Pull, Push, RemoteChange,
       storeVars, vars
  <2> QED
    BY <2>1, SchemaPreserved DEF IInv
<1>2. LinksTyped'
  <2>1. UNCHANGED links
          \/ \E i \in Issues, s \in Sessions, p \in BOOLEAN : CreateLink(i, s, p)
    BY DEF Next, OpenFile, Apply, CloseFile, SetStatus, Restart, SaveProfile, Pull, Push,
       RemoteChange, storeVars, vars
  <2> QED
    BY <2>1, LinksPreserved DEF IInv
<1>3. SyncTyped' /\ NothingPassedOver'
  <2>1. CASE UNCHANGED <<remote, cursor, processed, outcome, shrunk>>
    BY <2>1 DEF IInv, SyncTyped, NothingPassedOver
  <2>2. CASE Restart
    BY <2>2 DEF Restart, IInv, SyncTyped, NothingPassedOver
  <2>3. CASE Pull \/ Push \/ RemoteChange
    BY <2>3, PullPreserved, PushPreserved, RemotePreserved DEF IInv
  <2> QED
    BY <2>1, <2>2, <2>3 DEF Next, SaveProfile, syncVars, vars
<1> QED
  BY <1>1, <1>2, <1>3 DEF IInv

LEMMA AlwaysInOrder == Spec => []IInv
BY InitIsInOrder, StepKeepsOrder, PTL DEF Spec

-----------------------------------------------------------------------------
(* Theorems *)

(* However many opens were cut off, at whatever statement, an open that    *)
(* finishes leaves every table, column and index of the latest schema      *)
(* (open_and_migrate, apply_all and the four migration files).             *)
THEOREM FinishedOpenIsWhole == Spec => []SchemaIsWhole
<1>1. IInv => SchemaIsWhole
  <2> SUFFICES ASSUME IInv, Open PROVE schema = Latest
    BY DEF SchemaIsWhole
  <2>1. step = N + 1 /\ step - 1 = N /\ step > 0
    BY DropsAreRemade DEF IInv, SchemaGrows, Open, N
  <2> QED
    BY <2>1, LatestStands DEF IInv, SchemaGrows
<1> QED
  BY <1>1, AlwaysInOrder, PTL

(* Whatever Linear lists and changes, with the cursor kept or lost by a    *)
(* restart, every issue below the cursor has been counted or reported,     *)
(* unless the list has become shorter (LinearSyncEngine: pull and push).   *)
THEOREM EveryIssueIsLookedAt == Spec => []NothingPassedOver
<1>1. IInv => NothingPassedOver
  BY DEF IInv
<1> QED
  BY <1>1, AlwaysInOrder, PTL

(* What OnePrimary says of one step.                                       *)
NewStandsAlone(i) ==
  InProgress(i) =>
    \A k \in Primaries(links'[i]) \ Primaries(links[i]) :
      Primaries(links'[i]) = {k} /\ PrimaryForIssue(i)' = {links'[i][k].session}

LEMMA LinkStandsAlone ==
  ASSUME LinksTyped, NEW i \in Issues, NEW s \in Sessions, NEW p \in BOOLEAN,
         InProgress(i), links'[i] = WithLink(i, s, p),
         NEW k \in Primaries(links'[i]) \ Primaries(links[i])
  PROVE  Primaries(links'[i]) = {k}
<1> DEFINE q == links[i]
           base == IF p THEN Demoted(q, s) ELSE q
<1>1. q \in Seq(LinkRecord) /\ Distinct(q)
  BY DEF LinksTyped
<1>2. /\ base \in Seq(LinkRecord) /\ Distinct(base) /\ DOMAIN base = DOMAIN q
      /\ \A j \in DOMAIN q : /\ base[j].session = q[j].session
                             /\ base[j].primary => q[j].primary
                             /\ p /\ q[j].session # s => ~base[j].primary
  <2>1. CASE p
    BY <1>1, <2>1, DemotedLinks
  <2>2. CASE ~p
    BY <1>1, <2>2
  <2> QED
    BY <2>1, <2>2
<1>3. links'[i] = Upserted(base, s, p)
  BY DEF WithLink
<1> HIDE DEF base
<1>4. PICK m : Placed(links'[i], base, s, p, m)
  BY <1>2, <1>3, UpsertedLinks
<1>5. \A j \in DOMAIN q \ {m} : links'[i][j].primary => q[j].primary /\ ~p
  BY <1>2, <1>4 DEF Placed
<1>6. k = m /\ p
  <2>1. k \in DOMAIN q \cup {m} /\ links'[i][k].primary
    BY <1>2, <1>4 DEF Primaries, Placed
  <2>2. k = m
    BY <1>5, <2>1 DEF Primaries
  <2>3. links'[i][m] = Link(s, p)
    BY <1>4 DEF Placed
  <2> QED
    BY <2>1, <2>2, <2>3 DEF Link
<1>7. \A j \in DOMAIN links'[i] : links'[i][j].primary => j = m
  BY <1>2, <1>4, <1>5, <1>6 DEF Placed
<1> QED
  BY <1>6, <1>7 DEF Primaries

LEMMA StepStandsAlone ==
  ASSUME LinksTyped, NEW i \in Issues,
         UNCHANGED links
           \/ \E j \in Issues, s \in Sessions, p \in BOOLEAN : CreateLink(j, s, p)
  PROVE  NewStandsAlone(i)
<1>1. CASE links'[i] = links[i]
  BY <1>1 DEF NewStandsAlone
<1>2. CASE links'[i] # links[i]
  <2>1. PICK s \in Sessions, p \in BOOLEAN : links'[i] = WithLink(i, s, p)
    BY <1>2 DEF CreateLink, LinksTyped
  <2>2. SUFFICES ASSUME InProgress(i), NEW k \in Primaries(links'[i]) \ Primaries(links[i])
                 PROVE  /\ Primaries(links'[i]) = {k}
                        /\ PrimaryForIssue(i)' = {links'[i][k].session}
    BY DEF NewStandsAlone
  <2>3. Primaries(links'[i]) = {k}
    BY <2>1, <2>2, LinkStandsAlone
  <2>4. k \in DOMAIN links'[i] /\ k \in Nat
    <3>1. links'[i] \in Seq(LinkRecord)
      BY <2>1, WithLinkFacts
    <3> QED
      BY <2>2, <3>1, LenProperties DEF Primaries
  <2>5. PrimaryForIssue(i)' = {links'[i][k].session}
    BY <2>3, <2>4 DEF PrimaryForIssue
  <2> QED
    BY <2>3, <2>5
<1> QED
  BY <1>1, <1>2

(* A link made primary while its issue is in progress is the only primary  *)
(* one afterwards and the one that is looked up, whatever links there were *)
(* (IssueSessionLinksStore::create_link and primary_for_issue).            *)
THEOREM NewPrimaryStandsAlone == Spec => OnePrimary
<1>1. IInv /\ [Next]_vars => [\A i \in Issues : NewStandsAlone(i)]_storeVars
  <2> SUFFICES ASSUME IInv, [Next]_vars
               PROVE  \A i \in Issues : NewStandsAlone(i)
    OBVIOUS
  <2>1. UNCHANGED links
          \/ \E i \in Issues, s \in Sessions, p \in BOOLEAN : CreateLink(i, s, p)
    BY DEF Next, OpenFile, Apply, CloseFile, SetStatus, Restart, SaveProfile, Pull, Push,
       RemoteChange, storeVars, vars
  <2> QED
    BY <2>1, StepStandsAlone DEF IInv
<1> QED
  BY <1>1, AlwaysInOrder, PTL DEF Spec, OnePrimary, NewStandsAlone
================================================================================
