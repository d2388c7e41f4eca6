---------------------------- MODULE UserStore_proofs ----------------------------
(***************************************************************************)
(* Proofs about UserStore, for any finite set of people and of handlers,   *)
(* any phones and settings and any bound on the ids.                       *)
(***************************************************************************)
EXTENDS UserStore, FiniteSetTheorems, TLAPS

(***************************************************************************)
(* The inductive invariant.                                                *)
(***************************************************************************)

\* A handler works on an account there is a document or a row for: one that has
\* changed a row finds it until the process ends, and carries a copy with its
\* id and phone; where one is about to add a document that another has added
\* meanwhile, both are copies of the same row.
Placed(j) ==
    /\ j.at \in {"check_phone", "insert"} => j.email \in Emails /\ j.phone \in Phones
    /\ j.at \in {"change", "refresh", "copy", "add"} => j.email \in Emails /\ users[j.email] # None
    /\ j.at \in {"change", "copy", "add", "restore"} => j.held \in Account
    /\ j.at = "change" => j.change \in Change
    /\ j.at \in {"copy", "add"} =>
          /\ j.held.id = users[j.email].id /\ j.held.phone = users[j.email].phone
          /\ j.email \notin parted => j.held = users[j.email]
    /\ j.at = "add" /\ j.email \notin parted /\ copies[j.email] # None =>
          copies[j.email] = users[j.email]
    /\ j.at = "fetch" /\ j.phone = None => j.email \in Emails
    /\ j.at = "restore" => j.email \in Emails /\ copies[j.email] # None

\* The rows do not conflict; the documents are those of the rows as long as
\* each startup could bring them back; and a token's row is there, with the token's
\* id, as long as nothing has parted it from its document.
StoreInv ==
    /\ TypeOK
    /\ \A h \in Handlers : Placed(job[h])
    /\ \A e \in Emails : extras[e] # {} => copies[e] # None
    /\ Consistent(users)
    /\ CopyCurrent
    /\ NothingLeftBehind
    /\ ~failed => \A t \in tokens : t.email \notin parted
                     => users[t.email] # None /\ users[t.email].id = t.id

-----------------------------------------------------------------------------
(* New ids *)

\* Max of a finite set of numbers is the largest of them.
LEMMA MaxFacts ==
    ASSUME NEW S \in SUBSET Int, IsFiniteSet(S), S # {}
    PROVE  Max(S) \in S /\ \A y \in S : Max(S) >= y
<1> DEFINE Above(x) == {y \in S : y > x}
           T == {Above(x) : x \in S}
<1>1. T \subseteq FiniteSubsetsOf(S) /\ T # {}
  <2>1. \A x \in S : Above(x) \in SUBSET S
    OBVIOUS
  <2>2. \A x \in S : IsFiniteSet(Above(x))
    BY <2>1, FS_Subset
  <2> QED BY <2>1, <2>2 DEF FiniteSubsetsOf
<1>2. PICK A \in T : \A B \in T : <<B, A>> \notin StrictSubsetOrdering(S)
  <2> HIDE DEF T
  <2> QED BY <1>1, FS_StrictSubsetOrderingWellFounded, WFMin
<1>3. PICK x \in S : A = Above(x)
  OBVIOUS
<1>4. ASSUME NEW y \in S, y > x PROVE FALSE
  <2>0. x \in Int /\ y \in Int /\ \A z \in S : z \in Int
    OBVIOUS
  <2>1. Above(y) \subseteq A /\ y \in A /\ y \notin Above(y)
    <3>1. \A z \in S : z > y => z > x
      BY <1>4, <2>0
    <3>2. ~(y > y)
      BY <2>0
    <3> QED BY <1>3, <1>4, <3>1, <3>2
  <2>2. Above(y) \in SUBSET S /\ A \in SUBSET S /\ Above(y) \in T
    BY <1>3
  <2>3. <<Above(y), A>> \in StrictSubsetOrdering(S)
    BY <2>1, <2>2 DEF StrictSubsetOrdering
  <2> QED BY <1>2, <2>2, <2>3
<1>5. \A y \in S : x >= y
  BY <1>4
<1> QED BY <1>5 DEF Max

\* The id of a new row is one that no row has.
LEMMA NextIdIsNew ==
    ASSUME TypeOK
    PROVE  NextId \in Nat /\ NextId \notin IdsOf(users)
<1> DEFINE ids == IdsOf(users) \cup {0}
<1>1. IsFiniteSet(ids)
  <2>1. IsFiniteSet(Known(users))
    BY HandlersAssumption, FS_Subset DEF Known
  <2> DEFINE f == [e \in Known(users) |-> users[e].id]
  <2>2. f \in Surjection(Known(users), IdsOf(users))
    <3>1. f \in [Known(users) -> IdsOf(users)]
      BY DEF IdsOf
    <3>2. \A i \in IdsOf(users) : \E e \in Known(users) : f[e] = i
      BY DEF IdsOf
    <3> HIDE DEF f
    <3> QED BY <3>1, <3>2 DEF Surjection
  <2> HIDE DEF f
  <2>3. IsFiniteSet(IdsOf(users))
    BY <2>1, <2>2, FS_Surjection
  <2> QED BY <2>3, FS_AddElement
<1>2. ids \subseteq Nat
  BY DEF TypeOK, IdsOf, Known, Account
<1>3. ids \subseteq Int /\ ids # {}
  BY <1>2
<1> HIDE DEF ids
<1>4. Max(ids) \in ids /\ \A i \in ids : Max(ids) >= i
  BY <1>1, <1>3, MaxFacts
<1>5. Max(ids) + 1 \in Nat /\ Max(ids) + 1 \notin ids
  <2>1. PICK m \in ids : m = Max(ids)
    BY <1>4
  <2>2. m \in Nat /\ \A i \in ids : m >= i
    BY <1>2, <1>4, <2>1
  <2>3. m + 1 \in Nat /\ ~(m >= m + 1)
    BY <2>2
  <2>4. m + 1 \notin ids
    BY <2>2, <2>3
  <2> QED BY <2>1, <2>3, <2>4
<1> QED BY <1>5 DEF NextId, ids

-----------------------------------------------------------------------------
(* Accounts and jobs *)

\* What is used of the types.
LEMMA JobFacts ==
    ASSUME StoreInv, NEW h \in Handlers
    PROVE  /\ job[h] \in Job /\ Placed(job[h])
           /\ job[h].at \in Steps /\ job[h].email \in Emails \cup {None}
           /\ job[h].phone \in Phones \cup {None} /\ job[h].change \in Change \cup {None}
           /\ job[h].held \in Account \cup {None}
BY DEF StoreInv, TypeOK, Job

LEMMA StoreFacts ==
    ASSUME StoreInv, NEW e \in Emails
    PROVE  /\ users[e] \in Account \cup {None} /\ copies[e] \in Account \cup {None}
           /\ e \in Known(users) <=> users[e] # None
           /\ users[e] # None => users[e] \in Account
           /\ copies[e] # None => copies[e] \in Account
BY DEF StoreInv, TypeOK, Known

LEMMA IdleFacts == Idle \in Job /\ Idle.at = "idle"
BY DEF Idle, Job, Steps

LEMMA InitStore == Init => StoreInv
<1> SUFFICES ASSUME Init PROVE StoreInv
  OBVIOUS
<1>1. TypeOK
  BY IdleFacts DEF Init, TypeOK
<1>2. \A h \in Handlers : Placed(job[h])
  BY IdleFacts DEF Init, Placed
<1>3. Known(users) = {} /\ Known(copies) = {}
  BY DEF Init, Known
<1> QED BY <1>1, <1>2, <1>3 DEF Init, StoreInv, Consistent, CopyCurrent, NothingLeftBehind

\* The rows there were stay there with their ids and phones.
RowsStay ==
    \A e \in Emails : users[e] # None =>
        users'[e] # None /\ users'[e].id = users[e].id /\ users'[e].phone = users[e].phone

\* A document that changes becomes the row, if nothing has parted the two.
CopiesFollow ==
    \A e \in Emails : copies'[e] # copies[e] =>
        copies'[e] # None /\ (e \notin parted' => copies'[e] = users'[e])

\* One handler goes to job j; rows and documents are kept, and a row that changes
\* is one that has parted from the copies under way.
LEMMA OneMoves ==
    ASSUME StoreInv, NEW h \in Handlers, NEW j \in Job,
           job' = [job EXCEPT ![h] = j], Placed(j)',
           parted \subseteq parted',
           RowsStay, CopiesFollow,
           \A g \in Handlers \ {h} :
               job[g].at \in {"copy", "add"} /\ job[g].email \notin parted' => users'[job[g].email] = users[job[g].email]
    PROVE  /\ job' \in [Handlers -> Job]
           /\ \A g \in Handlers : job'[g].at \in {"copy", "add", "change", "restore"} => job'[g].held # None
           /\ \A g \in Handlers : Placed(job[g])'
<1>1. \A g \in Handlers : job'[g] = IF g = h THEN j ELSE job[g]
  BY DEF StoreInv, TypeOK
<1>2. job' \in [Handlers -> Job]
  BY DEF StoreInv, TypeOK
<1>3. ASSUME NEW g \in Handlers PROVE Placed(job[g])'
  <2>1. CASE g = h
    BY <1>1, <2>1 DEF Placed
  <2>2. CASE g # h
    <3>1. job'[g] = job[g] /\ Placed(job[g])
      BY <1>1, <2>2, JobFacts
    <3>2. job[g].at \in {"change", "refresh", "copy", "add"} =>
             /\ job[g].email \in Emails /\ users[job[g].email] # None
             /\ users'[job[g].email] # None
             /\ users'[job[g].email].id = users[job[g].email].id
             /\ users'[job[g].email].phone = users[job[g].email].phone
      BY <3>1 DEF Placed, RowsStay
    <3>3. job[g].at \in {"copy", "add"} /\ job[g].email \notin parted' =>
             users'[job[g].email] = users[job[g].email] /\ job[g].held = users[job[g].email]
      BY <2>2, <3>1 DEF Placed
    <3>4. job[g].at = "add" /\ job[g].email \notin parted' /\ copies'[job[g].email] # None =>
             copies'[job[g].email] = users'[job[g].email]
      BY <3>1, <3>2, <3>3 DEF Placed, CopiesFollow
    <3>5. job[g].at = "restore" => job[g].email \in Emails /\ copies'[job[g].email] # None
      BY <3>1 DEF Placed, CopiesFollow
    <3> QED BY <3>1, <3>2, <3>3, <3>4, <3>5 DEF Placed
  <2> QED BY <2>1, <2>2
<1>4. ASSUME NEW g \in Handlers, job'[g].at \in {"copy", "add", "change", "restore"}
      PROVE  job'[g].held # None
  BY <1>3, <1>4, NoneAssumption DEF Placed
<1> QED BY <1>2, <1>3, <1>4

\* Who copies an account when one handler goes to job j.
LEMMA CopyingMoves ==
    ASSUME StoreInv, NEW h \in Handlers, NEW j, job' = [job EXCEPT ![h] = j], NEW e
    PROVE  /\ j.email = e /\ j.at \in {"refresh", "copy", "add"} => h \in Copying(e)'
           /\ job[h].email # e \/ job[h].at \notin {"refresh", "copy", "add"}
                 => (Copying(e)' = {} => Copying(e) = {})
           /\ \A g \in Handlers \ {h} : g \in Copying(e)' <=> g \in Copying(e)
<1>1. \A g \in Handlers : job'[g] = IF g = h THEN j ELSE job[g]
  BY DEF StoreInv, TypeOK
<1> QED BY <1>1 DEF Copying

\* A handler that touches neither store goes on, and does not give up a copy.
LEMMA PlainStep ==
    ASSUME StoreInv, NEW h \in Handlers, NEW j \in Job,
           job' = [job EXCEPT ![h] = j], Placed(j),
           UNCHANGED <<stores, tokens, parted, failed>>,
           job[h].at \in {"refresh", "copy", "add"} => j.at \in {"refresh", "copy", "add"} /\ j.email = job[h].email
    PROVE  StoreInv'
<1>1. Placed(j)'
  BY DEF Placed, stores
<1>2. /\ job' \in [Handlers -> Job]
      /\ \A g \in Handlers : job'[g].at \in {"copy", "add", "change", "restore"} => job'[g].held # None
      /\ \A g \in Handlers : Placed(job[g])'
  <2>1. UNCHANGED <<users, copies>> /\ parted' = parted
    BY DEF stores
  <2>2. RowsStay /\ CopiesFollow
    BY <2>1 DEF RowsStay, CopiesFollow
  <2>3. \A g \in Handlers \ {h} :
          job[g].at \in {"copy", "add"} /\ job[g].email \notin parted' => users'[job[g].email] = users[job[g].email]
    BY <2>1
  <2> QED BY <1>1, <2>1, <2>2, <2>3, OneMoves
<1>3. TypeOK'
  BY <1>2 DEF StoreInv, TypeOK, stores
<1>4. CopyCurrent'
  <2> SUFFICES ASSUME NEW e \in Known(users)' \ parted', Copying(e)' = {}
               PROVE  copies[e] = users[e]
    BY DEF CopyCurrent, stores
  <2>1. e \in Known(users) \ parted
    BY DEF Known, stores
  <2>2. Copying(e) = {}
    BY CopyingMoves
  <2> QED BY <2>1, <2>2 DEF StoreInv, CopyCurrent
<1> QED
  BY <1>2, <1>3, <1>4 DEF StoreInv, Consistent, NothingLeftBehind, Known, stores

-----------------------------------------------------------------------------
(* One lemma for each action *)

LEMMA StepCheckEmail ==
    ASSUME StoreInv, NEW h \in Handlers, NEW e \in Emails, NEW p \in Phones, CheckEmail(h, e, p)
    PROVE  StoreInv'
<1> DEFINE j == [Idle EXCEPT !.at = "check_phone", !.email = e, !.phone = p]
<1>1. /\ job[h] = Idle /\ job' = [job EXCEPT ![h] = j]
      /\ UNCHANGED <<stores, tokens, parted, failed>>
  BY DEF CheckEmail
<1>2. j \in Job /\ j.at = "check_phone" /\ j.email = e /\ j.phone = p
  BY IdleFacts DEF Job, Steps
<1> HIDE DEF j
<1>3. Placed(j)
  BY <1>2 DEF Placed
<1> QED BY <1>1, <1>2, <1>3, IdleFacts, PlainStep

LEMMA StepCheckPhone ==
    ASSUME StoreInv, NEW h \in Handlers, CheckPhone(h) PROVE StoreInv'
<1> DEFINE j == [job[h] EXCEPT !.at = "insert"]
<1>1. /\ job[h].at = "check_phone"
      /\ job' = [job EXCEPT ![h] = Idle] \/ job' = [job EXCEPT ![h] = j]
      /\ UNCHANGED <<stores, tokens, parted, failed>>
  BY DEF CheckPhone, Leave
<1>2. j \in Job /\ j.at = "insert" /\ j.email = job[h].email /\ j.phone = job[h].phone
  BY JobFacts DEF Job, Steps
<1> HIDE DEF j
<1>3. Placed(j) /\ Placed(Idle)
  BY <1>1, <1>2, JobFacts, IdleFacts DEF Placed
<1> QED BY <1>1, <1>2, <1>3, IdleFacts, PlainStep

LEMMA StepAuthenticate ==
    ASSUME StoreInv, NEW h \in Handlers, NEW t \in tokens, NEW c \in Change, Authenticate(h, t, c)
    PROVE  StoreInv'
<1>1. PICK e \in Known(users) :
         job' = [job EXCEPT ![h] = [Idle EXCEPT !.at = "change", !.email = e,
                                               !.change = c, !.held = users[e]]]
  BY DEF Authenticate
<1> DEFINE j == [Idle EXCEPT !.at = "change", !.email = e, !.change = c, !.held = users[e]]
<1>2. job[h] = Idle /\ UNCHANGED <<stores, tokens, parted, failed>>
  BY DEF Authenticate
<1>3. e \in Emails /\ users[e] # None /\ users[e] \in Account
  BY StoreFacts DEF Known
<1>4. j \in Job /\ j.at = "change" /\ j.email = e /\ j.change = c /\ j.held = users[e]
  BY <1>3, IdleFacts DEF Job, Steps
<1> HIDE DEF j
<1>5. Placed(j)
  BY <1>3, <1>4 DEF Placed
<1>6. job' = [job EXCEPT ![h] = j]
  BY <1>1 DEF j
<1> QED BY <1>2, <1>4, <1>5, <1>6, IdleFacts, PlainStep

LEMMA StepRefresh ==
    ASSUME StoreInv, NEW h \in Handlers, Refresh(h) PROVE StoreInv'
<1> DEFINE e == job[h].email
           j == [job[h] EXCEPT !.at = "copy", !.held = users[e]]
<1>1. /\ job[h].at = "refresh" /\ job' = [job EXCEPT ![h] = j]
      /\ UNCHANGED <<stores, tokens, parted, failed>>
  BY DEF Refresh
<1>2. e \in Emails /\ users[e] # None /\ users[e] \in Account
  BY <1>1, JobFacts, StoreFacts DEF Placed
<1>3. j \in Job /\ j.at = "copy" /\ j.email = e /\ j.held = users[e]
  BY <1>2, JobFacts DEF Job, Steps
<1> HIDE DEF j
<1>4. Placed(j)
  BY <1>2, <1>3 DEF Placed
<1> QED BY <1>1, <1>3, <1>4, PlainStep

LEMMA StepUnknown ==
    ASSUME StoreInv, NEW h \in Handlers,
           \/ \E e \in Emails : LoginUnknown(h, e)
           \/ \E p \in Phones : CallUnknown(h, p)
    PROVE  StoreInv'
<1>1. job[h] = Idle /\ UNCHANGED <<stores, tokens, parted, failed>>
  BY DEF LoginUnknown, CallUnknown
<1>2. CASE \E e \in Emails : LoginUnknown(h, e)
  <2>1. PICK e \in Emails : LoginUnknown(h, e)
    BY <1>2
  <2> DEFINE j == [Idle EXCEPT !.at = "fetch", !.email = e]
  <2>2. job' = [job EXCEPT ![h] = j]
    BY <2>1 DEF LoginUnknown
  <2>3. j \in Job /\ j.at = "fetch" /\ j.email = e
    BY IdleFacts DEF Job, Steps
  <2> HIDE DEF j
  <2>4. Placed(j)
    BY <2>3 DEF Placed
  <2> QED BY <1>1, <2>2, <2>3, <2>4, IdleFacts, PlainStep
<1>3. CASE \E p \in Phones : CallUnknown(h, p)
  <2>1. PICK p \in Phones : CallUnknown(h, p)
    BY <1>3
  <2> DEFINE j == [Idle EXCEPT !.at = "fetch", !.phone = p]
  <2>2. job' = [job EXCEPT ![h] = j]
    BY <2>1 DEF CallUnknown
  <2>3. j \in Job /\ j.at = "fetch" /\ j.phone = p
    BY IdleFacts DEF Job, Steps
  <2> HIDE DEF j
  <2>4. Placed(j)
    BY <2>3, NoneAssumption DEF Placed
  <2> QED BY <1>1, <2>2, <2>3, <2>4, IdleFacts, PlainStep
<1> QED BY <1>2, <1>3

LEMMA StepFetch ==
    ASSUME StoreInv, NEW h \in Handlers, Fetch(h) PROVE StoreInv'
<1>1. job[h].at = "fetch" /\ UNCHANGED <<stores, tokens, parted, failed>>
  BY DEF Fetch
<1>2. CASE Leave(h)
  <2>1. Placed(Idle)
    BY IdleFacts DEF Placed
  <2> QED BY <1>1, <1>2, <2>1, IdleFacts, PlainStep DEF Leave
<1>3. ASSUME NEW d \in Sought(job[h]), d.held # None,
             job' = [job EXCEPT ![h].at = "restore", ![h].email = d.email, ![h].held = d.held]
      PROVE  StoreInv'
  <2> DEFINE j == [job[h] EXCEPT !.at = "restore", !.email = d.email, !.held = d.held]
  <2>1. d.email \in Emails /\ d.held \in extras[d.email] \cup {copies[d.email]}
    BY <1>1, JobFacts DEF Sought, Placed
  <2>2. d.held \in Account /\ copies[d.email] # None
    BY <1>3, <2>1 DEF StoreInv, TypeOK
  <2>3. job' = [job EXCEPT ![h] = j]
    BY <1>3 DEF StoreInv, TypeOK
  <2>4. j \in Job /\ j.at = "restore" /\ j.email = d.email /\ j.held = d.held
    BY <2>1, <2>2, JobFacts DEF Job, Steps
  <2> HIDE DEF j
  <2>5. Placed(j)
    BY <2>1, <2>2, <2>4 DEF Placed
  <2> QED BY <1>1, <2>3, <2>4, <2>5, PlainStep
<1> QED BY <1>2, <1>3 DEF Fetch

\* A registration: the account is new, with an id and a phone that no row has.
LEMMA StepInsert ==
    ASSUME StoreInv, NEW h \in Handlers, Insert(h) PROVE StoreInv'
<1> DEFINE e == job[h].email
           p == job[h].phone
           new == [id |-> NextId, phone |-> p, settings |-> [f \in Fields |-> FALSE]]
<1>1. job[h].at = "insert" /\ UNCHANGED <<copies, extras, tokens, failed>>
  BY DEF Insert
<1>2. e \in Emails /\ p \in Phones
  BY <1>1, JobFacts DEF Placed
<1>3. CASE ~MayInsert(e, p)
  <2>1. job' = [job EXCEPT ![h] = Idle] /\ UNCHANGED <<users, parted>>
    BY <1>3 DEF Insert, Leave
  <2>2. Placed(Idle)
    BY IdleFacts DEF Placed
  <2> QED BY <1>1, <2>1, <2>2, IdleFacts, PlainStep DEF stores
<1>4. CASE MayInsert(e, p)
  <2>1. PICK j : j = [job[h] EXCEPT !.at = "refresh"]
    OBVIOUS
  <2>2. /\ users' = [users EXCEPT ![e] = new] /\ job' = [job EXCEPT ![h] = j]
        /\ parted' = PartedByCommit(e)
    BY <1>4, <2>1 DEF Insert
  <2>3. j \in Job /\ j.at = "refresh" /\ j.email = e
    BY <2>1, JobFacts DEF Job, Steps
  <2>4. users[e] = None /\ p \notin PhonesOf(users)
    BY <1>4 DEF MayInsert
  <2>5. NextId \in Nat /\ NextId \notin IdsOf(users)
    BY NextIdIsNew DEF StoreInv
  <2>6. new \in Account /\ new.id = NextId /\ new.phone = p /\ new # None
    <3>1. new \in Account
      BY <1>2, <2>5 DEF Account
    <3> QED BY <3>1, NoneAssumption
  <2> HIDE DEF new
  <2>7. \A d \in Emails : users'[d] = IF d = e THEN new ELSE users[d]
    BY <2>2 DEF StoreInv, TypeOK
  <2>8. parted \subseteq parted' /\ parted' \subseteq Emails
    BY <1>2, <2>2 DEF PartedByCommit, StoreInv, TypeOK
  <2>9. Placed(j)'
    BY <1>2, <2>3, <2>6, <2>7 DEF Placed
  <2>10. \A g \in Handlers : job[g].at \in {"copy", "add"} => job[g].email \in Emails /\ job[g].email # e
    BY <2>4, JobFacts DEF Placed
  <2>11. /\ job' \in [Handlers -> Job]
         /\ \A g \in Handlers : job'[g].at \in {"copy", "add", "change", "restore"} => job'[g].held # None
         /\ \A g \in Handlers : Placed(job[g])'
    <3>1. RowsStay /\ CopiesFollow
      BY <1>1, <2>4, <2>7 DEF RowsStay, CopiesFollow
    <3>2. \A g \in Handlers \ {h} :
            job[g].at \in {"copy", "add"} /\ job[g].email \notin parted' => users'[job[g].email] = users[job[g].email]
      BY <2>7, <2>10
    <3> QED BY <2>2, <2>3, <2>8, <2>9, <3>1, <3>2, OneMoves
  <2>12. TypeOK'
    <3>1. users' \in [Emails -> Account \cup {None}]
      BY <1>2, <2>2, <2>6 DEF StoreInv, TypeOK
    <3> QED BY <1>1, <2>8, <2>11, <3>1 DEF StoreInv, TypeOK
  <2>13. Consistent(users)'
    <3> SUFFICES ASSUME NEW c \in Known(users)', NEW d \in Known(users)', c # d
                 PROVE  users'[c].id # users'[d].id /\ users'[c].phone # users'[d].phone
      BY DEF Consistent
    <3>1. c \in Emails /\ d \in Emails
      BY DEF Known
    <3>2. \A b \in Emails \ {e} : b \in Known(users)' => /\ b \in Known(users)
                                                         /\ users[b].id \in IdsOf(users)
                                                         /\ users[b].phone \in PhonesOf(users)
      BY <2>7 DEF Known, IdsOf, PhonesOf
    <3>3. CASE c # e /\ d # e
      BY <2>7, <3>1, <3>2, <3>3 DEF StoreInv, Consistent
    <3>4. CASE c = e \/ d = e
      BY <2>4, <2>5, <2>6, <2>7, <3>1, <3>2, <3>4
    <3> QED BY <3>3, <3>4
  <2>14. CopyCurrent'
    <3> SUFFICES ASSUME NEW d \in Known(users)' \ parted', Copying(d)' = {}
                 PROVE  copies[d] = users'[d]
      BY <1>1 DEF CopyCurrent
    <3>1. d # e
      BY <2>2, <2>3, CopyingMoves
    <3>2. d \in Known(users) \ parted /\ users'[d] = users[d]
      BY <2>7, <2>8, <3>1 DEF Known
    <3>3. Copying(d) = {}
      BY <1>1, <2>2, CopyingMoves
    <3> QED BY <3>2, <3>3 DEF StoreInv, CopyCurrent
  <2>15. NothingLeftBehind'
    <3> SUFFICES ASSUME ~failed, NEW d \in Known(copies)
                 PROVE  users'[d] # None /\ users'[d].id = copies[d].id /\ users'[d].phone = copies[d].phone
      BY <1>1 DEF NothingLeftBehind, Known
    <3>1. d \in Emails /\ users[d] # None /\ users[d].id = copies[d].id /\ users[d].phone = copies[d].phone
      BY DEF StoreInv, NothingLeftBehind, Known
    <3> QED BY <2>4, <2>7, <3>1
  <2>16. ASSUME ~failed', NEW t \in tokens', t.email \notin parted'
         PROVE  users'[t.email] # None /\ users'[t.email].id = t.id
    <3>1. t.email \in Emails /\ users[t.email] # None /\ users[t.email].id = t.id
      BY <1>1, <2>8, <2>16 DEF StoreInv, TypeOK
    <3> QED BY <2>4, <2>7, <3>1
  <2>17. \A d \in Emails : extras'[d] # {} => copies'[d] # None
    BY <1>1 DEF StoreInv
  <2> QED BY <2>11, <2>12, <2>13, <2>14, <2>15, <2>16, <2>17 DEF StoreInv
<1> QED BY <1>3, <1>4

\* A change of preferences: the row keeps its id and its phone, and its copy is
\* still to be made.
LEMMA StepCommitChange ==
    ASSUME StoreInv, NEW h \in Handlers, CommitChange(h) PROVE StoreInv'
<1> DEFINE e == job[h].email
           c == job[h].change
<1>1. PICK j : j = [job[h] EXCEPT !.at = "refresh"]
  OBVIOUS
<1>2. /\ job[h].at = "change" /\ job' = [job EXCEPT ![h] = j] /\ UNCHANGED <<copies, extras, tokens, failed>>
      /\ users' = users \/ users' = [users EXCEPT ![e].settings[c.field] = c.value]
      /\ parted' = PartedByCommit(e)
  BY <1>1 DEF CommitChange
<1>3. e \in Emails /\ users[e] \in Account /\ users[e] # None /\ c \in Change
  BY <1>2, JobFacts, StoreFacts DEF Placed
<1>4. j \in Job /\ j.at = "refresh" /\ j.email = e
  BY <1>1, JobFacts DEF Job, Steps
<1>5. /\ users'[e] \in Account /\ users'[e].id = users[e].id /\ users'[e].phone = users[e].phone
      /\ \A d \in Emails \ {e} : users'[d] = users[d]
  <2>1. CASE users' = users
    BY <1>3, <2>1
  <2>2. CASE users' = [users EXCEPT ![e].settings[c.field] = c.value]
    <3> DEFINE new == [users[e] EXCEPT !.settings[c.field] = c.value]
    <3>1. users'[e] = new /\ \A d \in Emails \ {e} : users'[d] = users[d]
      BY <1>3, <2>2 DEF StoreInv, TypeOK
    <3>2. c.field \in Fields /\ c.value \in BOOLEAN
      BY <1>3 DEF Change
    <3>3. new \in Account /\ new.id = users[e].id /\ new.phone = users[e].phone
      BY <1>3, <3>2 DEF Account
    <3> QED BY <3>1, <3>3
  <2> QED BY <1>2, <2>1, <2>2
<1>6. users'[e] # None
  BY <1>5, NoneAssumption
<1>7. parted \subseteq parted' /\ parted' \subseteq Emails
  BY <1>2, <1>3 DEF PartedByCommit, StoreInv, TypeOK
<1>8. Placed(j)'
  BY <1>3, <1>4, <1>6 DEF Placed
<1>9. \A g \in Handlers : job[g].at \in {"copy", "add"} /\ job[g].email \notin parted'
          => users'[job[g].email] = users[job[g].email]
  <2>1. \A g \in Handlers : job[g].at \in {"copy", "add"} /\ job[g].email = e => e \in parted'
    BY <1>2 DEF PartedByCommit, Copying
  <2>2. \A g \in Handlers : job[g].at \in {"copy", "add"} => job[g].email \in Emails
    BY JobFacts DEF Placed
  <2> QED BY <1>5, <2>1, <2>2
<1>10. /\ job' \in [Handlers -> Job]
       /\ \A g \in Handlers : job'[g].at \in {"copy", "add", "change", "restore"} => job'[g].held # None
       /\ \A g \in Handlers : Placed(job[g])'
  <2>1. RowsStay /\ CopiesFollow
    BY <1>2, <1>5, <1>6 DEF RowsStay, CopiesFollow
  <2> QED BY <1>2, <1>4, <1>7, <1>8, <1>9, <2>1, OneMoves
<1>11. TypeOK'
  <2>1. users' \in [Emails -> Account \cup {None}]
    <3>1. DOMAIN users' = Emails /\ users' = [d \in Emails |-> users'[d]]
      BY <1>2 DEF StoreInv, TypeOK
    <3>2. \A d \in Emails : users'[d] \in Account \cup {None}
      BY <1>5, StoreFacts
    <3> QED BY <3>1, <3>2
  <2> QED BY <1>2, <1>7, <1>10, <2>1 DEF StoreInv, TypeOK
<1>12. Known(users)' = Known(users)
  BY <1>3, <1>5, <1>6 DEF Known
<1>13. \A d \in Emails : users'[d].id = users[d].id /\ users'[d].phone = users[d].phone
  BY <1>5
<1>14. Consistent(users)'
  BY <1>12, <1>13 DEF StoreInv, Consistent, Known
<1>15. CopyCurrent'
  <2> SUFFICES ASSUME NEW d \in Known(users)' \ parted', Copying(d)' = {}
               PROVE  copies[d] = users'[d]
    BY <1>2 DEF CopyCurrent
  <2>1. d # e
    BY <1>2, <1>4, CopyingMoves
  <2>2. d \in Known(users) \ parted /\ users'[d] = users[d]
    BY <1>5, <1>7, <1>12, <2>1 DEF Known
  <2>3. Copying(d) = {}
    BY <1>2, CopyingMoves
  <2> QED BY <2>2, <2>3 DEF StoreInv, CopyCurrent
<1>16. NothingLeftBehind'
  <2> SUFFICES ASSUME ~failed, NEW d \in Known(copies)
               PROVE  users'[d] # None /\ users'[d].id = copies[d].id /\ users'[d].phone = copies[d].phone
    BY <1>2 DEF NothingLeftBehind, Known
  <2>1. d \in Emails /\ users[d] # None /\ users[d].id = copies[d].id /\ users[d].phone = copies[d].phone
    BY DEF StoreInv, NothingLeftBehind, Known
  <2> QED BY <1>5, <1>6, <2>1
<1>17. ASSUME ~failed', NEW t \in tokens', t.email \notin parted'
       PROVE  users'[t.email] # None /\ users'[t.email].id = t.id
  <2>1. t.email \in Emails /\ users[t.email] # None /\ users[t.email].id = t.id
    BY <1>2, <1>7, <1>17 DEF StoreInv, TypeOK
  <2> QED BY <1>5, <1>6, <2>1
<1>18. \A d \in Emails : extras'[d] # {} => copies'[d] # None
  BY <1>2 DEF StoreInv
<1> QED BY <1>10, <1>11, <1>14, <1>15, <1>16, <1>17, <1>18 DEF StoreInv

\* Without a document to replace, one is going to be added.
LEMMA StepFind ==
    ASSUME StoreInv, NEW h \in Handlers, Copy(h), copies[job[h].email] = None PROVE StoreInv'
<1> DEFINE j == [job[h] EXCEPT !.at = "add"]
<1>1. /\ job[h].at = "copy" /\ job' = [job EXCEPT ![h] = j]
      /\ UNCHANGED <<stores, tokens, parted, failed>>
  BY DEF Copy, stores
<1>2. /\ j \in Job /\ j.at = "add" /\ j.email = job[h].email /\ j.held = job[h].held
  BY JobFacts DEF Job, Steps
<1> HIDE DEF j
<1>3. Placed(j)
  BY <1>1, <1>2, JobFacts DEF Placed
<1> QED BY <1>1, <1>2, <1>3, PlainStep

\* A copy is written, or beside another copy of the same row, or not at all:
\* then the account has parted from its document.
LEMMA StepCopy ==
    ASSUME StoreInv, NEW h \in Handlers,
           (Copy(h) /\ copies[job[h].email] # None) \/ Add(h) \/ CopyFails(h)
    PROVE  StoreInv'
<1> DEFINE e == job[h].email
           held == job[h].held
<1>1. /\ job[h].at \in {"copy", "add"} /\ job' = [job EXCEPT ![h] = Idle]
      /\ UNCHANGED <<users, tokens, failed>>
      /\ \/ copies' = [copies EXCEPT ![e] = held] /\ UNCHANGED <<extras, parted>>
         \/ /\ job[h].at = "add" /\ copies[e] # None /\ UNCHANGED <<copies, parted>>
            /\ extras' = [extras EXCEPT ![e] = @ \cup {Plain(held)}]
         \/ UNCHANGED <<copies, extras>> /\ parted' = parted \cup {e}
  BY DEF Copy, Add, CopyFails, Leave, stores
<1>2. /\ e \in Emails /\ users[e] # None /\ held \in Account
      /\ held.id = users[e].id /\ held.phone = users[e].phone
      /\ e \notin parted => held = users[e]
  BY <1>1, JobFacts DEF Placed
<1>3. \A d \in Emails : copies'[d] = copies[d] \/ (d = e /\ copies'[d] = held /\ UNCHANGED parted)
  BY <1>1 DEF StoreInv, TypeOK
<1>4. parted \subseteq parted' /\ parted' \subseteq Emails
  BY <1>1, <1>2 DEF StoreInv, TypeOK
<1>5. Placed(Idle)'
  BY IdleFacts DEF Placed
<1>6. /\ job' \in [Handlers -> Job]
      /\ \A g \in Handlers : job'[g].at \in {"copy", "add", "change", "restore"} => job'[g].held # None
      /\ \A g \in Handlers : Placed(job[g])'
  <2>1. held # None
    BY <1>2, NoneAssumption
  <2>2. RowsStay /\ CopiesFollow
    <3>1. RowsStay
      BY <1>1 DEF RowsStay
    <3>2. ASSUME NEW d \in Emails, copies'[d] # copies[d]
          PROVE  copies'[d] # None /\ (d \notin parted' => copies'[d] = users'[d])
      BY <1>1, <1>2, <1>3, <2>1, <3>2
    <3> QED BY <3>1, <3>2 DEF CopiesFollow
  <2>3. \A g \in Handlers \ {h} :
          job[g].at \in {"copy", "add"} /\ job[g].email \notin parted' => users'[job[g].email] = users[job[g].email]
    BY <1>1
  <2> QED BY <1>1, <1>4, <1>5, <2>2, <2>3, IdleFacts, OneMoves
<1>7. TypeOK' /\ \A d \in Emails : extras'[d] # {} => copies'[d] # None
  <2>1. copies' \in [Emails -> Account \cup {None}]
    BY <1>1, <1>2 DEF StoreInv, TypeOK
  <2>2. Plain(held) \in Account
    BY <1>2 DEF Plain, Account
  <2>3. extras' \in [Emails -> SUBSET Account]
    BY <1>1, <1>2, <2>2 DEF StoreInv, TypeOK
  <2>4. ASSUME NEW d \in Emails, extras'[d] # {} PROVE copies'[d] # None
    <3>1. extras[d] # {} \/ (d = e /\ copies[e] # None)
      BY <1>1, <2>4 DEF StoreInv, TypeOK
    <3> QED BY <1>2, <1>3, <3>1, NoneAssumption DEF StoreInv
  <2> QED BY <1>1, <1>4, <1>6, <2>1, <2>3, <2>4 DEF StoreInv, TypeOK
<1>8. CopyCurrent'
  <2> SUFFICES ASSUME NEW d \in Known(users)' \ parted', Copying(d)' = {}
               PROVE  copies'[d] = users[d]
    BY <1>1 DEF CopyCurrent
  <2>1. d \in Known(users) \ parted /\ d \in Emails
    BY <1>1, <1>4 DEF Known
  <2>2. CASE d = e
    <3>1. e \notin parted' /\ e \notin parted
      BY <2>1, <2>2
    <3>2. CASE copies' = [copies EXCEPT ![e] = held]
      <4>1. copies'[e] = held
        BY <1>2, <3>2 DEF StoreInv, TypeOK
      <4> QED BY <1>2, <2>2, <3>1, <4>1
    <3>3. CASE job[h].at = "add" /\ copies[e] # None /\ copies' = copies
      BY <2>2, <3>1, <3>3, JobFacts DEF Placed
    <3> QED BY <1>1, <3>1, <3>2, <3>3
  <2>3. CASE d # e
    <3>1. Copying(d) = {}
      BY <1>1, <2>3, CopyingMoves
    <3> QED BY <1>3, <2>1, <2>3, <3>1 DEF StoreInv, CopyCurrent
  <2> QED BY <2>2, <2>3
<1>9. NothingLeftBehind'
  <2> SUFFICES ASSUME ~failed, NEW d \in Known(copies)'
               PROVE  users[d] # None /\ users[d].id = copies'[d].id /\ users[d].phone = copies'[d].phone
    BY <1>1 DEF NothingLeftBehind
  <2>1. d \in Emails /\ copies'[d] # None
    BY DEF Known
  <2>2. CASE copies'[d] = copies[d]
    BY <2>1, <2>2 DEF StoreInv, NothingLeftBehind, Known
  <2> QED BY <1>2, <1>3, <2>1, <2>2
<1>10. Consistent(users)' /\
       (~failed' => \A t \in tokens' : t.email \notin parted'
                     => users'[t.email] # None /\ users'[t.email].id = t.id)
  BY <1>1, <1>4 DEF StoreInv, Consistent, Known
<1> QED BY <1>6, <1>7, <1>8, <1>9, <1>10 DEF StoreInv

LEMMA StepLogin ==
    ASSUME StoreInv, NEW e \in Emails, Login(e) PROVE StoreInv'
<1>1. /\ users[e] # None /\ tokens' = tokens \cup {[id |-> users[e].id, email |-> e]}
      /\ UNCHANGED <<users, copies, extras, job, parted, failed>>
  BY DEF Login, stores
<1>2. users[e] \in Account
  BY <1>1, StoreFacts
<1>3. [id |-> users[e].id, email |-> e] \in [id : Nat, email : Emails]
  BY <1>2 DEF Account
<1>4. TypeOK'
  BY <1>1, <1>3 DEF StoreInv, TypeOK
<1>5. ~failed => \A t \in tokens' : t.email \notin parted
          => users[t.email] # None /\ users[t.email].id = t.id
  BY <1>1 DEF StoreInv
<1>6. \A h \in Handlers : Placed(job[h])'
  BY <1>1 DEF StoreInv, Placed
<1>7. Consistent(users)' /\ CopyCurrent' /\ NothingLeftBehind'
  BY <1>1 DEF StoreInv, Consistent, CopyCurrent, NothingLeftBehind, Known, Copying
<1> QED BY <1>1, <1>4, <1>5, <1>6, <1>7 DEF StoreInv

\* A document becomes a row: one that was left behind, because a startup could
\* not read it.
LEMMA StepRestore ==
    ASSUME StoreInv, NEW h \in Handlers, NEW granted \in BOOLEAN, Restore(h, granted)
    PROVE  StoreInv'
<1> DEFINE e == job[h].email
           held == job[h].held
           row == Revived(job[h])
<1>1. /\ job[h].at = "restore" /\ job' = [job EXCEPT ![h] = Idle] /\ UNCHANGED <<copies, extras, failed>>
  BY DEF Restore, Leave
<1>2. e \in Emails /\ held \in Account /\ copies[e] # None
  BY <1>1, JobFacts DEF Placed
<1>3. row \in Account /\ row # None
  <2>1. row \in Account
    BY <1>2 DEF Revived, Plain, Account
  <2> QED BY <2>1, NoneAssumption
<1>4. Placed(Idle)'
  BY IdleFacts DEF Placed
<1>5. CASE UNCHANGED <<users, tokens, parted>>
  <2>1. Placed(Idle)
    BY IdleFacts DEF Placed
  <2> QED BY <1>1, <1>5, <2>1, IdleFacts, PlainStep DEF stores
<1>6. CASE /\ MayInsert(e, row.phone) /\ row.id \notin IdsOf(users)
           /\ users' = [users EXCEPT ![e] = row]
           /\ tokens' = tokens \cup
                {t \in {[id |-> row.id, email |-> e]} : granted /\ job[h].phone = None}
           /\ parted' = parted \cup {d \in {e} : row # copies[e]}
  <2> HIDE DEF row
  <2>1. users[e] = None /\ row.phone \notin PhonesOf(users)
    BY <1>6 DEF MayInsert
  <2>2. \A d \in Emails : users'[d] = IF d = e THEN row ELSE users[d]
    BY <1>6 DEF StoreInv, TypeOK
  <2>3. parted \subseteq parted' /\ parted' \subseteq Emails
    BY <1>2, <1>6 DEF StoreInv, TypeOK
  <2>4. failed
    <3>1. e \in Known(copies)
      BY <1>2 DEF Known
    <3> QED BY <2>1, <3>1 DEF StoreInv, NothingLeftBehind
  <2>5. \A g \in Handlers : job[g].at \in {"copy", "add"} => job[g].email \in Emails /\ job[g].email # e
    BY <2>1, JobFacts DEF Placed
  <2>6. /\ job' \in [Handlers -> Job]
        /\ \A g \in Handlers : job'[g].at \in {"copy", "add", "change", "restore"} => job'[g].held # None
        /\ \A g \in Handlers : Placed(job[g])'
    <3>1. RowsStay /\ CopiesFollow
      BY <1>1, <2>1, <2>2 DEF RowsStay, CopiesFollow
    <3>2. \A g \in Handlers \ {h} :
            job[g].at \in {"copy", "add"} /\ job[g].email \notin parted' => users'[job[g].email] = users[job[g].email]
      BY <2>2, <2>5
    <3> QED BY <1>1, <1>4, <2>3, <3>1, <3>2, IdleFacts, OneMoves
  <2>7. TypeOK'
    <3>1. users' \in [Emails -> Account \cup {None}]
      BY <1>2, <1>3, <1>6 DEF StoreInv, TypeOK
    <3>2. [id |-> row.id, email |-> e] \in [id : Nat, email : Emails]
      BY <1>2, <1>3 DEF Account
    <3>3. \A t \in tokens' : t \in [id : Nat, email : Emails]
      BY <1>6, <3>2 DEF StoreInv, TypeOK
    <3> QED BY <1>1, <2>3, <2>6, <3>1, <3>3 DEF StoreInv, TypeOK
  <2>8. Consistent(users)'
    <3> SUFFICES ASSUME NEW c \in Known(users)', NEW d \in Known(users)', c # d
                 PROVE  users'[c].id # users'[d].id /\ users'[c].phone # users'[d].phone
      BY DEF Consistent
    <3>1. c \in Emails /\ d \in Emails
      BY DEF Known
    <3>2. \A b \in Emails \ {e} : b \in Known(users)' => /\ b \in Known(users)
                                                         /\ users[b].id \in IdsOf(users)
                                                         /\ users[b].phone \in PhonesOf(users)
      BY <2>2 DEF Known, IdsOf, PhonesOf
    <3>3. CASE c # e /\ d # e
      BY <2>2, <3>1, <3>2, <3>3 DEF StoreInv, Consistent
    <3>4. CASE c = e \/ d = e
      BY <1>6, <2>1, <2>2, <3>1, <3>2, <3>4
    <3> QED BY <3>3, <3>4
  <2>9. CopyCurrent'
    <3> SUFFICES ASSUME NEW d \in Known(users)' \ parted', Copying(d)' = {}
                 PROVE  copies[d] = users'[d]
      BY <1>1 DEF CopyCurrent
    <3>1. CASE d = e
      BY <1>2, <1>6, <2>1, <2>2, <3>1
    <3>2. CASE d # e
      <4>1. d \in Known(users) \ parted /\ users'[d] = users[d]
        BY <2>2, <2>3, <3>2 DEF Known
      <4>2. Copying(d) = {}
        BY <1>1, CopyingMoves
      <4> QED BY <4>1, <4>2 DEF StoreInv, CopyCurrent
    <3> QED BY <3>1, <3>2
  <2> QED BY <1>1, <2>4, <2>6, <2>7, <2>8, <2>9 DEF StoreInv, NothingLeftBehind
<1> QED BY <1>5, <1>6 DEF Restore

\* What a restart leaves: a row that was kept or brought back; with every
\* startup reading the documents, all the rows or all the documents.
LEMMA Restarted ==
    ASSUME StoreInv, NEW lost \in BOOLEAN, NEW readable \in BOOLEAN, Restart(lost, readable)
    PROVE  /\ users' \in [Emails -> Account \cup {None}]
           /\ Consistent(users')
           /\ \A e \in Emails : users'[e] = users[e] \/ users'[e] = copies[e] \/ users'[e] = None
           /\ ~failed' => /\ ~failed
                         /\ \/ \A e \in Emails : users'[e] = users[e]
                            \/ \A e \in Emails : users'[e] = copies[e]
           /\ parted' = parted \cup {e \in Emails : Copying(e) # {}}
           /\ \A h \in Handlers : job'[h] = Idle
           /\ job' \in [Handlers -> Job]
           /\ UNCHANGED <<copies, extras, tokens>>
<1> DEFINE kept == IF lost THEN [e \in Emails |-> None] ELSE users
           all == [e \in Emails |-> IF kept[e] = None THEN copies[e] ELSE kept[e]]
<1>1. /\ users' = IF readable THEN Restored(kept) ELSE kept
      /\ parted' = parted \cup {e \in Emails : Copying(e) # {}}
      /\ failed' = (failed \/ ~readable \/ Doubled(kept))
      /\ job' = [h \in Handlers |-> Idle] /\ UNCHANGED <<copies, extras, tokens>>
  BY DEF Restart
<1>2. Restored(kept) = IF Consistent(all) /\ ~Doubled(kept) THEN all ELSE kept
  BY DEF Restored
<1>3. kept \in [Emails -> Account \cup {None}] /\ all \in [Emails -> Account \cup {None}]
  BY DEF StoreInv, TypeOK
<1>4. Consistent(kept)
  BY DEF StoreInv, Consistent, Known
<1>5. \A e \in Emails : kept[e] = users[e] \/ kept[e] = None
  OBVIOUS
<1>6. \A e \in Emails : all[e] = kept[e] \/ all[e] = copies[e]
  OBVIOUS
<1>7. ASSUME ~failed PROVE Consistent(copies)
  BY <1>7 DEF StoreInv, NothingLeftBehind, Consistent, Known
<1>8. ASSUME lost PROVE all = copies
  BY <1>8 DEF StoreInv, TypeOK
<1>9. ASSUME ~failed, ~lost PROVE all = users
  BY <1>9 DEF StoreInv, TypeOK, NothingLeftBehind, Known
<1>10. ~lost => kept = users
  OBVIOUS
<1> HIDE DEF kept, all
<1>11. users' = kept \/ (users' = all /\ Consistent(all))
  BY <1>1, <1>2
<1>12. ASSUME ~failed'
       PROVE  ~failed /\ (users' = users \/ users' = copies)
  <2>1. ~failed /\ readable /\ ~Doubled(kept)
    BY <1>1, <1>12
  <2>2. CASE lost
    BY <1>1, <1>2, <1>7, <1>8, <2>1, <2>2
  <2>3. CASE ~lost
    BY <1>1, <1>2, <1>9, <1>10, <2>1, <2>3
  <2> QED BY <2>1, <2>2, <2>3
<1>13. \A e \in Emails : users'[e] = users[e] \/ users'[e] = copies[e] \/ users'[e] = None
  BY <1>5, <1>6, <1>11
<1> QED BY <1>1, <1>3, <1>4, <1>11, <1>12, <1>13, IdleFacts

LEMMA StepRestart ==
    ASSUME StoreInv, NEW lost \in BOOLEAN, NEW readable \in BOOLEAN, Restart(lost, readable)
    PROVE  StoreInv'
<1>1. /\ \A e \in Emails : users'[e] = users[e] \/ users'[e] = copies[e] \/ users'[e] = None
      /\ ~failed' => /\ ~failed
                    /\ \/ \A e \in Emails : users'[e] = users[e]
                       \/ \A e \in Emails : users'[e] = copies[e]
      /\ parted' = parted \cup {e \in Emails : Copying(e) # {}}
      /\ \A h \in Handlers : job'[h] = Idle
      /\ UNCHANGED <<copies, extras, tokens>>
  BY Restarted
<1>2. \A e \in Emails : e \notin parted' => e \notin parted /\ Copying(e) = {}
  BY <1>1
<1>3. \A e \in Emails : e \notin parted' /\ users[e] # None => copies[e] = users[e]
  BY <1>2 DEF StoreInv, CopyCurrent, Known
<1>4. TypeOK'
  <2>1. failed' \in BOOLEAN
    BY DEF Restart
  <2>2. parted' \subseteq Emails
    BY <1>1 DEF StoreInv, TypeOK
  <2> QED BY <1>1, <2>1, <2>2, Restarted, IdleFacts DEF StoreInv, TypeOK
<1>5. \A h \in Handlers : Placed(job[h])'
  BY <1>1, IdleFacts DEF Placed
<1>6. CopyCurrent'
  <2> SUFFICES ASSUME NEW e \in Known(users)' \ parted'
               PROVE  copies[e] = users'[e]
    BY <1>1 DEF CopyCurrent
  <2> QED BY <1>1, <1>3 DEF Known
<1>7. NothingLeftBehind'
  <2> SUFFICES ASSUME ~failed', NEW e \in Known(copies)
               PROVE  users'[e] # None /\ users'[e].id = copies[e].id /\ users'[e].phone = copies[e].phone
    BY <1>1 DEF NothingLeftBehind, Known
  <2> QED BY <1>1 DEF StoreInv, NothingLeftBehind, Known
<1>8. ASSUME ~failed', NEW t \in tokens', t.email \notin parted'
      PROVE  users'[t.email] # None /\ users'[t.email].id = t.id
  <2>1. t.email \in Emails /\ ~failed /\ t \in tokens /\ t.email \notin parted
    BY <1>1, <1>8 DEF StoreInv, TypeOK
  <2>2. users[t.email] # None /\ users[t.email].id = t.id
    BY <2>1 DEF StoreInv
  <2>3. copies[t.email] = users[t.email]
    BY <1>3, <1>8, <2>1, <2>2
  <2> QED BY <1>1, <1>8, <2>1, <2>2, <2>3
<1>9. Consistent(users)'
  BY Restarted DEF Consistent, Known
<1>10. \A e \in Emails : extras'[e] # {} => copies'[e] # None
  BY <1>1 DEF StoreInv
<1> QED BY <1>4, <1>5, <1>6, <1>7, <1>8, <1>9, <1>10 DEF StoreInv

LEMMA NextStore == StoreInv /\ [Next]_vars => StoreInv'
<1> SUFFICES ASSUME StoreInv, [Next]_vars PROVE StoreInv'
  OBVIOUS
<1>1. CASE UNCHANGED vars
  BY <1>1 DEF vars, stores, StoreInv, TypeOK, Placed, Consistent, CopyCurrent, NothingLeftBehind,
              Known, Copying
<1>2. ASSUME NEW h \in Handlers, Register(h) PROVE StoreInv'
  BY <1>2, StepCheckEmail, StepCheckPhone, StepInsert DEF Register
<1>3. ASSUME NEW h \in Handlers, UpdatePreferences(h) PROVE StoreInv'
  BY <1>3, StepAuthenticate, StepCommitChange DEF UpdatePreferences
<1>4. ASSUME NEW h \in Handlers, Fallback(h) PROVE StoreInv'
  BY <1>4, StepUnknown, StepFetch, StepRestore DEF Fallback
<1>5. ASSUME NEW h \in Handlers, Refresh(h) \/ Copy(h) \/ Add(h) \/ CopyFails(h) PROVE StoreInv'
  BY <1>5, StepRefresh, StepFind, StepCopy
<1> QED BY <1>1, <1>2, <1>3, <1>4, <1>5, StepLogin, StepRestart DEF Next

LEMMA StoreInvariant == Spec => []StoreInv
BY InitStore, NextStore, PTL DEF Spec

-----------------------------------------------------------------------------
(* The theorems *)

\* Every field keeps a value of its type: what a handler carries to a copy, a
\* change or a restored row is an account.
THEOREM TypeCorrect == Spec => []TypeOK
<1>1. StoreInv => TypeOK
  BY DEF StoreInv
<1> QED BY <1>1, StoreInvariant, PTL

\* However copies, changes, registrations, restored accounts and restarts
\* interleave, the document of an account nobody works on is its row, unless
\* something happened that is known to part them.
THEOREM CopiesAreCurrent == Spec => []CopyCurrent
<1>1. StoreInv => CopyCurrent
  BY DEF StoreInv
<1> QED BY <1>1, StoreInvariant, PTL

\* As long as every startup brings the documents back, no restored account is
\* pushed out by one that was registered after a loss of the table.
THEOREM NoneIsLeftBehind == Spec => []NothingLeftBehind
<1>1. StoreInv => NothingLeftBehind
  BY DEF StoreInv
<1> QED BY <1>1, StoreInvariant, PTL

\* A token opens no account but its owner's through any losses of the table, as
\* long as every startup has brought the documents back and the owner's is
\* current: the documents keep the ids taken.  Without them ids are given out
\* again and a token, which names only an id, opens whatever account has it now:
\* the theorem says nothing of such a history.
THEOREM TokensKeepTheirOwner == Spec => []TokensHold
<1>1. StoreInv => TokensHold
  <2> SUFFICES ASSUME StoreInv, ~failed, NEW t \in tokens, t.email \notin parted,
                      NEW e \in Known(users), users[e].id = t.id
               PROVE  e = t.email
    BY DEF TokensHold
  <2>1. users[t.email] # None /\ users[t.email].id = t.id /\ t.email \in Emails
    BY DEF StoreInv, TypeOK
  <2> QED BY <2>1 DEF StoreInv, Consistent, Known
<1> QED BY <1>1, StoreInvariant, PTL

\* What a step does to the accounts that are there.
Survive ==
    \A e \in Known(users) \ parted' :
        ~failed' => \/ users'[e] = users[e]
                   \/ /\ users'[e] = [users[e] EXCEPT !.settings = users'[e].settings]
                      /\ \E h \in Handlers : job[h].at = "change" /\ job'[h].at = "refresh" /\ job[h].email = e

LEMMA SurviveStep ==
    ASSUME StoreInv, [Next]_vars
    PROVE  Survive
<1> SUFFICES ASSUME NEW e \in Known(users) \ parted', ~failed', users'[e] # users[e]
             PROVE  /\ users'[e] = [users[e] EXCEPT !.settings = users'[e].settings]
                    /\ \E h \in Handlers : job[h].at = "change" /\ job'[h].at = "refresh" /\ job[h].email = e
  BY DEF Survive
<1>1. e \in Emails /\ users[e] # None /\ users[e] \in Account
  BY StoreFacts DEF Known
<1>2. ASSUME NEW h \in Handlers, Insert(h) PROVE FALSE
  <2>1. users[job[h].email] = None
    BY <1>2 DEF Insert, MayInsert
  <2> QED BY <1>1, <1>2, <2>1 DEF Insert, StoreInv, TypeOK
<1>3. ASSUME NEW h \in Handlers, NEW granted \in BOOLEAN, Restore(h, granted) PROVE FALSE
  <2>1. users[job[h].email] = None
    BY <1>3 DEF Restore, MayInsert
  <2> QED BY <1>1, <1>3, <2>1 DEF Restore, StoreInv, TypeOK
<1>4. ASSUME NEW lost \in BOOLEAN, NEW readable \in BOOLEAN, Restart(lost, readable) PROVE FALSE
  <2>1. e \notin parted /\ Copying(e) = {}
    BY <1>1, <1>4, Restarted
  <2>2. copies[e] = users[e]
    BY <2>1 DEF StoreInv, CopyCurrent
  <2> QED BY <1>1, <1>4, <2>2, Restarted
<1>5. ASSUME NEW h \in Handlers, CommitChange(h)
      PROVE  /\ users'[e] = [users[e] EXCEPT !.settings = users'[e].settings]
             /\ job[h].at = "change" /\ job'[h].at = "refresh" /\ job[h].email = e
  <2> DEFINE c == job[h].change
             new == [users[e].settings EXCEPT ![c.field] = c.value]
  <2>1. job[h].email = e /\ users' = [users EXCEPT ![e].settings[c.field] = c.value]
    BY <1>1, <1>5 DEF CommitChange, StoreInv, TypeOK
  <2>2. users'[e] = [users[e] EXCEPT !.settings = new]
    BY <1>1, <2>1 DEF StoreInv, TypeOK
  <2> HIDE DEF new
  <2>3. users'[e].settings = new
    BY <1>1, <2>2 DEF Account
  <2>4. job[h].at = "change" /\ job'[h].at = "refresh"
    BY <1>5 DEF CommitChange, StoreInv, TypeOK, Job
  <2> QED BY <2>1, <2>2, <2>3, <2>4
<1>6. CASE users' = users
  BY <1>6
<1> QED
  BY <1>2, <1>3, <1>4, <1>5, <1>6
     DEF Next, vars, stores, Register, CheckEmail, CheckPhone, UpdatePreferences, Authenticate, Refresh,
         Copy, Add, CopyFails, Fallback, LoginUnknown, CallUnknown, Fetch, Login

\* No step but its owner's own change of preferences changes or loses an
\* account: not a registration, a restored account, or a restart with or without
\* the table, if the startup brings the documents back and this one is current.
THEOREM AccountsAreKept == Spec => AccountsSurvive
<1>1. StoreInv /\ [Next]_vars => [Survive]_vars
  BY SurviveStep
<1>2. [][Survive]_vars => AccountsSurvive
  BY PTL DEF AccountsSurvive, Survive
<1> QED BY <1>1, <1>2, StoreInvariant, PTL DEF Spec

=============================================================================
