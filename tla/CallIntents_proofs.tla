-------------------------- MODULE CallIntents_proofs --------------------------
(***************************************************************************)
(* Proofs about CallIntents, for any users, any number of calls of each    *)
(* endpoint, any window and time to live, with row locks and without, with *)
(* failing statements and without.                                         *)
(***************************************************************************)
EXTENDS CallIntents, TLAPS

\* Facts the constants give, in the form the provers want.
LEMMA ConstantFacts ==
    /\ Ttl \in Nat /\ Window \in Nat /\ MaxTime \in Nat
    /\ RowLocks \in BOOLEAN /\ Faults \in BOOLEAN
    /\ None \notin Posts
    /\ \A h \in Posts : h \notin Cancels /\ h \notin Fetches
    /\ \A c \in Cancels : c \notin Fetches
BY TimeAssumption, ModeAssumption, NoneAssumption, HandlersAssumption

\* Releasing locks keeps the type of the lock table, and a lock of another
\* handler stays as it is.
LEMMA ReleasedFacts ==
    ASSUME NEW h \in Posts, lock \in [Posts -> Posts \cup {None}]
    PROVE  /\ Released(h) \in [Posts -> Posts \cup {None}]
           /\ \A r \in Posts : lock[r] # h => Released(h)[r] = lock[r]
BY DEF Released

-----------------------------------------------------------------------------
(***************************************************************************)
(* The inductive invariant.                                                *)
(***************************************************************************)

\* A request is stored from its handler's Insert on.
StoredInv ==
    \A h \in Posts :
        /\ pc[h] \in {"idle", "validated"} => status[h] = "ABSENT"
        /\ pc[h] \notin {"idle", "validated", "aborted", "done"} => status[h] # "ABSENT"

\* The requests a cancelling or reading handler has loaded are stored.
TodoInv == \A h \in Cancels \cup Fetches : \A r \in todo[h] : status[r] # "ABSENT"

\* What a handler knows of its candidate once it has chosen one.  Its status
\* is not part of it: the candidate may have been cancelled, expired or paired.
CandidateInv ==
    \A h \in Posts :
        pc[h] \in {"lock_candidate", "write_pair"} =>
            /\ best[h] \in Posts
            /\ status[best[h]] # "ABSENT"
            /\ Reverse(h, best[h])
            /\ WithinWindow(h, best[h])

\* The two unique constraints.
UniqueRoles == \A p, q \in pairs : p.a = q.a \/ p.b = q.b => p = q

\* With row locks, who holds what, and what the locks protect: while a handler
\* works on a candidate, nobody pairs the two.
LockInv ==
    RowLocks =>
        \A h \in Posts :
            /\ pc[h] \in {"search", "lock_candidate", "write_pair"} => lock[h] = h
            /\ pc[h] = "write_pair" => lock[best[h]] = h
            /\ pc[h] \in {"lock_candidate", "write_pair"} =>
                  \A p \in pairs : {p.a, p.b} # {h, best[h]}

OneOfCouple == RowLocks => \A p, q \in pairs : {p.a, p.b} = {q.a, q.b} => p = q

IInv ==
    /\ TypeOK
    /\ StoredInv
    /\ TodoInv
    /\ CandidateInv
    /\ PairsReciprocal
    /\ UniqueRoles
    /\ LinksMatchPairs
    /\ LockInv
    /\ OneOfCouple

\* The invariant holds initially.
LEMMA InitIInv == Init => IInv
<1> USE DEF Init
<1>1. Init => TypeOK
  BY ConstantFacts DEF TypeOK, Calls, Statuses, PostSteps, OtherSteps, Results
<1>2. Init => StoredInv /\ TodoInv
  BY DEF StoredInv, TodoInv
<1>3. Init => CandidateInv
  BY DEF CandidateInv
<1>4. Init => PairsReciprocal /\ UniqueRoles /\ LinksMatchPairs
  BY DEF PairsReciprocal, UniqueRoles, LinksMatchPairs
<1>5. Init => LockInv /\ OneOfCouple
  BY DEF LockInv, OneOfCouple
<1> QED BY <1>1, <1>2, <1>3, <1>4, <1>5 DEF IInv

-----------------------------------------------------------------------------
(* Facts about one pair commit *)

\* The two roles are the handler's request and its candidate, in the order of
\* their times.
LEMMA RoleFacts ==
    ASSUME TypeOK, NEW h \in Posts, NEW s \in Posts,
           Reverse(h, s), WithinWindow(h, s)
    PROVE  /\ RoleA(h, s) \in Posts /\ RoleB(h, s) \in Posts
           /\ RoleA(h, s) # RoleB(h, s)
           /\ {RoleA(h, s), RoleB(h, s)} = {h, s}
           /\ Reverse(RoleA(h, s), RoleB(h, s))
           /\ call[RoleA(h, s)].at <= call[RoleB(h, s)].at
           /\ call[RoleB(h, s)].at <= call[RoleA(h, s)].at + Window
<1>1. call[h].at \in Nat /\ call[s].at \in Nat
  BY DEF TypeOK, Calls
<1>2. Reverse(s, h) /\ h # s
  BY DEF Reverse
<1>3. CASE call[h].at <= call[s].at
  BY <1>1, <1>2, <1>3, ConstantFacts DEF RoleA, RoleB, WithinWindow
<1>4. CASE ~(call[h].at <= call[s].at)
  BY <1>1, <1>2, <1>4, ConstantFacts DEF RoleA, RoleB, WithinWindow
<1> QED BY <1>3, <1>4

\* What the commit of a pair does to the two tables.
LEMMA CommitFacts ==
    ASSUME IInv, NEW h \in Posts, CommitPair(h)
    PROVE  \E a, b \in Posts :
             /\ a # b /\ {a, b} = {h, best[h]}
             /\ Reverse(a, b)
             /\ call[a].at <= call[b].at /\ call[b].at <= call[a].at + Window
             /\ status[a] # "ABSENT" /\ status[b] # "ABSENT"
             /\ ~UniqueConflict(a, b)
             /\ pairs' = pairs \cup {[id |-> h, a |-> a, b |-> b]}
             /\ pid' = [pid EXCEPT ![a] = h, ![b] = h]
<1> DEFINE a == RoleA(h, best[h])
           b == RoleB(h, best[h])
<1>1. /\ best[h] \in Posts /\ Reverse(h, best[h]) /\ WithinWindow(h, best[h])
      /\ status[h] # "ABSENT" /\ status[best[h]] # "ABSENT"
  BY DEF IInv, CandidateInv, StoredInv, CommitPair
<1>2. /\ a \in Posts /\ b \in Posts /\ a # b /\ {a, b} = {h, best[h]}
      /\ Reverse(a, b)
      /\ call[a].at <= call[b].at /\ call[b].at <= call[a].at + Window
  BY <1>1, RoleFacts DEF IInv
<1>3. status[a] # "ABSENT" /\ status[b] # "ABSENT"
  BY <1>1, <1>2
<1>4. /\ ~UniqueConflict(a, b)
      /\ pairs' = pairs \cup {[id |-> h, a |-> a, b |-> b]}
      /\ pid' = [pid EXCEPT ![a] = h, ![b] = h]
  BY DEF CommitPair, Link
<1> QED
  BY <1>2, <1>3, <1>4

-----------------------------------------------------------------------------
(* Preservation, one lemma per kind of handler *)

\* A step that leaves the tables, the locks and the candidates alone and keeps
\* every Posts handler where it is, or moves it between steps that say
\* nothing about them.
LEMMA IdleStep ==
    ASSUME IInv, TypeOK', TodoInv', UNCHANGED <<call, status, pid, pairs, lock, best>>,
           \A h \in Posts :
              \/ pc'[h] = pc[h]
              \/ /\ pc'[h] \in {"lock_own", "respond"}
                 /\ status[h] # "ABSENT"
              \/ pc'[h] = "done"
    PROVE  IInv'
<1>1. StoredInv'
  BY DEF IInv, StoredInv
<1>2. CandidateInv'
  BY DEF IInv, CandidateInv, Reverse, WithinWindow
<1>3. PairsReciprocal' /\ UniqueRoles' /\ LinksMatchPairs' /\ OneOfCouple'
  BY DEF IInv, PairsReciprocal, UniqueRoles, LinksMatchPairs, OneOfCouple
<1>4. LockInv'
  BY DEF IInv, LockInv
<1> QED BY <1>1, <1>2, <1>3, <1>4 DEF IInv

\* Rejecting, or accepting and timing, a request that is not stored yet.
LEMMA AcceptStep ==
    ASSUME IInv, NEW h \in Posts, NEW u \in Users, NEW v \in Users \cup {Stranger},
           Reject(h, u, v) \/ Validate(h, u, v)
    PROVE  IInv'
<1> USE ConstantFacts
<1>1. CASE Reject(h, u, v)
  <2>1. TypeOK'
    BY <1>1 DEF IInv, Reject, TypeOK, table, PostSteps
  <2>2. TodoInv'
    BY <1>1 DEF IInv, TodoInv, Reject, table
  <2> QED
    BY <1>1, <2>1, <2>2, IdleStep DEF Reject, IInv, TypeOK, table
<1>2. CASE Validate(h, u, v)
  <2>1. TypeOK'
    BY <1>2 DEF IInv, Validate, TypeOK, PostSteps, Calls
  <2>2. /\ status[h] = "ABSENT" /\ pc' = [pc EXCEPT ![h] = "validated"]
        /\ \A r \in Posts : r # h => call'[r] = call[r]
    BY <1>2 DEF IInv, StoredInv, Validate, TypeOK
  <2>3. StoredInv' /\ TodoInv'
    BY <1>2, <2>2 DEF IInv, StoredInv, TodoInv, Validate, TypeOK
  <2>4. CandidateInv'
    <3> SUFFICES ASSUME NEW g \in Posts, pc'[g] \in {"lock_candidate", "write_pair"}
                 PROVE  /\ best'[g] \in Posts
                        /\ status'[best'[g]] # "ABSENT"
                        /\ Reverse(g, best[g])'
                        /\ WithinWindow(g, best[g])'
      BY <1>2 DEF CandidateInv, Validate
    <3>1. g # h /\ pc[g] = pc'[g]
      BY <2>2 DEF IInv, TypeOK
    <3>2. status[best[g]] # "ABSENT" /\ best[g] \in Posts /\ best[g] # h
      BY <2>2, <3>1 DEF IInv, CandidateInv
    <3>3. call'[g] = call[g] /\ call'[best[g]] = call[best[g]]
      BY <2>2, <3>1, <3>2
    <3> QED
      BY <1>2, <3>1, <3>2, <3>3 DEF IInv, CandidateInv, Validate, Reverse, WithinWindow
  <2>5. PairsReciprocal'
    <3> SUFFICES ASSUME NEW p \in pairs
                 PROVE  /\ p.a # p.b
                        /\ status[p.a] # "ABSENT" /\ status[p.b] # "ABSENT"
                        /\ call'[p.a].from = call'[p.b].to /\ call'[p.a].to = call'[p.b].from
                        /\ call'[p.a].at <= call'[p.b].at
                        /\ call'[p.b].at <= call'[p.a].at + Window
      BY <1>2 DEF PairsReciprocal, Validate
    <3>1. p.a \in Posts /\ p.b \in Posts /\ p.a # h /\ p.b # h
      BY <2>2 DEF IInv, TypeOK, Pairs, PairsReciprocal
    <3> QED
      BY <2>2, <3>1 DEF IInv, PairsReciprocal
  <2>6. UniqueRoles' /\ LinksMatchPairs' /\ OneOfCouple'
    BY <1>2 DEF IInv, UniqueRoles, LinksMatchPairs, OneOfCouple, Validate
  <2>7. LockInv'
    <3>1. UNCHANGED <<lock, best, pairs>>
      BY <1>2 DEF Validate
    <3>2. \A g \in Posts : pc'[g] \in {"search", "lock_candidate", "write_pair"} => pc'[g] = pc[g]
      BY <2>2 DEF IInv, TypeOK
    <3> QED BY <3>1, <3>2 DEF IInv, LockInv
  <2> QED BY <2>1, <2>3, <2>4, <2>5, <2>6, <2>7 DEF IInv
<1> QED BY <1>1, <1>2

\* Another handler changes the status of a stored request: no part of the
\* invariant depends on more than whether it is stored.
LEMMA StatusStep ==
    ASSUME IInv, TypeOK', TodoInv', UNCHANGED <<call, pid, pairs, lock, best>>,
           \A h \in Posts : pc'[h] = pc[h],
           \A r \in Posts : status[r] = "ABSENT" <=> status'[r] = "ABSENT"
    PROVE  IInv'
<1>1. StoredInv'
  BY DEF IInv, StoredInv
<1>2. CandidateInv'
  BY DEF IInv, CandidateInv, Reverse, WithinWindow
<1>3. PairsReciprocal'
  BY DEF IInv, PairsReciprocal, TypeOK, Pairs
<1>4. UniqueRoles' /\ LinksMatchPairs' /\ OneOfCouple' /\ LockInv'
  BY DEF IInv, UniqueRoles, LinksMatchPairs, OneOfCouple, LockInv
<1> QED BY <1>1, <1>2, <1>3, <1>4 DEF IInv

LEMMA CancelStep ==
    ASSUME IInv, NEW c \in Cancels, Cancel(c)
    PROVE  IInv'
<1> USE ConstantFacts
<1>1. CASE CancelCommit(c)
  <2> PICK r \in todo[c] : SetStatus(r, IF pc[c] = "overdue" THEN "EXPIRED" ELSE "CANCELLED")
    BY <1>1 DEF CancelCommit
  <2>1. r \in Posts
    BY DEF IInv, TypeOK
  <2>2. TypeOK'
    BY <1>1, <2>1 DEF IInv, CancelCommit, SetStatus, TypeOK, Statuses, OtherSteps
  <2>3. status[r] # "ABSENT"
    BY DEF IInv, TodoInv
  <2>4. TodoInv'
    BY <1>1, <2>1 DEF IInv, TodoInv, CancelCommit, SetStatus, TypeOK
  <2> QED
    BY <1>1, <2>1, <2>2, <2>3, <2>4, StatusStep DEF CancelCommit, SetStatus, IInv, TypeOK
<1>2. ASSUME NEW u \in Users, NEW r \in Posts, CancelLoad(c, u, r) PROVE IInv'
  <2>1. TypeOK'
    BY <1>2 DEF IInv, CancelLoad, TypeOK, table, OtherSteps
  <2>2. TodoInv'
    BY <1>2 DEF IInv, TodoInv, CancelLoad, TypeOK, table
  <2> QED
    BY <1>2, <2>1, <2>2, IdleStep DEF CancelLoad, IInv, TypeOK, table
<1> QED BY <1>1, <1>2 DEF Cancel

LEMMA FetchStep ==
    ASSUME IInv, NEW f \in Fetches, Fetch(f)
    PROVE  IInv'
<1> USE ConstantFacts
<1>1. ASSUME NEW r \in Posts, Expire(f, r) PROVE IInv'
  <2>1. TypeOK'
    BY <1>1 DEF IInv, Expire, SetStatus, TypeOK, Statuses
  <2>2. status[r] # "ABSENT"
    BY <1>1 DEF IInv, TodoInv, Expire
  <2>3. TodoInv'
    BY <1>1, <2>2 DEF IInv, TodoInv, Expire, SetStatus, TypeOK
  <2> QED
    BY <1>1, <2>1, <2>2, <2>3, StatusStep DEF Expire, SetStatus, IInv, TypeOK
<1>2. ASSUME NEW S, S \subseteq Posts, FetchLoad(f, S) PROVE IInv'
  <2>1. TypeOK'
    BY <1>2 DEF IInv, FetchLoad, TypeOK, table, OtherSteps
  <2>2. TodoInv'
    BY <1>2 DEF IInv, TodoInv, FetchLoad, TypeOK, table
  <2> QED
    BY <1>2, <2>1, <2>2, IdleStep DEF FetchLoad, IInv, TypeOK, table
<1>3. ASSUME NEW r \in Posts, Keep(f, r) PROVE IInv'
  <2>1. TypeOK'
    BY <1>3 DEF IInv, Keep, TypeOK, table
  <2>2. TodoInv'
    BY <1>3 DEF IInv, TodoInv, Keep, TypeOK, table
  <2> QED
    BY <1>3, <2>1, <2>2, IdleStep DEF Keep, IInv, TypeOK, table
<1>4. CASE FetchDone(f)
  <2>1. TypeOK'
    BY <1>4 DEF IInv, FetchDone, TypeOK, table, OtherSteps
  <2>2. TodoInv'
    BY <1>4 DEF IInv, TodoInv, FetchDone, TypeOK, table
  <2> QED
    BY <1>4, <2>1, <2>2, IdleStep DEF FetchDone, IInv, TypeOK, table
<1>5. ASSUME NEW u \in Users PROVE Mine(u) \subseteq Posts
  BY DEF Mine
<1> QED BY <1>1, <1>2, <1>3, <1>4, <1>5 DEF Fetch

\* The steps of a detection that write neither table.  The locks it takes were
\* free, and those it releases are its own.
LEMMA DetectionStep ==
    ASSUME IInv, NEW h \in Posts,
           \/ Refresh(h) \/ LockOwn(h) \/ Search(h) \/ LockCandidate(h)
           \/ Abort(h) /\ pc[h] \notin {"idle", "aborted", "done"}
           \/ ErrorSwallowed(h)
           \/ Conflict(h) \/ Announce(h) \/ Respond(h) \/ RespondError(h)
    PROVE  IInv'
<1> USE ConstantFacts
<1>1. UNCHANGED <<call, status, pid, pairs, todo>>
  BY DEF Refresh, LockOwn, Search, LockCandidate, Abort, ErrorSwallowed, Conflict, Announce,
         Respond, RespondError, table
<1>2. TypeOK'
  <2>1. CASE Refresh(h) \/ Announce(h) \/ RespondError(h) \/ ErrorSwallowed(h)
    BY <2>1 DEF IInv, Refresh, Announce, RespondError, ErrorSwallowed, TypeOK, table, PostSteps, Results
  <2>2. CASE LockOwn(h)
    BY <2>2 DEF IInv, LockOwn, Acquire, TypeOK, table, PostSteps
  <2>3. CASE Search(h)
    BY <2>3 DEF IInv, Search, Earliest, Candidates, TypeOK, table, PostSteps, Results
  <2>4. CASE LockCandidate(h)
    BY <2>4 DEF IInv, CandidateInv, LockCandidate, Acquire, TypeOK, table, PostSteps
  <2>5. CASE Abort(h) \/ Conflict(h) \/ Respond(h)
    <3>1. lock' = Released(h) /\ lock' \in [Posts -> Posts \cup {None}]
      BY <2>5, ReleasedFacts DEF IInv, Abort, Conflict, Respond, TypeOK
    <3>2. CASE Abort(h)
      BY <3>1, <3>2 DEF IInv, Abort, TypeOK, table, PostSteps, Results
    <3>3. CASE Conflict(h)
      BY <3>1, <3>3 DEF IInv, Conflict, TypeOK, table, PostSteps, Results
    <3>4. CASE Respond(h)
      BY <3>1, <3>4 DEF IInv, Respond, TypeOK, table, PostSteps, Results
    <3> QED BY <2>5, <3>2, <3>3, <3>4
  <2> QED BY <2>1, <2>2, <2>3, <2>4, <2>5
<1>3. \A g \in Posts : g # h => pc'[g] = pc[g] /\ best'[g] = best[g]
  BY DEF IInv, TypeOK, Refresh, LockOwn, Search, LockCandidate, Abort, ErrorSwallowed, Conflict,
         Announce, Respond, RespondError
<1>4. StoredInv' /\ TodoInv'
  BY <1>1, <1>3 DEF IInv, StoredInv, TodoInv, TypeOK, Refresh, LockOwn, Search,
         LockCandidate, Abort, ErrorSwallowed, Conflict, Announce, Respond, RespondError
<1>5. PairsReciprocal' /\ UniqueRoles' /\ LinksMatchPairs' /\ OneOfCouple'
  BY <1>1 DEF IInv, PairsReciprocal, UniqueRoles, LinksMatchPairs, OneOfCouple
<1>6. CandidateInv'
  <2> SUFFICES ASSUME NEW g \in Posts, pc'[g] \in {"lock_candidate", "write_pair"}
               PROVE  /\ best'[g] \in Posts
                      /\ status[best'[g]] # "ABSENT"
                      /\ Reverse(g, best'[g])
                      /\ WithinWindow(g, best'[g])
    BY <1>1 DEF CandidateInv, Reverse, WithinWindow
  <2>1. CASE g # h
    BY <1>3, <2>1 DEF IInv, CandidateInv
  <2>2. CASE g = h /\ Search(h)
    BY <2>2 DEF IInv, TypeOK, Search, Earliest, Candidates, Eligible
  <2>3. CASE g = h /\ LockCandidate(h)
    BY <2>3 DEF IInv, TypeOK, CandidateInv, LockCandidate
  <2>4. Search(h) \/ LockCandidate(h) \/ g # h
    BY DEF IInv, TypeOK, Refresh, LockOwn, Abort, ErrorSwallowed, Conflict, Announce, Respond,
       RespondError
  <2> QED BY <2>1, <2>2, <2>3, <2>4
<1>7. LockInv'
  <2> SUFFICES ASSUME RowLocks, NEW g \in Posts
               PROVE  /\ pc'[g] \in {"search", "lock_candidate", "write_pair"} => lock'[g] = g
                      /\ pc'[g] = "write_pair" => lock'[best'[g]] = g
                      /\ pc'[g] \in {"lock_candidate", "write_pair"} =>
                            \A p \in pairs : {p.a, p.b} # {g, best'[g]}
    BY <1>1 DEF LockInv
  <2>1. CASE Refresh(h) \/ Announce(h) \/ RespondError(h) \/ ErrorSwallowed(h)
    <3>1. /\ pc'[h] \notin {"search", "lock_candidate", "write_pair"}
          /\ lock' = lock
      BY <2>1 DEF IInv, TypeOK, Refresh, Announce, RespondError, ErrorSwallowed
    <3> QED
      BY <1>3, <3>1 DEF IInv, LockInv
  <2>2. CASE LockOwn(h)
    <3>1. lock[h] = None /\ lock' = [lock EXCEPT ![h] = h] /\ pc'[h] = "search"
      BY <2>2 DEF IInv, TypeOK, LockOwn, Acquire, Unlocked
    <3>2. CASE g = h
      BY <3>1, <3>2 DEF IInv, TypeOK
    <3>3. CASE g # h
      <4>1. pc'[g] = pc[g] /\ best'[g] = best[g]
        BY <1>3, <3>3
      <4>2. \A r \in Posts : lock[r] = g => lock'[r] = g
        BY <3>1, ConstantFacts DEF IInv, TypeOK
      <4>3. pc[g] = "write_pair" => best[g] \in Posts
        BY DEF IInv, CandidateInv
      <4> QED BY <1>1, <4>1, <4>2, <4>3 DEF IInv, LockInv
    <3> QED BY <3>2, <3>3
  <2>3. CASE Search(h)
    <3>1. lock' = lock /\ pairs' = pairs /\ pc[h] = "search" /\ pc'[h] \in {"lock_candidate", "respond"}
      BY <2>3, <1>1 DEF IInv, TypeOK, Search
    <3>2. CASE g # h
      <4>1. pc'[g] = pc[g] /\ best'[g] = best[g]
        BY <1>3, <3>2
      <4>2. pc[g] = "write_pair" => best[g] \in Posts
        BY DEF IInv, CandidateInv
      <4> QED BY <3>1, <4>1, <4>2 DEF IInv, LockInv
    <3>3. CASE g = h
      <4>1. lock'[h] = h
        BY <3>1 DEF IInv, LockInv
      <4>2. ASSUME pc'[h] = "lock_candidate"
            PROVE  \A p \in pairs : {p.a, p.b} # {h, best'[h]}
        <5>1. best'[h] \in Posts /\ pid[best'[h]] = None
          BY <2>3, <4>2 DEF IInv, TypeOK, Search, Earliest, Candidates, Eligible
        <5>2. \A p \in pairs : best'[h] \notin {p.a, p.b}
          BY <5>1 DEF IInv, LinksMatchPairs
        <5> QED BY <5>2
      <4> QED BY <3>1, <3>3, <4>1, <4>2
    <3> QED BY <3>2, <3>3
  <2>4. CASE LockCandidate(h)
    <3>1. lock[best[h]] = None /\ lock' = [lock EXCEPT ![best[h]] = h]
      BY <2>4 DEF LockCandidate, Acquire, Unlocked
    <3>2. best[h] \in Posts /\ best[h] # h
      BY <2>4 DEF IInv, CandidateInv, LockCandidate, Reverse
    <3>3. pc[g] \in {"search", "lock_candidate", "write_pair"} => lock[g] # None
      BY DEF IInv, LockInv
    <3>4. pc[g] = "write_pair" => lock[best[g]] # None /\ best[g] \in Posts
      BY DEF IInv, LockInv, CandidateInv
    <3>5. CASE g = h
      <4>1. lock[h] = h /\ \A p \in pairs : {p.a, p.b} # {h, best[h]}
        BY <2>4 DEF IInv, LockInv, LockCandidate
      <4>2. best'[h] = best[h]
        BY <2>4 DEF LockCandidate
      <4>3. lock'[h] = h /\ lock'[best[h]] = h
        BY <3>1, <3>2, <4>1 DEF IInv, TypeOK
      <4> QED BY <3>5, <4>1, <4>2, <4>3
    <3>6. CASE g # h
      <4>1. pc'[g] = pc[g] /\ best'[g] = best[g]
        BY <1>3, <3>6
      <4>2. \A r \in Posts : lock[r] # None => lock'[r] = lock[r]
        BY <3>1, <3>2 DEF IInv, TypeOK
      <4> QED BY <3>3, <3>4, <4>1, <4>2 DEF IInv, LockInv
    <3> QED BY <3>5, <3>6
  <2>5. CASE Abort(h) \/ Conflict(h) \/ Respond(h)
    <3>1. lock' = Released(h) /\ pc'[h] \in {"aborted", "respond", "done"}
      BY <2>5 DEF IInv, TypeOK, Abort, Conflict, Respond
    <3>2. CASE g = h
      BY <3>1, <3>2
    <3>3. CASE g # h
      <4>1. \A r \in Posts : lock[r] = g => lock'[r] = g
        BY <3>1, <3>3, ReleasedFacts DEF IInv, TypeOK
      <4>2. pc[g] = "write_pair" => best[g] \in Posts
        BY DEF IInv, CandidateInv
      <4> QED
        BY <1>3, <3>3, <4>1, <4>2 DEF IInv, LockInv
    <3> QED BY <3>2, <3>3
  <2> QED BY <2>1, <2>2, <2>3, <2>4, <2>5
<1> QED BY <1>2, <1>4, <1>5, <1>6, <1>7 DEF IInv

\* A request becomes visible.
LEMMA InsertStep ==
    ASSUME IInv, NEW h \in Posts, Insert(h)
    PROVE  IInv'
<1>1. TypeOK'
  BY DEF IInv, Insert, TypeOK, PostSteps, Statuses
<1>2. StoredInv' /\ TodoInv'
  BY DEF IInv, StoredInv, TodoInv, Insert, TypeOK
<1>3. CandidateInv'
  BY DEF IInv, CandidateInv, Insert, TypeOK, Reverse, WithinWindow
<1>4. PairsReciprocal'
  <2>1. UNCHANGED <<call, pairs>> /\ \A r \in Posts : status[r] # "ABSENT" => status'[r] # "ABSENT"
    BY DEF IInv, Insert, TypeOK
  <2>2. \A p \in pairs : p.a \in Posts /\ p.b \in Posts
    BY DEF IInv, TypeOK, Pairs
  <2> QED BY <2>1, <2>2 DEF IInv, PairsReciprocal
<1>5. UniqueRoles' /\ LinksMatchPairs' /\ OneOfCouple'
  <2>1. UNCHANGED <<pid, pairs>>
    BY DEF Insert
  <2> QED BY <2>1 DEF IInv, UniqueRoles, LinksMatchPairs, OneOfCouple
<1>6. LockInv'
  <2>1. UNCHANGED <<lock, best, pairs>>
    BY DEF Insert
  <2>2. \A g \in Posts : pc'[g] \in {"search", "lock_candidate", "write_pair"} => pc'[g] = pc[g]
    BY DEF IInv, TypeOK, Insert
  <2> QED BY <2>1, <2>2 DEF IInv, LockInv
<1> QED BY <1>1, <1>2, <1>3, <1>4, <1>5, <1>6 DEF IInv

\* A pair is stored.
LEMMA CommitStep ==
    ASSUME IInv, NEW h \in Posts, CommitPair(h)
    PROVE  IInv'
<1> USE ConstantFacts
<1> PICK a \in Posts, b \in Posts :
        /\ a # b /\ {a, b} = {h, best[h]}
        /\ Reverse(a, b)
        /\ call[a].at <= call[b].at /\ call[b].at <= call[a].at + Window
        /\ status[a] # "ABSENT" /\ status[b] # "ABSENT"
        /\ ~UniqueConflict(a, b)
        /\ pairs' = pairs \cup {[id |-> h, a |-> a, b |-> b]}
        /\ pid' = [pid EXCEPT ![a] = h, ![b] = h]
  BY CommitFacts
<1>1. TypeOK'
  <2>1. pairs' \subseteq Pairs /\ pid' \in [Posts -> Posts \cup {None}]
    BY DEF IInv, TypeOK, Pairs
  <2>2. lock' \in [Posts -> Posts \cup {None}]
    BY ReleasedFacts DEF IInv, TypeOK, CommitPair
  <2>3. /\ pc' \in [Posts \cup Cancels \cup Fetches -> PostSteps \cup OtherSteps]
        /\ result' \in [Posts -> Results]
    BY DEF IInv, TypeOK, CommitPair, PostSteps, Results
  <2>4. UNCHANGED <<now, call, status, best, reply, todo, announced>>
    BY DEF CommitPair
  <2> QED BY <2>1, <2>2, <2>3, <2>4 DEF IInv, TypeOK
<1>2. pc[h] = "write_pair" /\ pc' = [pc EXCEPT ![h] = "announce"]
  BY DEF CommitPair
<1>3. StoredInv' /\ TodoInv' /\ CandidateInv'
  BY <1>2 DEF IInv, StoredInv, TodoInv, CandidateInv, CommitPair, TypeOK, Reverse, WithinWindow
<1>4. PairsReciprocal'
  BY DEF IInv, PairsReciprocal, CommitPair, Reverse
<1>5. UniqueRoles'
  BY DEF IInv, UniqueRoles, UniqueConflict
<1>6. LinksMatchPairs'
  <2> SUFFICES ASSUME NEW r \in Posts
               PROVE  /\ \A p \in pairs' : r \in {p.a, p.b} => pid'[r] # None
                      /\ pid'[r] # None => \E p \in pairs' : p.id = pid'[r] /\ r \in {p.a, p.b}
    BY DEF LinksMatchPairs
  <2>1. CASE r \in {a, b}
    <3>1. pid'[r] = h /\ h # None
      BY <2>1 DEF IInv, TypeOK
    <3> DEFINE new == [id |-> h, a |-> a, b |-> b]
    <3>2. new \in pairs' /\ new.id = pid'[r] /\ r \in {new.a, new.b}
      BY <2>1, <3>1
    <3> QED BY <3>1, <3>2
  <2>2. CASE r \notin {a, b}
    BY <2>2 DEF IInv, TypeOK, LinksMatchPairs
  <2> QED BY <2>1, <2>2
<1>7. RowLocks => \A p \in pairs : {p.a, p.b} # {a, b}
  BY <1>2 DEF IInv, LockInv
<1>8. OneOfCouple'
  BY <1>7 DEF IInv, OneOfCouple
<1>9. LockInv'
  <2> SUFFICES ASSUME RowLocks, NEW g \in Posts
               PROVE  /\ pc'[g] \in {"search", "lock_candidate", "write_pair"} => lock'[g] = g
                      /\ pc'[g] = "write_pair" => lock'[best[g]] = g
                      /\ pc'[g] \in {"lock_candidate", "write_pair"} =>
                            \A p \in pairs' : {p.a, p.b} # {g, best[g]}
    BY DEF LockInv, CommitPair
  <2>1. CASE g = h
    BY <1>2, <2>1 DEF IInv, TypeOK
  <2>2. CASE g # h
    <3>1. pc'[g] = pc[g] /\ \A r \in Posts : lock[r] = g => lock'[r] = g
      BY <2>2, ReleasedFacts DEF IInv, TypeOK, CommitPair
    <3>2. pc[g] \in {"lock_candidate", "write_pair"} => best[g] \in Posts
      BY DEF IInv, CandidateInv
    <3>3. pc[g] \in {"lock_candidate", "write_pair"} => {g, best[g]} # {a, b}
      <4> SUFFICES ASSUME pc[g] \in {"lock_candidate", "write_pair"}, {g, best[g]} = {h, best[h]}
                   PROVE  FALSE
        OBVIOUS
      <4>1. g = best[h]
        BY <2>2
      <4>2. lock[best[h]] = h /\ lock[g] = g
        BY <1>2 DEF IInv, LockInv
      <4> QED BY <2>2, <4>1, <4>2
    <3> QED
      BY <3>1, <3>2, <3>3 DEF IInv, LockInv
  <2> QED BY <2>1, <2>2
<1> QED BY <1>1, <1>3, <1>4, <1>5, <1>6, <1>8, <1>9 DEF IInv

-----------------------------------------------------------------------------
(* The invariant is inductive *)

LEMMA NextIInv == IInv /\ [Next]_vars => IInv'
<1> SUFFICES ASSUME IInv, [Next]_vars PROVE IInv'
  OBVIOUS
<1>1. CASE Tick
  <2>1. TypeOK' /\ TodoInv'
    BY <1>1 DEF IInv, Tick, TypeOK, TodoInv, table, handlers
  <2> QED BY <1>1, <2>1, IdleStep DEF Tick, table, handlers
<1>2. ASSUME NEW h \in Posts, Accept(h) PROVE IInv'
  BY <1>2, AcceptStep DEF Accept
<1>3. ASSUME NEW h \in Posts, DbError(h) \/ ErrorSwallowed(h) PROVE IInv'
  BY <1>3, DetectionStep DEF DbError
<1>4. ASSUME NEW h \in Posts, Progress(h) PROVE IInv'
  <2>1. DeadlockVictim(h) => Abort(h) /\ pc[h] \notin {"idle", "aborted", "done"}
    BY DEF DeadlockVictim, InCycle, Waiting
  <2> QED
    BY <1>4, <2>1, DetectionStep, InsertStep, CommitStep DEF Progress
<1>5. ASSUME NEW c \in Cancels, Cancel(c) PROVE IInv'
  BY <1>5, CancelStep
<1>6. ASSUME NEW f \in Fetches, Fetch(f) PROVE IInv'
  BY <1>6, FetchStep
<1>7. CASE UNCHANGED vars
  <2>1. TypeOK' /\ TodoInv'
    BY <1>7 DEF IInv, TypeOK, TodoInv, vars, table, handlers
  <2> QED BY <1>7, <2>1, IdleStep DEF vars, table, handlers
<1> QED BY <1>1, <1>2, <1>3, <1>4, <1>5, <1>6, <1>7 DEF Next

\* IInv holds in every reachable state.
THEOREM Invariant == Spec => []IInv
BY InitIInv, NextIInv, PTL DEF Spec

-----------------------------------------------------------------------------
(* What a reader should know *)

\* Every variable keeps its type: handlers, locks, rows and answers.
THEOREM TypeCorrect == Spec => []TypeOK
<1>1. IInv => TypeOK
  BY DEF IInv
<1> QED BY <1>1, Invariant, PTL

\* Whatever the interleaving of detections, cancellations and expiries, every
\* row of reciprocal_pairs joins two stored requests in opposite directions
\* made within the window, the earlier one as request_a.
THEOREM PairsAreReciprocal == Spec => []PairsReciprocal
<1>1. IInv => PairsReciprocal
  BY DEF IInv
<1> QED BY <1>1, Invariant, PTL

\* reciprocal_pairs and the pair_id of the requests always agree.
THEOREM LinksAgree == Spec => []LinksMatchPairs
<1>1. IInv => LinksMatchPairs
  BY DEF IInv
<1> QED BY <1>1, Invariant, PTL

\* A couple of requests forms one pair: with row locks always, with the unique
\* constraints alone unless the two requests carry the same time.
THEOREM CouplesPairOnce == Spec => []OnePairPerCouple
<1>1. IInv => OnePairPerCouple
  <2> SUFFICES ASSUME IInv, NEW p \in pairs, NEW q \in pairs,
                      {p.a, p.b} = {q.a, q.b}, p # q
               PROVE  ~RowLocks /\ call[p.a].at = call[p.b].at
    BY DEF OnePairPerCouple
  <2>1. ~RowLocks
    BY DEF IInv, OneOfCouple
  <2>2. p.a = q.b /\ p.b = q.a
    BY DEF IInv, UniqueRoles
  <2>3. p.a \in Posts /\ p.b \in Posts
    BY DEF IInv, TypeOK, Pairs
  <2>4. call[p.a].at \in Nat /\ call[p.b].at \in Nat
    BY <2>3 DEF IInv, TypeOK, Calls
  <2>5. call[p.a].at <= call[p.b].at /\ call[q.a].at <= call[q.b].at
    BY DEF IInv, PairsReciprocal
  <2> QED BY <2>1, <2>2, <2>4, <2>5
<1> QED BY <1>1, Invariant, PTL

\* No step of any handler undoes a link, a cancellation, an expiry or a pair.
THEOREM NothingUndone == Spec => NoLostUpdates
<1> DEFINE Kept ==
      /\ pairs \subseteq pairs'
      /\ \A r \in Posts :
            /\ pid[r] # None => pid'[r] # None
            /\ status[r] \in {"CANCELLED", "EXPIRED"} => status'[r] \in {"CANCELLED", "EXPIRED"}
<1>1. ASSUME IInv, [Next]_vars PROVE Kept
  <2>1. ASSUME UNCHANGED <<status, pid, pairs>> PROVE Kept
    BY <2>1
  <2>2. ASSUME NEW r \in Posts, NEW s \in {"CANCELLED", "EXPIRED"}, SetStatus(r, s),
               UNCHANGED <<pid, pairs>>
        PROVE  Kept
    BY <1>1, <2>2 DEF IInv, TypeOK, SetStatus
  <2>3. ASSUME NEW h \in Posts, Insert(h) PROVE Kept
    BY <1>1, <2>3 DEF IInv, TypeOK, StoredInv, Insert
  <2>4. ASSUME NEW h \in Posts, CommitPair(h) PROVE Kept
    <3>1. UNCHANGED status
      BY <2>4 DEF CommitPair
    <3>2. PICK a \in Posts, b \in Posts :
             /\ pairs' = pairs \cup {[id |-> h, a |-> a, b |-> b]}
             /\ pid' = [pid EXCEPT ![a] = h, ![b] = h]
      BY <1>1, <2>4, CommitFacts
    <3> QED BY <1>1, <3>1, <3>2, ConstantFacts DEF IInv, TypeOK
  <2>5. ASSUME NEW h \in Posts, Accept(h) \/ Progress(h) \/ DbError(h) \/ ErrorSwallowed(h) PROVE Kept
    <3>1. CASE Insert(h)
      BY <2>3, <3>1
    <3>2. CASE CommitPair(h)
      BY <2>4, <3>2
    <3>3. CASE ~Insert(h) /\ ~CommitPair(h)
      <4>1. UNCHANGED <<status, pid, pairs>>
        BY <2>5, <3>3 DEF Accept, Progress, DbError, Reject, Validate, Refresh, LockOwn,
           Search, LockCandidate, DeadlockVictim, Abort, ErrorSwallowed, Conflict, Announce, Respond,
           RespondError, table
      <4> QED BY <2>1, <4>1
    <3> QED BY <3>1, <3>2, <3>3
  <2>6. ASSUME NEW c \in Cancels, Cancel(c) PROVE Kept
    <3>1. CASE CancelCommit(c)
      <4>1. PICK r \in todo[c] : SetStatus(r, IF pc[c] = "overdue" THEN "EXPIRED" ELSE "CANCELLED")
        BY <3>1 DEF CancelCommit
      <4>2. r \in Posts
        BY <1>1 DEF IInv, TypeOK
      <4> QED BY <2>2, <3>1, <4>1, <4>2 DEF CancelCommit
    <3>2. ASSUME NEW u \in Users, NEW r \in Posts, CancelLoad(c, u, r) PROVE Kept
      BY <2>1, <3>2 DEF CancelLoad, table
    <3> QED BY <2>6, <3>1, <3>2 DEF Cancel
  <2>7. ASSUME NEW f \in Fetches, Fetch(f) PROVE Kept
    <3>1. ASSUME NEW r \in Posts, Expire(f, r) PROVE Kept
      BY <2>2, <3>1 DEF Expire
    <3>2. ASSUME NEW S, FetchLoad(f, S) PROVE Kept
      BY <2>1, <3>2 DEF FetchLoad, table
    <3>3. ASSUME NEW r \in Posts, Keep(f, r) PROVE Kept
      BY <2>1, <3>3 DEF Keep, table
    <3>4. CASE FetchDone(f)
      BY <2>1, <3>4 DEF FetchDone, table
    <3> QED BY <2>7, <3>1, <3>2, <3>3, <3>4 DEF Fetch
  <2>8. CASE Tick \/ UNCHANGED vars
    BY <2>1, <2>8 DEF Tick, vars, table
  <2> QED BY <1>1, <2>5, <2>6, <2>7, <2>8 DEF Next
<1>2. IInv /\ [Next]_vars => [Kept]_vars
  BY <1>1
<1> QED BY <1>2, Invariant, PTL DEF Spec, NoLostUpdates

-----------------------------------------------------------------------------
(***************************************************************************)
(* No pair is missed.  The invariant of the tables says nothing about how  *)
(* detections end; this one does.  A search that finds nothing means that, *)
(* of two requests that could form a pair, the other was not yet stored,   *)
(* and its own search comes later and finds the first.                     *)
(***************************************************************************)

\* How far a handler is, and what its result says.
ResultInv ==
    \A h \in Posts :
        /\ pc[h] \in {"idle", "validated", "stored", "lock_own", "search",
                     "lock_candidate", "write_pair"} => result[h] = "none"
        /\ pc[h] \in {"announce", "respond", "aborted"} => result[h] # "none"
        /\ pc[h] = "done" /\ status[h] # "ABSENT" => result[h] # "none"
        /\ result[h] = "matched" => pid[h] # None

\* Of two requests that could form a pair, one detection at most found nothing.
SearchInv ==
    \A r, s \in Posts :
        Reverse(r, s) /\ WithinWindow(r, s) /\ Eligible(r) /\ Eligible(s)
            => ~(result[r] = "no_match" /\ result[s] = "no_match")

MInv == ResultInv /\ SearchInv

\* Everything but an unsuccessful search preserves SearchInv: it makes no
\* request that has found nothing eligible again.
LEMMA SearchKept ==
    ASSUME SearchInv,
           \A r \in Posts :
              Eligible(r)' /\ result'[r] = "no_match" =>
                  Eligible(r) /\ call'[r] = call[r] /\ result[r] = "no_match"
    PROVE  SearchInv'
BY DEF SearchInv, Reverse, WithinWindow

\* A step that leaves the results alone, and each handler where it is or where
\* its result still fits, and that makes no request eligible.
LEMMA MissIdle ==
    ASSUME MInv, UNCHANGED result,
           \A r \in Posts :
              /\ Eligible(r)' => Eligible(r) /\ call'[r] = call[r]
              /\ pid[r] # None => pid'[r] # None
              /\ status[r] = "ABSENT" => status'[r] = "ABSENT"
              /\ pc'[r] = pc[r]
    PROVE  MInv'
<1>1. ResultInv'
  BY DEF MInv, ResultInv
<1>2. SearchInv'
  BY SearchKept DEF MInv
<1> QED BY <1>1, <1>2 DEF MInv

\* The steps of the other endpoints and of the clock.
LEMMA MissOthers ==
    ASSUME IInv, MInv,
           \/ Tick \/ UNCHANGED vars
           \/ \E c \in Cancels : Cancel(c)
           \/ \E f \in Fetches : Fetch(f)
    PROVE  MInv'
<1>1. UNCHANGED <<call, pid, result>>
  BY DEF Tick, vars, table, handlers, Cancel, CancelCommit, CancelLoad, Fetch, FetchLoad,
         Expire, Keep, FetchDone
<1>2. \A r \in Posts : pc'[r] = pc[r]
  BY ConstantFacts DEF IInv, TypeOK, Tick, vars, table, handlers, Cancel, CancelCommit,
     CancelLoad, Fetch, FetchLoad, Expire, Keep, FetchDone
<1>3. \A r \in Posts : status'[r] = status[r] \/ (status[r] # "ABSENT" /\ status'[r] \in {"CANCELLED", "EXPIRED"})
  <2>1. ASSUME NEW c \in Cancels, CancelCommit(c)
        PROVE  \A r \in Posts : status'[r] = status[r]
                   \/ (status[r] # "ABSENT" /\ status'[r] \in {"CANCELLED", "EXPIRED"})
    <3>1. PICK q \in todo[c] : SetStatus(q, IF pc[c] = "overdue" THEN "EXPIRED" ELSE "CANCELLED")
      BY <2>1 DEF CancelCommit
    <3>2. q \in Posts /\ status[q] # "ABSENT"
      BY DEF IInv, TypeOK, TodoInv
    <3> QED BY <3>1, <3>2 DEF SetStatus, IInv, TypeOK
  <2>2. ASSUME NEW f \in Fetches, NEW q \in Posts, Expire(f, q)
        PROVE  \A r \in Posts : status'[r] = status[r]
                   \/ (status[r] # "ABSENT" /\ status'[r] \in {"CANCELLED", "EXPIRED"})
    <3>1. status[q] # "ABSENT" /\ status' = [status EXCEPT ![q] = "EXPIRED"]
      BY <2>2 DEF IInv, TodoInv, Expire, SetStatus
    <3> QED BY <3>1 DEF IInv, TypeOK
  <2>3. CASE UNCHANGED status
    BY <2>3
  <2>4. \/ \E c \in Cancels : CancelCommit(c)
        \/ \E f \in Fetches, q \in Posts : Expire(f, q)
        \/ UNCHANGED status
    BY DEF Tick, vars, table, Cancel, CancelLoad, Fetch, FetchLoad, Keep, FetchDone
  <2> QED BY <2>1, <2>2, <2>3, <2>4
<1> QED BY <1>1, <1>2, <1>3, MissIdle DEF Eligible

\* The steps of POST /api/calls/request.
LEMMA MissPost ==
    ASSUME IInv, MInv, NEW h \in Posts,
           Accept(h) \/ Progress(h) \/ DbError(h) \/ ErrorSwallowed(h)
    PROVE  MInv'
<1> USE ConstantFacts
<1>1. \A g \in Posts : g # h => pc'[g] = pc[g] /\ result'[g] = result[g] /\ status'[g] = status[g]
                                /\ call'[g] = call[g]
  BY DEF IInv, TypeOK, Accept, Progress, DbError, Reject, Validate, Insert, Refresh, LockOwn,
     Search, LockCandidate, DeadlockVictim, Abort, ErrorSwallowed, CommitPair, Conflict, Announce, Respond,
     RespondError, table
<1>2. \A g \in Posts : pid[g] # None => pid'[g] # None
  <2>1. CASE CommitPair(h)
    <3>1. PICK a \in Posts, b \in Posts : pid' = [pid EXCEPT ![a] = h, ![b] = h]
      BY <2>1, CommitFacts
    <3> QED BY <3>1 DEF IInv, TypeOK
  <2>2. CASE ~CommitPair(h)
    <3>1. pid' = pid
      BY <2>2 DEF Accept, Progress, DbError, Reject, Validate, Insert, Refresh, LockOwn,
         Search, LockCandidate, DeadlockVictim, Abort, ErrorSwallowed, Conflict, Announce, Respond,
         RespondError, table
    <3> QED BY <3>1
  <2> QED BY <2>1, <2>2
<1>3. ResultInv'
  <2> DEFINE Fits ==
        /\ pc'[h] \in {"idle", "validated", "stored", "lock_own", "search",
                      "lock_candidate", "write_pair"} => result'[h] = "none"
        /\ pc'[h] \in {"announce", "respond", "aborted"} => result'[h] # "none"
        /\ pc'[h] = "done" /\ status'[h] # "ABSENT" => result'[h] # "none"
  <2>1. Fits
    <3>1. ASSUME NEW u \in Users, NEW v \in Users \cup {Stranger}, Reject(h, u, v) \/ Validate(h, u, v)
          PROVE  Fits
      BY <3>1 DEF IInv, TypeOK, StoredInv, MInv, ResultInv, Reject, Validate, table
    <3>2. CASE Insert(h) \/ Refresh(h) \/ LockOwn(h) \/ Search(h) \/ LockCandidate(h)
      BY <3>2 DEF IInv, TypeOK, MInv, ResultInv, Insert, Refresh, LockOwn, Search, LockCandidate
    <3>3. CASE Abort(h) \/ ErrorSwallowed(h) \/ CommitPair(h) \/ Conflict(h)
      BY <3>3 DEF IInv, TypeOK, Abort, ErrorSwallowed, CommitPair, Conflict
    <3>4. CASE Announce(h) \/ Respond(h) \/ RespondError(h)
      BY <3>4 DEF IInv, TypeOK, MInv, ResultInv, Announce, Respond, RespondError
    <3> QED BY <3>1, <3>2, <3>3, <3>4 DEF Accept, Progress, DbError, DeadlockVictim
  <2>2. result'[h] = "matched" => pid'[h] # None
    <3>1. CASE CommitPair(h)
      <4>1. PICK a \in Posts, b \in Posts :
               {a, b} = {h, best[h]} /\ pid' = [pid EXCEPT ![a] = h, ![b] = h]
        BY <3>1, CommitFacts
      <4>2. h = a \/ h = b
        BY <4>1
      <4>3. pid'[h] = h
        BY <4>1, <4>2 DEF IInv, TypeOK
      <4> QED BY <4>3
    <3>2. CASE Conflict(h)
      BY <1>2, <3>2 DEF IInv, TypeOK, Conflict
    <3>3. CASE ~CommitPair(h) /\ ~Conflict(h)
      <4>1. result'[h] = "matched" => result[h] = "matched"
        BY <3>3 DEF IInv, TypeOK, Accept, Progress, DbError, Reject, Validate, Insert, Refresh,
           LockOwn, Search, LockCandidate, DeadlockVictim, Abort, ErrorSwallowed, Announce, Respond, RespondError
      <4> QED BY <1>2, <4>1 DEF MInv, ResultInv
    <3> QED BY <3>1, <3>2, <3>3
  <2> QED BY <1>1, <1>2, <2>1, <2>2 DEF MInv, ResultInv
<1>4. SearchInv'
  <2>1. CASE Search(h) /\ result'[h] = "no_match"
    <3>1. UNCHANGED <<call, status, pid>> /\ Candidates(h) = {}
      BY <2>1 DEF Search, table, IInv, TypeOK, MInv, ResultInv
    <3>2. \A s \in Posts : ~(Eligible(s) /\ Reverse(h, s) /\ WithinWindow(h, s))
      BY <3>1 DEF Candidates
    <3>3. \A s \in Posts : Reverse(s, h) /\ WithinWindow(s, h) => Reverse(h, s) /\ WithinWindow(h, s)
      BY DEF Reverse, WithinWindow
    <3> QED BY <1>1, <3>1, <3>2, <3>3 DEF MInv, SearchInv, Reverse, WithinWindow, Eligible
  <2>2. CASE ~(Search(h) /\ result'[h] = "no_match")
    <3>1. Eligible(h)' /\ result'[h] = "no_match" =>
              Eligible(h) /\ call'[h] = call[h] /\ result[h] = "no_match"
      <4>1. CASE Refresh(h)
        BY <1>2, <4>1 DEF IInv, TypeOK, Refresh, Eligible, table
      <4>2. CASE Accept(h) \/ Insert(h)
        <5>1. result'[h] = "none"
          BY <4>2 DEF MInv, ResultInv, Accept, Reject, Validate, Insert
        <5> QED BY <5>1
      <4>3. CASE ~Refresh(h) /\ ~Accept(h) /\ ~Insert(h)
        <5>1. UNCHANGED <<call, status>>
          BY <4>3 DEF Progress, DbError, LockOwn, Search, LockCandidate, DeadlockVictim,
             Abort, ErrorSwallowed, CommitPair, Conflict, Announce, Respond, RespondError, table
        <5>2. result'[h] = "no_match" => result[h] = "no_match"
          BY <2>2, <4>3 DEF IInv, TypeOK, Progress, DbError, LockOwn, LockCandidate,
             DeadlockVictim, Abort, ErrorSwallowed, CommitPair, Conflict, Announce, Respond, RespondError
        <5> QED BY <1>2, <5>1, <5>2 DEF Eligible
      <4> QED BY <4>1, <4>2, <4>3
    <3>2. \A g \in Posts : g # h /\ Eligible(g)' => Eligible(g) /\ call'[g] = call[g]
      BY <1>1, <1>2 DEF Eligible
    <3> QED BY <1>1, <3>1, <3>2, SearchKept DEF MInv
  <2> QED BY <2>1, <2>2
<1> QED BY <1>3, <1>4 DEF MInv

\* Two opposite requests in the window never both stay unpaired because their
\* detections missed each other: not in any order of their commits, searches
\* and locks, with cancellations, expiries and failing statements between them.
THEOREM NoPairMissed == Spec => []NoMissedPair
<1>1. Init => MInv
  BY DEF Init, MInv, ResultInv, SearchInv, Eligible
<1>2. IInv /\ MInv /\ [Next]_vars => MInv'
  BY MissOthers, MissPost DEF Next
<1>3. IInv /\ MInv => NoMissedPair
  <2> SUFFICES ASSUME IInv, MInv, NEW r \in Posts, NEW s \in Posts,
                      pc[r] = "done", pc[s] = "done", Reverse(r, s), Eligible(r), Eligible(s),
                      call[r].at <= call[s].at, call[s].at <= call[r].at + Window
               PROVE  \E h \in {r, s} : result[h] \in {"conflict", "error"}
    BY DEF NoMissedPair
  <2>1. WithinWindow(r, s)
    <3>1. call[r].at \in Nat /\ call[s].at \in Nat
      BY DEF IInv, TypeOK, Calls
    <3> QED BY <3>1, ConstantFacts DEF WithinWindow
  <2>2. \A h \in {r, s} : result[h] \in {"no_match", "conflict", "error"}
    BY DEF IInv, TypeOK, Results, MInv, ResultInv, Eligible
  <2>3. ~(result[r] = "no_match" /\ result[s] = "no_match")
    BY <2>1 DEF MInv, SearchInv
  <2> QED BY <2>2, <2>3
<1> QED BY <1>1, <1>2, <1>3, Invariant, PTL DEF Spec

=============================================================================
