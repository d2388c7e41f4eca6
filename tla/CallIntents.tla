------------------------------ MODULE CallIntents ------------------------------
(***************************************************************************)
(* Call intents of the SmartDial backend and the detection of reciprocal   *)
(* pairs: the tables communication_requests and reciprocal_pairs, and the  *)
(* handlers of /api/calls that work on them.                               *)
(*                                                                         *)
(* Every handler is a synchronous FastAPI endpoint, so several of them run *)
(* at once in the server's thread pool, each with a database session of    *)
(* its own.  Between two statements of one handler any statement of        *)
(* another one may run: an action below is one statement (or one commit)   *)
(* with the Python code up to the next one.                                *)
(*                                                                         *)
(* A session keeps the rows it has loaded and answers db.get from that     *)
(* cache, so what detect_reciprocal calls a re-fetch reads nothing: the    *)
(* request and the candidate it commits are the copies it loaded earlier.  *)
(* An UPDATE writes only the columns the handler has changed.              *)
(***************************************************************************)
EXTENDS Integers

CONSTANTS
    Users,      \* ids of the registered users
    Stranger,   \* a receiver id no registered user has
    Posts,      \* calls of POST /api/calls/request; each stores one request
    Cancels,    \* calls of POST /api/calls/{request_id}/cancel
    Fetches,    \* calls of GET /api/calls and GET /api/calls/{request_id}
    None,       \* no pair, no lock holder, no candidate (NULL)
    Ttl,        \* REQUEST_TTL_SECONDS, in ticks
    Window,     \* RECIPROCAL_WINDOW_SECONDS, in ticks
    MaxTime,    \* bound: the clock stops here
    RowLocks,   \* TRUE: SELECT FOR UPDATE locks the row (PostgreSQL)
                \* FALSE: it is a plain SELECT (SQLite)
    Faults      \* TRUE: any database statement may fail

ASSUME TimeAssumption == Ttl \in Nat /\ Window \in Nat /\ MaxTime \in Nat
ASSUME ModeAssumption == RowLocks \in BOOLEAN /\ Faults \in BOOLEAN
ASSUME HandlersAssumption == Posts \cap (Cancels \cup Fetches) = {} /\ Cancels \cap Fetches = {}
ASSUME NoneAssumption == None \notin Posts
ASSUME StrangerAssumption == Stranger \notin Users

VARIABLES
    now,        \* the server's clock
    call,       \* [from, to, at]: the request a Posts handler builds
    status,     \* communication_requests.status, ABSENT before the INSERT
    pid,        \* communication_requests.pair_id (reciprocal_flag = TRUE iff not None)
    pairs,      \* the rows of reciprocal_pairs; a pair's id is its creator's
    lock,       \* who holds the row lock of a request
    pc,         \* where each handler is
    best,       \* the candidate a handler has chosen
    result,     \* how a handler's detection ended
    reply,      \* HTTP status a Posts handler has answered, 0 before
    todo,       \* requests a reading handler has loaded as PENDING
    announced   \* ids of the pairs pushed as RECIPROCAL_DETECTED

table == <<call, status, pid, pairs>>
handlers == <<pc, best, result, reply, todo>>
vars == <<now, table, lock, handlers, announced>>

PostSteps == {"idle", "validated", "stored", "lock_own", "search",
              "lock_candidate", "write_pair", "announce", "respond",
              "aborted", "done"}
OtherSteps == {"idle", "loaded", "overdue", "done"}
Statuses == {"ABSENT", "PENDING", "CANCELLED", "EXPIRED"}
Results == {"none", "no_match", "matched", "conflict", "error"}
Calls == [from : Users \cup {None}, to : Users \cup {None}, at : Nat]
Pairs == [id : Posts, a : Posts, b : Posts]

TypeOK ==
    /\ now \in Nat
    /\ call \in [Posts -> Calls]
    /\ status \in [Posts -> Statuses]
    /\ pid \in [Posts -> Posts \cup {None}]
    /\ pairs \subseteq Pairs
    /\ lock \in [Posts -> Posts \cup {None}]
    /\ pc \in [Posts \cup Cancels \cup Fetches -> PostSteps \cup OtherSteps]
    /\ best \in [Posts -> Posts \cup {None}]
    /\ result \in [Posts -> Results]
    /\ reply \in [Posts -> {0, 201, 422, 500}]
    /\ todo \in [Cancels \cup Fetches -> SUBSET Posts]
    /\ announced \subseteq Posts

Init ==
    /\ now = 0
    /\ call = [r \in Posts |-> [from |-> None, to |-> None, at |-> 0]]
    /\ status = [r \in Posts |-> "ABSENT"]
    /\ pid = [r \in Posts |-> None]
    /\ pairs = {}
    /\ lock = [r \in Posts |-> None]
    /\ pc = [h \in Posts \cup Cancels \cup Fetches |-> "idle"]
    /\ best = [r \in Posts |-> None]
    /\ result = [r \in Posts |-> "none"]
    /\ reply = [r \in Posts |-> 0]
    /\ todo = [h \in Cancels \cup Fetches |-> {}]
    /\ announced = {}

-----------------------------------------------------------------------------
(* Predicates on the tables *)

\* _is_eligible; reciprocal_flag and pair_id are always written together
Eligible(r) == status[r] = "PENDING" /\ pid[r] = None

\* (mutants) the boundary excluded; the difference without its absolute value
WithinWindowStrict(r, s) ==
    call[r].at - call[s].at < Window /\ call[s].at - call[r].at < Window
WithinWindowSigned(r, s) == call[r].at - call[s].at <= Window

\* _within_window: the boundary counts as a match
WithinWindow(r, s) ==
    /\ call[r].at - call[s].at <= Window
    /\ call[s].at - call[r].at <= Window

\* s is a call in the opposite direction of r
Reverse(r, s) ==
    /\ r # s
    /\ call[s].from = call[r].to
    /\ call[s].to = call[r].from

\* the condition under which expire_if_needed writes EXPIRED
Overdue(r) == now >= call[r].at + Ttl

\* the candidates of detect_reciprocal for r, those in the window
Candidates(r) ==
    {s \in Posts : Eligible(s) /\ Reverse(r, s) /\ WithinWindow(r, s)}

\* ordered by request_time, the first one: equal times come in any order
Earliest(S) == {s \in S : \A q \in S : call[s].at <= call[q].at}

\* (mutant) the later request first
RoleALater(r, s) == IF call[r].at <= call[s].at THEN s ELSE r

\* canonical ordering: request_a is the earlier one, and r itself on a tie
RoleA(r, s) == IF call[r].at <= call[s].at THEN r ELSE s
RoleB(r, s) == IF call[r].at <= call[s].at THEN s ELSE r

\* (mutant) the table without its constraints
NoConstraint(a, b) == FALSE

\* UNIQUE (request_a_id) and UNIQUE (request_b_id), each on its own column
UniqueConflict(a, b) == \E p \in pairs : p.a = a \/ p.b = b

\* (mutant) only request_a gets its link
LinkOnlyA(a, b, h) == [pid EXCEPT ![a] = h]

\* pair_id on both requests
Link(a, b, h) == [pid EXCEPT ![a] = h, ![b] = h]

Unlocked(r) == lock[r] = None
Released(h) == [r \in Posts |-> IF lock[r] = h THEN None ELSE lock[r]]

-----------------------------------------------------------------------------
(* POST /api/calls/request *)

\* (mutant) an unknown receiver answered as not found
RejectNotFound(h, u, v) ==
    /\ pc[h] = "idle"
    /\ v \notin Users \/ v = u
    /\ pc' = [pc EXCEPT ![h] = "done"]
    /\ reply' = [reply EXCEPT ![h] = 404]
    /\ UNCHANGED <<now, table, lock, best, result, todo, announced>>

\* create_call_request refuses an unknown receiver and a call to oneself.
Reject(h, u, v) ==
    /\ pc[h] = "idle"
    /\ v \notin Users \/ v = u
    /\ pc' = [pc EXCEPT ![h] = "done"]
    /\ reply' = [reply EXCEPT ![h] = 422]
    /\ UNCHANGED <<now, table, lock, best, result, todo, announced>>

\* create_call_request takes the request's time before it stores the row.
Validate(h, u, v) ==
    /\ pc[h] = "idle"
    /\ v \in Users \ {u}
    /\ call' = [call EXCEPT ![h] = [from |-> u, to |-> v, at |-> now]]
    /\ pc' = [pc EXCEPT ![h] = "validated"]
    /\ UNCHANGED <<now, status, pid, pairs, lock, best, result, reply, todo, announced>>

\* The commit of create_call_request: other sessions see the row from here on.
Insert(h) ==
    /\ pc[h] = "validated"
    /\ status' = [status EXCEPT ![h] = "PENDING"]
    /\ pc' = [pc EXCEPT ![h] = "stored"]
    /\ UNCHANGED <<now, call, pid, pairs, lock, best, result, reply, todo, announced>>

\* The refresh after the commit, the last time the session loads its own
\* request, and the eligibility checks made on that copy.
Refresh(h) ==
    /\ pc[h] = "stored"
    /\ IF Eligible(h)
         THEN /\ pc' = [pc EXCEPT ![h] = "lock_own"]
              /\ UNCHANGED result
         ELSE /\ pc' = [pc EXCEPT ![h] = "respond"]
              /\ result' = [result EXCEPT ![h] = "no_match"]
    /\ UNCHANGED <<now, table, lock, best, reply, todo, announced>>

\* (mutant) the candidate is not locked
AcquireOwnOnly(h, r) ==
    IF RowLocks /\ r = h
      THEN Unlocked(r) /\ lock' = [lock EXCEPT ![r] = h]
      ELSE UNCHANGED lock

\* SELECT ... FOR UPDATE on row r.
Acquire(h, r) ==
    IF RowLocks
      THEN Unlocked(r) /\ lock' = [lock EXCEPT ![r] = h]
      ELSE UNCHANGED lock

LockOwn(h) ==
    /\ pc[h] = "lock_own"
    /\ Acquire(h, h)
    /\ pc' = [pc EXCEPT ![h] = "search"]
    /\ UNCHANGED <<now, table, best, result, reply, todo, announced>>

\* The candidate query and the choice of the earliest one in the window.
Search(h) ==
    /\ pc[h] = "search"
    /\ \/ /\ Candidates(h) = {}
          /\ pc' = [pc EXCEPT ![h] = "respond"]
          /\ result' = [result EXCEPT ![h] = "no_match"]
          /\ UNCHANGED best
       \/ \E s \in Earliest(Candidates(h)) :
             /\ best' = [best EXCEPT ![h] = s]
             /\ pc' = [pc EXCEPT ![h] = "lock_candidate"]
             /\ UNCHANGED result
    /\ UNCHANGED <<now, table, lock, reply, todo, announced>>

\* The lock on the candidate.  The eligibility check that follows reads the
\* session's copy, loaded by Search, and never fails.
LockCandidate(h) ==
    /\ pc[h] = "lock_candidate"
    /\ Acquire(h, best[h])
    /\ pc' = [pc EXCEPT ![h] = "write_pair"]
    /\ UNCHANGED <<now, table, best, result, reply, todo, announced>>

\* PostgreSQL ends a cycle of waiting transactions by aborting one of them.
\* detect_reciprocal swallows that error and goes on; its next query fails
\* because the transaction is aborted.
NoDeadlockDetector(h) == FALSE \* (mutant) waiting transactions wait for ever
Waiting(h) == pc[h] = "lock_candidate" /\ ~Unlocked(best[h])
InCycle(h) ==
    \E S \in SUBSET Posts :
        /\ h \in S
        /\ \A s \in S : Waiting(s) /\ lock[best[s]] \in S
        /\ \A s \in S : \E q \in S : lock[best[q]] = s

Abort(h) ==
    /\ pc' = [pc EXCEPT ![h] = "aborted"]
    /\ result' = [result EXCEPT ![h] = "error"]
    /\ lock' = Released(h)
    /\ best' = [best EXCEPT ![h] = None]
    /\ UNCHANGED <<now, table, reply, todo, announced>>

DeadlockVictim(h) == RowLocks /\ InCycle(h) /\ Abort(h)

\* Any statement of the handler fails with an error other than
\* IntegrityError ("database is locked", a lost connection), and takes the
\* session with it: an aborted transaction of PostgreSQL, a flush or a commit
\* that fails, or what the response itself has to load.
DbError(h) ==
    /\ Faults
    /\ pc[h] \in {"validated", "stored", "lock_own", "search",
                  "lock_candidate", "write_pair", "announce", "respond"}
    /\ Abort(h)

\* On SQLite a query that fails leaves the transaction usable: the detection
\* ends, create_request swallows the error and answers all the same.  (Where
\* detect_reciprocal itself swallows it, at the two locks, it simply goes on.)
ErrorSwallowed(h) ==
    /\ Faults /\ ~RowLocks
    /\ pc[h] \in {"search", "write_pair", "announce"}
    /\ pc' = [pc EXCEPT ![h] = "respond"]
    /\ result' = [result EXCEPT ![h] = "error"]
    /\ UNCHANGED <<now, table, lock, best, reply, todo, announced>>

\* (mutant) the commit writes every column of the copies it has loaded
CommitWholeRows(h) ==
    LET a == RoleA(h, best[h])
        b == RoleB(h, best[h])
    IN  /\ pc[h] = "write_pair"
        /\ ~UniqueConflict(a, b)
        /\ pairs' = pairs \cup {[id |-> h, a |-> a, b |-> b]}
        /\ pid' = Link(a, b, h)
        /\ status' = [status EXCEPT ![a] = "PENDING", ![b] = "PENDING"]
        /\ lock' = Released(h)
        /\ result' = [result EXCEPT ![h] = "matched"]
        /\ pc' = [pc EXCEPT ![h] = "announce"]
        /\ UNCHANGED <<now, call, best, reply, todo, announced>>

\* One transaction inserts the pair and writes pair_id on both requests.
CommitPair(h) ==
    LET a == RoleA(h, best[h])
        b == RoleB(h, best[h])
    IN  /\ pc[h] = "write_pair"
        /\ ~UniqueConflict(a, b)
        /\ pairs' = pairs \cup {[id |-> h, a |-> a, b |-> b]}
        /\ pid' = Link(a, b, h)
        /\ lock' = Released(h)
        /\ result' = [result EXCEPT ![h] = "matched"]
        /\ pc' = [pc EXCEPT ![h] = "announce"]
        /\ UNCHANGED <<now, call, status, best, reply, todo, announced>>

\* IntegrityError: roll back, and match only if its own request has a pair now.
Conflict(h) ==
    /\ pc[h] = "write_pair"
    /\ UniqueConflict(RoleA(h, best[h]), RoleB(h, best[h]))
    /\ lock' = Released(h)
    /\ result' = [result EXCEPT ![h] = IF pid[h] # None THEN "matched" ELSE "conflict"]
    /\ pc' = [pc EXCEPT ![h] = "respond"]
    /\ UNCHANGED <<now, table, best, reply, todo, announced>>

\* (mutant) the pair is stored and nobody is told
AnnounceNobody(h) ==
    /\ pc[h] = "announce"
    /\ pc' = [pc EXCEPT ![h] = "respond"]
    /\ UNCHANGED <<now, table, lock, best, result, reply, todo, announced>>

\* _broadcast_pair_detected, after the refreshes that follow the commit.
Announce(h) ==
    /\ pc[h] = "announce"
    /\ announced' = announced \cup {h}
    /\ pc' = [pc EXCEPT ![h] = "respond"]
    /\ UNCHANGED <<now, table, lock, best, result, reply, todo>>

\* The response; closing the session ends its transaction.
Respond(h) ==
    /\ pc[h] = "respond"
    /\ reply' = [reply EXCEPT ![h] = 201]
    /\ lock' = Released(h)
    /\ best' = [best EXCEPT ![h] = None]
    /\ pc' = [pc EXCEPT ![h] = "done"]
    /\ UNCHANGED <<now, table, result, todo, announced>>

\* create_request swallows the error of the detection, but building the
\* response needs the session, which is unusable until a rollback.
RespondError(h) ==
    /\ pc[h] = "aborted"
    /\ reply' = [reply EXCEPT ![h] = 500]
    /\ pc' = [pc EXCEPT ![h] = "done"]
    /\ UNCHANGED <<now, table, lock, best, result, todo, announced>>

-----------------------------------------------------------------------------
(* POST /api/calls/{request_id}/cancel *)

\* An UPDATE waits for a row lock held by another transaction.
SetStatus(r, s) ==
    /\ Unlocked(r)
    /\ status' = [status EXCEPT ![r] = s]

\* cancel_request loads the request and checks the caller, whether it is
\* overdue, and the status.
CancelLoad(c, u, r) ==
    /\ pc[c] = "idle"
    /\ status[r] # "ABSENT"
    /\ IF call[r].from = u /\ status[r] = "PENDING"
         THEN /\ pc' = [pc EXCEPT ![c] = IF Overdue(r) THEN "overdue" ELSE "loaded"]
              /\ todo' = [todo EXCEPT ![c] = {r}]
         ELSE /\ pc' = [pc EXCEPT ![c] = "done"]
              /\ UNCHANGED todo
    /\ UNCHANGED <<now, table, lock, best, result, reply, announced>>

\* It writes what it has found after the load, EXPIRED (and refuses) or
\* CANCELLED, also over what the row holds or has become overdue by now.
CancelCommit(c) ==
    /\ pc[c] \in {"loaded", "overdue"}
    /\ \E r \in todo[c] : SetStatus(r, IF pc[c] = "overdue" THEN "EXPIRED" ELSE "CANCELLED")
    /\ todo' = [todo EXCEPT ![c] = {}]
    /\ pc' = [pc EXCEPT ![c] = "done"]
    /\ UNCHANGED <<now, call, pid, pairs, lock, best, result, reply, announced>>

-----------------------------------------------------------------------------
(* GET /api/calls and GET /api/calls/{request_id} *)

\* The requests a user may read: those it is the caller or the receiver of.
Mine(u) == {r \in Posts : status[r] # "ABSENT" /\ u \in {call[r].from, call[r].to}}

\* get_my_requests loads all of them, get_request_by_rid one.
FetchLoad(f, S) ==
    /\ pc[f] = "idle"
    /\ todo' = [todo EXCEPT ![f] = {r \in S : status[r] = "PENDING"}]
    /\ pc' = [pc EXCEPT ![f] = "loaded"]
    /\ UNCHANGED <<now, table, lock, best, result, reply, announced>>

\* expire_if_needed writes EXPIRED over whatever the row holds by now.  Its
\* commit drops the session's copies: the rest is loaded again.
Expire(f, r) ==
    /\ pc[f] = "loaded"
    /\ r \in todo[f]
    /\ Overdue(r)
    /\ SetStatus(r, "EXPIRED")
    /\ todo' = [todo EXCEPT ![f] = {q \in todo[f] \ {r} : status[q] = "PENDING"}]
    /\ UNCHANGED <<now, call, pid, pairs, lock, pc, best, result, reply, announced>>

\* expire_if_needed leaves a request alone that is not overdue at its turn.
Keep(f, r) ==
    /\ pc[f] = "loaded"
    /\ r \in todo[f]
    /\ ~Overdue(r)
    /\ todo' = [todo EXCEPT ![f] = @ \ {r}]
    /\ UNCHANGED <<now, table, lock, pc, best, result, reply, announced>>

FetchDone(f) ==
    /\ pc[f] = "loaded"
    /\ todo[f] = {}
    /\ pc' = [pc EXCEPT ![f] = "done"]
    /\ UNCHANGED <<now, table, lock, best, result, reply, todo, announced>>

-----------------------------------------------------------------------------
Tick ==
    /\ now < MaxTime
    /\ now' = now + 1
    /\ UNCHANGED <<table, lock, handlers, announced>>

Accept(h) == \E u \in Users : \E v \in Users \cup {Stranger} : Reject(h, u, v) \/ Validate(h, u, v)

\* The steps of a handler that has accepted its request.
Progress(h) ==
    \/ Insert(h) \/ Refresh(h) \/ LockOwn(h) \/ Search(h) \/ LockCandidate(h)
    \/ DeadlockVictim(h) \/ CommitPair(h) \/ Conflict(h)
    \/ Announce(h) \/ Respond(h) \/ RespondError(h)

Cancel(c) == CancelCommit(c) \/ \E u \in Users, r \in Posts : CancelLoad(c, u, r)

Fetch(f) ==
    \/ \E u \in Users : FetchLoad(f, Mine(u)) \/ \E r \in Mine(u) : FetchLoad(f, {r})
    \/ \E r \in Posts : Expire(f, r) \/ Keep(f, r)
    \/ FetchDone(f)

Next ==
    \/ Tick
    \/ \E h \in Posts : Accept(h) \/ Progress(h) \/ DbError(h) \/ ErrorSwallowed(h)
    \/ \E c \in Cancels : Cancel(c)
    \/ \E f \in Fetches : Fetch(f)

Spec == Init /\ [][Next]_vars

\* The server runs every handler it has accepted to its end; nothing obliges
\* a client to call, the clock to reach a given time, or a statement to fail.
Fairness ==
    /\ \A h \in Posts : WF_vars(Progress(h))
    /\ \A c \in Cancels : WF_vars(CancelCommit(c))

FairSpec == Spec /\ Fairness

-----------------------------------------------------------------------------
(* Safety *)

\* A pair joins two different stored requests in opposite directions, made
\* within the window of each other, the earlier one as request_a: whatever
\* interleaving of detections, cancellations and expiries formed it.
PairsReciprocal ==
    \A p \in pairs :
        /\ p.a # p.b
        /\ status[p.a] # "ABSENT" /\ status[p.b] # "ABSENT"
        /\ call[p.a].from = call[p.b].to /\ call[p.a].to = call[p.b].from
        /\ call[p.a].at <= call[p.b].at /\ call[p.b].at <= call[p.a].at + Window

\* The two tables agree although a pair is written from stale copies: a
\* request has a pair_id exactly when a pair has the request, and the pair its
\* pair_id names is one of those it is in.
LinksMatchPairs ==
    \A r \in Posts :
        /\ \A p \in pairs : r \in {p.a, p.b} => pid[r] # None
        /\ pid[r] # None => \E p \in pairs : p.id = pid[r] /\ r \in {p.a, p.b}

\* Both detections of a mutual call may run at once and find each other, and
\* the couple still forms one pair.  On PostgreSQL the row locks see to it;
\* without them the unique constraints do, unless both requests carry the
\* same time and each detection takes its own request for request_a.
OnePairPerCouple ==
    \A p, q \in pairs :
        {p.a, p.b} = {q.a, q.b} =>
            \/ p = q
            \/ ~RowLocks /\ call[p.a].at = call[p.b].at

\* When two opposite requests in the window are both stored, pending and
\* unpaired after their handlers have ended, one of the two detections failed
\* or lost its candidate to another pair: no order of the two commits and the
\* two searches makes both miss each other.
NoMissedPair ==
    \A r, s \in Posts :
        ( /\ pc[r] = "done" /\ pc[s] = "done"
          /\ Reverse(r, s)
          /\ Eligible(r) /\ Eligible(s)
          /\ call[r].at <= call[s].at /\ call[s].at <= call[r].at + Window )
        => \E h \in {r, s} : result[h] \in {"conflict", "error"}

\* What one handler writes, no other undoes: a link to a pair is never
\* cleared, a cancelled or expired request never becomes pending again, and a
\* stored pair is never removed, though every handler writes from a copy that
\* may be stale.
NoLostUpdates ==
    [][ /\ pairs \subseteq pairs'
        /\ \A r \in Posts :
              /\ pid[r] # None => pid'[r] # None
              /\ status[r] \in {"CANCELLED", "EXPIRED"}
                    => status'[r] \in {"CANCELLED", "EXPIRED"} ]_vars

(* Liveness *)

\* Every call the server accepts is answered, also when detections wait for
\* each other's rows.
EveryCallAnswered == \A h \in Posts : pc[h] = "validated" ~> reply[h] # 0

\* Every pair stored is pushed to its two users' connections.
EveryPairAnnounced == \A h \in Posts : (\E p \in pairs : p.id = h) ~> h \in announced

-----------------------------------------------------------------------------
(* What the repository says and the code does not do *)

\* models/reciprocal_pair.py:56 "Each communication request can participate in
\* at most ONE pair".  The two constraints are on one column each: a request
\* can be request_b of one pair and request_a of another.
OnePairPerRequest ==
    \A p, q \in pairs : {p.a, p.b} \cap {q.a, q.b} # {} => p = q

\* tests/test_reciprocal.py:213 "If A->B is cancelled, B->A must not form a
\* pair".  A request cancelled after the candidate query is still paired.
CancelledNeverPaired ==
    [][\A p \in pairs' \ pairs : status[p.a] # "CANCELLED" /\ status[p.b] # "CANCELLED"]_vars

\* routers/calls.py:121 "A failure here must NOT prevent the call request from
\* being returned".  After a failed detection the session cannot load what the
\* response needs, and the stored request is answered with 500.
FailedDetectionStillAnswered == \A h \in Posts : status[h] # "ABSENT" => reply[h] # 500

=============================================================================
