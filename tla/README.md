# SmartDial: a TLA+ model

SmartDial detects that two users are calling each other at the same moment, and
decides which of the two calls goes ahead. A FastAPI backend (`src/backend`)
stores the calls, finds the pairs, decides and pushes the decision; a Flutter
application (`src/frontend`) places the calls and obeys what it is told.

The modules here are translated from the code. Line numbers of every definition
are in `PROJECT.json` under `map`; the disagreements found between the code and
what the repository says of it are under `findings`, the parts of the code that
are hard to test under `hazards`.

## 1. Inventory

| Component | State | Operations | What makes it correct |
|---|---|---|---|
| **Call registry** (`models/communication_request.py`, `services/call_request_service.py`, `routers/calls.py`) | table `communication_requests`: caller, receiver, time, status, `pair_id` | create (validate, insert, then run the detection), cancel, read with lazy expiry | what one handler has written no other undoes; every accepted call is answered |
| **Reciprocal detection** (`services/reciprocal_detection_service.py`, `models/reciprocal_pair.py`) | table `reciprocal_pairs`, `pair_id` on both requests, row locks | detect, read own pairs, push `RECIPROCAL_DETECTED` | pairs join opposite calls in the window; both tables agree; one pair for a couple; no mutual call goes unnoticed |
| **Conflict resolution engine** (`services/conflict_resolution_engine.py`) | none | `resolve`, `get_user_action` | do-not-disturb holds; the order of the calls decides between tied users and no others; what is selected is what is allowed |
| **Context engine** (`services/context_engine.py`) | none | snapshot of the two users' settings | the snapshot the verdict rests on |
| **Decision service** (`services/decision_service.py`, `models/communication_decision.py`, `routers/decision.py`) | table `communication_decisions`, one row for a pair | evaluate, respond, get, push `DECISION_RESOLVED` | one decision for a pair, replaced by explicit choices only; the callers are told what is stored |
| **Preferences** (`routers/users.py`) | columns of `users`; a copy in MongoDB | patch field by field | a value set is the one the engine uses and the one a restart brings back |
| **Push channel** (`services/connection_manager.py`, `routers/websocket.py`, `websocket_service.dart`) | sockets by user, under an asyncio lock | connect, disconnect, publish from a worker thread, send to each socket of a user | an event reaches every socket that was registered when it was published, once and in order |
| **Calling screen** (`calling_screen.dart`, `telecom_service.dart`) | `_simCallStarted`, `_isPlacingCall`, `_decisionAction`, the 1.2 s auto-dial timer, the routes over the screen | dial on the timer or on PROCEED, follow the telephone into the in-call screen, cancel | the last instruction is the one the screen is left with; it asks for its call after PROCEED and for none after STANDBY |
| **User store** (`models/user.py`, `mongodb.py`, `routers/auth.py`) | SQLite table and its MongoDB copy; tokens that name an id | register, log in; restore at startup, at the login of an unknown email, and at a call to an unknown phone number | an account survives the loss of the table with its id, phone and settings; a token never comes to name somebody else |
| **OTP** (`services/otp_service.py`) | document in MongoDB and its in-memory twin | send, verify, count attempts | a code verifies once, before it expires, within the attempts allowed; the newest one is the one that counts |
| **In-call service** (`SmartDialInCallService.kt`, `TelecomChannel.kt`, `incall_screen.dart`) | calls by hash code, one event sink, the screens listening to it | call added, changed, removed; answer, end, mute, hold | one screen closes for one ended call; no event of a live call is lost |
| Other screens, schemas, phone normalizer, settings, migrations, platform runners | none shared | one-shot requests, formats, layout, generated code | not modelled |

**How they interact.** `POST /api/calls/request` stores the request, commits,
and runs the detection in the same session. The detection commits the pair and
pushes an event to both users. A client of the API asks for the evaluation with
`POST .../decision` (the tests and the testing guide do; the Flutter application
has no such call): it loads the two users, runs the engine, stores its verdict
and pushes PROCEED, STANDBY or BLOCK to each side. A user may replace the
decision with `.../decision/respond`, which the application offers in its
ASK_USER sheet. Every push goes through the push channel to the calling screen,
which dials on PROCEED or when its timer ends. Each commit of an account is
copied to MongoDB, and the copies come back when the table is empty or lacks the
account that is asked for.

**What is hard here.**

- Endpoints are synchronous functions: the server runs them in a pool of
  threads, each with its own database session, and any statement of one may
  come between two statements of another.
- A session answers `db.get` from the objects it has already loaded. What the
  detection calls a re-fetch after the lock reads nothing, and the user that
  `get_current_user` loaded is the one `build_context` sees. An UPDATE writes
  the columns whose value changed in the session, and no others.
- `SELECT ... FOR UPDATE` locks on PostgreSQL (`docs/architecture.md`) and is a
  plain SELECT on SQLite, which `render.yaml` deploys.
- An error of the detection is caught, but not what it has done to the session.
- Pushes go to whoever is connected at that moment, in the order the handlers
  happen to run.
- Timers of the application race the pushes; MongoDB copies race each other.

## 2. Modules

### CallIntents: call registry and reciprocal detection

One action is one statement (or one commit) with the Python code up to the next
statement.

| In the model | In the code |
|---|---|
| `call`, `status`, `pid` | a row of `communication_requests`; `pid[r] # None` is also `reciprocal_flag`, as the two are always written together |
| `pairs` | rows of `reciprocal_pairs`; a pair is named by the handler that created it |
| `lock` | the row locks of PostgreSQL; unused when `RowLocks = FALSE` |
| `pc`, `best`, `result`, `reply`, `todo` | where a handler stands, and its local variables |
| `announced` | the pairs pushed by `_broadcast_pair_detected` |
| `Reject`, `Validate`, `Insert` | `create_call_request` |
| `Refresh`, `LockOwn`, `Search`, `LockCandidate` | `detect_reciprocal`: copy of the own request, its lock, the candidate query, the candidate's lock |
| `CommitPair`, `Conflict`, `Announce` | the transaction that writes the pair and both links; the IntegrityError branch; the push |
| `DeadlockVictim`, `DbError`, `RespondError` | the database aborts a cycle of waiting transactions; a statement fails; the response that cannot be built after it |
| `ErrorSwallowed` | on SQLite the transaction survives a statement that fails: the detection ends, `create_request` swallows the error and answers 201 |
| `Respond` | the answer 201; closing the session releases its locks |
| `CancelLoad`, `CancelCommit` | `cancel_request`: whether the request is overdue is seen when it is loaded, and its commit writes EXPIRED or CANCELLED accordingly |
| `FetchLoad`, `Expire`, `Keep`, `FetchDone` | `get_my_requests`, `get_request_by_rid`, `expire_if_needed` |

The check of the candidate after its lock is part of `LockCandidate` and has no
other outcome: it looks at the copy that `Search` has loaded, which was
eligible. The stale copies themselves need no variable. The columns the commit
writes do not depend on them, and the branches that read them read values fixed
when the copy was loaded.

### Resolution and ResolutionRun: the engine

`Resolution` is the priority list of `resolve` as a function of two profiles. A
profile is what the engine looks at: preference, do-not-disturb, and whether
the other caller is a VIP contact. `get_user_action` is `Instruction`. The
module also states what such an engine should promise (`DndRespected`,
`OrderBreaksTiesOnly`, `VipNeverLoses`, `Consistent`), against which the rules
are checked. `ResolutionRun` lets two users change their settings field by
field, as the preferences endpoint does, and states the promises of what they
have reached: all 400 pairs of profiles.

`OrderBreaksTiesOnly` goes both ways. Users are tied (`Tied`) when both have
do-not-disturb on and list each other, or when neither has it on, both or none
list the other, neither blocks, and their preferences are the same or one is
ALWAYS_ALLOW. Between tied users the same place in the order goes ahead,
whoever has it: the order really decides. Between any other two the verdict is
the mirror image of the one they would have had in the other order.

Two docstrings of the engine disagree with the rules below them. One lists
BLOCK_RECIPROCAL first, where do-not-disturb and VIP contacts come before it;
the other ends in ASK_USER, where the code ends in the default policy and allows
the first call. The model follows the code. The engine never yields ASK_USER
(`Decisions_proofs`, lemma `ResolveSettled`).

### DecisionLedger and Decisions: the decision of one pair

`DecisionLedger` is the abstract specification: a pair is undecided, then has a
verdict of the engine, then only explicit choices of users. `Decisions` is the
service: evaluations that authenticate (loading the caller's settings), look for
an existing row, build the context, insert and push, and responses that load the
row, write the columns that differ, and push. `Decisions!OneDecision` is
`DecisionLedger` with `decision <- row`.

| In the model | In the code |
|---|---|
| `profile`, `updates`, `UpdatePreferences` | the two users' rows, changed by other handlers meanwhile |
| `row` | the pair's row in `communication_decisions`; type, selected request and reason |
| `own` | the caller's row as the session has it since `get_current_user` |
| `Authenticate`, `CheckExisting`, `BuildContext`, `Insert` | `evaluate_decision` |
| `Load`, `Write`, `Merge` | `respond_to_decision`, and the UPDATE of changed columns only |
| `Reload`, `TellA`, `TellB`, `told` | refresh and `_broadcast_decision_resolved`, one push for each side |

`SelectionMatchesType` rests on a fact that is not local. A mixed row (type of one response, selected request of another) is impossible only
because in every storable verdict the type determines the request: merging two
such verdicts column by column gives one of them back.

### UserStore: accounts and their copy

One action is one statement or one commit of a handler with the code up to the
next, or one call of MongoDB.

| In the model | In the code |
|---|---|
| `users`, `copies`, `extras` | table `users` and collection `users`: id, phone and settings for each email; the document found by email, and any others of that email |
| `tokens` | the tokens handed out: the id they name, and (ghost) the person |
| `job` | where each handler stands, and the row or document it holds |
| `CheckEmail`, `CheckPhone`, `Insert` | `register`, the unique constraints at its commit |
| `Authenticate`, `CommitChange` | `get_current_user` and `update_preferences`, which writes the column only if its value differs from the one loaded |
| `Refresh`, `Copy`, `Add`, `CopyFails` | `db.refresh` and `sync_user_to_mongo` after the commit: the upsert replaces the document it finds (`Copy`), or inserts one (`Add`), also if another upsert has inserted one meanwhile, as the collection has no unique index |
| `Login`, `LoginUnknown`, `CallUnknown`, `Fetch`, `Restore` | the login, and the two endpoints that look an unknown account up in MongoDB: `login` by email, `create_request` by phone |
| `Restart`, `Doubled` | the process ends, with the table's file or without; the next one runs `sync_from_mongo_to_db`, whose one commit fails for all accounts if one without a row has two documents |
| `parted`, `failed` (ghosts) | accounts whose document may have fallen behind; whether some startup could not read the documents, or brought none back because of two of one account |

Ids are given out again after a loss of the table, as SQLite counts from the
largest one present. That nobody gets another person's id rests on the restore
at startup coming before any registration, on all documents going in together,
on every registration having been copied, and on no account having two documents.

### Otp: one-time codes

One action is one call of MongoDB or one access to the dictionary.

| In the model | In the code |
|---|---|
| `doc`, `others`, `mem` | the document of the phone that is found, others it has beside that, and its entry in `_MEMORY_OTP_STORE` |
| `Generate`, `Save`, `Insert`, `SaveFails`, `Remember` | `send_otp`; its upsert replaces the document it finds, or inserts one beside what another has inserted meanwhile |
| `Begin`, `Read`, `ReadFails`, `Examine` | `verify_otp`: the document, or the dictionary if there is none or no answer; expiry and attempts |
| `Match`, `Delete`, `DeleteFails`, `Forget` | the right code |
| `Mismatch`, `Count`, `CountFails` | a wrong one: the record that was read, then `$inc` of the document |
| `dead`, `Expire` | the codes expired; `now` in a job is the clock the handler has read |
| `used`, `undeleted`, `uncounted`, `wrong`, `clear`, `late` (ghosts) | what the properties have to remember |

### PushChannel, CallingScreen and Coordination

`PushChannel` is the event loop with the manager's registry. Handlers publish
from threads by appending to the loop's queue; an action of the loop is a
coroutine up to the next send that waits. `CallingScreen` is the screen of each
phone, one action for each callback up to its first await. `Coordination`
composes them with the phone's `WebSocketService` and with the engine's
instructions (`Resolution`). What becomes of a call the
telephone has taken is left out: the code of the calling screen reads none of it,
except through the call events, which come in their own time or, if SmartDial is
not the default phone app, never.

| In the model | In the code |
|---|---|
| `registered`, `looping` | `_active_connections`, `ConnectionManager.loop` |
| `ready`, `sending` | coroutines the loop has not begun; `send_to_user` in the midst of its sends, with its copy of the sockets |
| `Accept`, `Register`, `End` | `websocket_call_events`: accept, the rest of `connect`, `disconnect` after an error or a close |
| `Publish`, `Scatter` | the two `publish_*_threadsafe`; `broadcast_to_users` making a coroutine for each receiver |
| `Start`, `Continue`, `Finish` | `send_to_user`: copy and first send, the others, removal of the sockets that failed |
| `wire`, `broken`, `Break` | what is under way on a line, and lines that have died (external) |
| `written`, `owed`, `shared`, `personal` (ghosts) | what the properties have to remember |
| `timer`, `action`, `started`, `flag`, `listening` | the auto-dial timer, `_decisionAction`, `_simCallStarted`, `_isPlacingCall`, `_eventSub` |
| `shown`, `above` | the screen's own route and those over it: `Navigator.pop` and `pushReplacement` act on the topmost |
| `placing`, `cancels` | requests (`placeCellularCall`, the cancel endpoint) that have not returned |
| `dials` | requests to place a call, ever |
| `conn`, `Connect`, `Lost`, `Arrive` | `_socket` and `_isConnecting`; `connect`, `_onDisconnect`, `_onMessage` |
| `last`, `turns` | ghost: the last instruction published to a phone's user; the bound on the environment |

## 3. Runs

| Run | Question | Bounds |
|---|---|---|
| `intents_sqlite` | no row locks, and any statement may fail: are the two tables sound, is a couple paired once and not missed, and is nothing undone, although a detection's error is swallowed? | three requests, a cancellation, `MaxTime` 2 |
| `intents_faults` | row locks, and any statement may fail: is what is left behind consistent, and does nobody undo another's write? | two requests, a cancellation, a read, `MaxTime` 3 |
| `intents_postgres` | row locks, three detections at once, under fairness: is every call answered and every pair pushed, deadlocks included? | three requests, `MaxTime` 1 |
| `resolution` | the engine's promises | none, all profiles |
| `decisions` | one decision for a pair; told what is stored | two evaluations, two responses, one profile change |
| `user_store` | two people, two handlers at a time, failing copies, restarts with and without the table: do accounts and tokens keep their meaning? | one setting, ids to 2, one token once a startup has failed (`FewTokens`) |
| `otp` | two requests at a time, either store failing, expiry, restarts: is a used code used up, does the newest stand, are wrong entries limited? | two codes, `MaxAttempts` 2 |
| `coordination` | lines break, another device connects, the telephone reports calls: does what a phone may rely on reach it, and does it dial after PROCEED and no more after STANDBY? | one phone and one other user, two connections, two events, two turns of the environment |
| `finding_*` | four statements of the repository the code does not keep (section 6) | the smallest instance that shows each |

**Why these bounds are enough.** A pair takes two requests. A third is what it
takes for two detections to want the same candidate, for a candidate to be lost
to another pair, and for a request to sit in two pairs. Two users give requests
in both directions and several in one direction; a third user's calls are
candidates of nobody. `Window = 1` and `Ttl = 2` with a clock to 2 or 3 have
requests inside, on and outside the window boundary, and requests that expire at
the tick their time ends while another handler works on them. One cancellation
meets every step of three detections, and one cancellation and one read every
step of two. Two evaluations and two responses
are the smallest number in which two of each race; the two profiles of
`FewSetups` give opposite verdicts, so that it shows whose verdict is stored.

In `user_store` two people are what it takes for an id, an email or a phone to be
wanted twice, and two handlers for copies that overlap or a registration that
meets a restore; handlers are used again, so histories are as long as the
identifiers allow. Once a startup has failed (`failed`) the properties about
tokens and lost accounts say nothing more; `FewTokens` keeps such states to one
token, which is what a change of preferences needs, and leaves the others as
they are. In `otp` a second code is what makes a late deletion or count
hit the wrong one. In `coordination` two events are the fewest that can come in
the wrong order, and two connections are a phone's line with another device, or
with the one it opens after a loss; the two turns are what the network, the
telephone and the users contribute (a line that dies and a call that is
reported, say), the phone's and the server's own steps being unlimited.

`MaxTime`, `MaxUpdates`, `MaxId`, `MaxCodes`, `MaxEvents` and `MaxTurns` are the
only bounds on counters. In `CallIntents` and `Decisions` calls are in finite
sets of handlers, each used once. `intents_faults` does not repeat `TypeOK`, which
`intents_sqlite` checks and `CallIntents_proofs` proves for both modes. Symmetry over requests, users and calls of one
endpoint is used in runs without liveness properties only.

Deadlock is not checked: with every call ended and the clock, or the events, at
their bound the system has nothing left to do. That no call hangs is what `EveryCallAnswered`
says.

**Fairness.** `FairSpec` (`intents_postgres`) has weak fairness on the steps of accepted handlers
(`Progress`, `CancelCommit`): the server runs a handler it has accepted to its
end, a lock that is released is granted, and PostgreSQL resolves deadlocks.
Nothing obliges a client to call, the clock to advance, or a statement to fail.
Weak fairness is enough because a handler waiting for a lock is enabled again
once the lock's holder, itself fair, has ended, and no other handler can take
the lock for ever: there are finitely many, each ends.

## 4. Proofs

`CallIntents_proofs` holds for any users, requests, cancellations and reads, any
window and time to live, with and without row locks and failing statements.
The constants' assumptions used are that times are naturals, the two modes are
Boolean, `None` is no request and the three kinds of handlers are disjoint.

- `Invariant`: the inductive invariant `IInv`. None of the safety properties is
  inductive alone. What has to be added: a request is stored from its handler's
  insert on (`StoredInv`), so are those a reader has loaded (`TodoInv`); a
  handler's candidate is a stored, opposite call within the window
  (`CandidateInv`), whatever has become of its status; the two unique
  constraints (`UniqueRoles`); and, with row locks, who holds which row and that
  nobody pairs the two rows meanwhile (`LockInv`).
- `TypeCorrect`, `PairsAreReciprocal`, `LinksAgree`, `CouplesPairOnce` are
  `TypeOK`, `PairsReciprocal`, `LinksMatchPairs` and `OnePairPerCouple`.
- `NothingUndone` is the action property `NoLostUpdates`, step by step from
  `IInv`.
- `NoPairMissed` is `NoMissedPair`, from a second invariant relative to `IInv`:
  of two requests that could form a pair, at most one belongs to a detection
  that found nothing (`SearchInv`), because of two detections the one that
  searches later finds the other's request stored; and what a handler's result
  says of how far it came (`ResultInv`).

`Decisions_proofs` holds for any number of evaluations, responses and profile
changes.

- `OneDecisionHolds`: every behaviour of `Decisions` is one of `DecisionLedger`.
  The step that matters is a response's write, which merges columns with a row
  that may have been replaced since it was loaded. Lemma `MergeFacts` shows that
  the merged row is one of the explicit choices, provided the loaded row and the
  present one are settled verdicts and that the row's reason became
  EXPLICIT_USER_CHOICE if the loaded one had it. That is the invariant `DInv`.
- `SelectionMatches` is `SelectionMatchesType`, from the same invariant.
- `DecisionTypeCorrect` is `TypeOK`.
- `AnnouncedOnce`, `FinalDecisionIsTold` are `OneAnnouncement` and
  `FinalDecisionTold`, from `ToldInv`. The second speaks of the end, when no call
  runs, so the invariant has to say what holds before: for each side the stored
  decision has been told, or a call that has yet to read it, or holds it and has
  not reached that side, will tell it (`ToldOrWillBe`). The first needs that
  until a user chooses only the call that inserted the row announces
  (`OneAnnouncer`).

`UserStore_proofs` holds for any finite sets of people and handlers, any phones
and settings and any bound on the ids; the assumption used beside the finiteness
is that `None` is neither an account nor a phone.

- `CopiesAreCurrent`, `NoneIsLeftBehind`, `TokensKeepTheirOwner` are
  `CopyCurrent`, `NothingLeftBehind` and `TokensHold`, from one invariant,
  `StoreInv`, because each needs the others: that a token's owner still has its
  id after a restore needs the documents to have the rows' ids, which needs each
  handler that is about to copy to carry the row as it is, or the account to be
  known as parted (`Placed`), and that the rows never conflict. A new row's id is
  in no row (`NextIdIsNew`): `Max` of a finite set of numbers is found as a minimal
  element of a well-founded order on its subsets, as induction over a set is
  beyond the prover (`MaxFacts`).
- `AccountsAreKept` is the action property `AccountsSurvive`, step by step from
  `StoreInv`. On the way to `StoreInv` lemma `StepRestore` shows when the fallbacks
  of the login and of the call matter at all: they insert a row only if some
  startup could not bring the documents back. Otherwise the row is always there.
  Of the further documents of an account the invariant needs only that it then
  has one that is found by email too: such an account has its row, so nothing is
  restored from them.

`Otp_proofs` holds for any finite set of handlers, any number of codes and any
`MAX_ATTEMPTS`; `None` is no record.

- `BaseInv`: `TypeOK`, and which codes may be where. A code that is being sent is
  sent by one handler and has not been delivered.
- `CodesAreUsedOnce` is `SingleUse`, from `UseInv`: a used code is in neither
  store, a document MongoDB failed to delete apart, and no handler that began
  later holds it. Between the deletion and the answer no document of the code can
  come back, because nobody sends a code that has been delivered (`BaseInv`).
- `LastCodeStands` is `NewestCodeStands`, from `ClearInv`: while the last code
  stands alone, nobody is about to delete a document or to save another code.
- `GuessesAreBounded` is `GuessesBounded`, from `GuessInv`, which counts. While a
  document is there, its attempts and the handlers that have yet to count make up
  for every wrong entry compared with it; the comparisons made and those under way
  stay within the bound; and before a code is saved nothing is compared with it.
  The bound is on sets of handlers, so each step shows which set a handler joins
  or leaves.

`Resolution_proofs` shows the engine's promises for any two profiles (four
lemmas, one for each operator of `Resolution`), and that the rows stay profiles
under the preferences endpoint (`TypeCorrect`); `DndIsRespected`,
`OrderDecidesTies`, `VipsNeverLose` and `VerdictsAreCoherent` follow.

`PushChannel_proofs`, `Coordination_proofs` and `Delivery_proofs` hold for any
users, phones, sockets and bounds on events and on the environment; the
assumptions used are that phones belong to users, that the bounds are naturals,
that `Nobody` is no user, and that `NoSocket` and `Connecting` are no sockets.

- `ChannelInvariant`: the inductive invariant `ChannelInv`, one lemma for each
  action of the channel. To `NothingDropped` it adds that a live socket that is
  owed something is registered and that only broken sockets are forgotten
  (`RegistryInv`); to `InOrder` that the queue is in the order of publication and
  later than whatever has been written (`QueueInv`, `NumberInv`), and that a
  socket without company is the only one of its user and never waits in the midst
  of a send (`AloneInv`). The hard step is `Scatter`, which
  reorders the queue and does so for events outside `personal` only.
- `NothingIsDropped`, `EventsInOrder` are `NothingDropped` and `InOrder`.
- `FlagIsRight` is the invariant of the screens, `DialInv`: while a screen is
  mounted, `_isPlacingCall` is raised exactly if one request to place a call has
  not returned, although whichever request returns lowers it; and a screen whose
  last instruction is PROCEED has asked for a call unless one was reported. A
  call that the platform has taken is no such request: section 5.
- `LastInstructionIsHeard` is `InstructionHeard`, the end-to-end property of the
  composition: from the server's queue over the line to the screen. `DeliveryInv`
  follows one instruction. What carries the number of a user's last instruction
  says what that instruction says, wherever it is (`CarriedInv`); once it is
  written to a line the phone may rely on, it is the last instruction on that
  line, or the line holds none and the screen has it (`HeardInv`). That nothing
  drops it before is `NothingDropped`; by `InOrder` whatever is written to that line
  after it has a later number, which no instruction for this user has.
- `StandbyIsFollowed` and `ProceedIsFollowed` are `StandbyIsKept` and
  `ProceedPlacesCall`. They put the two halves together: what a phone that may
  rely on its line has heard is what its user was last told (`DeliveryInv`), and
  what a screen does with what it has heard is in `DialInv` and in the two places
  that dial.
- `SystemTypeCorrect` is the type invariant of `Coordination`, from the types in
  `DeliveryInv` and the count of the environment's turns.

**Only model-checked:** the liveness properties (`EveryCallAnswered`,
`EveryPairAnnounced`: fairness and ENABLED are beyond the prover), and the
findings, which TLC refutes. Every invariant and action property that a passing
run checks is also a theorem.

## 5. What the properties do not say

`OnePairPerCouple` allows two pairs for one couple without row locks when both
requests carry the same time: each detection takes its own request for
`request_a`, and no constraint spans both columns. `FinalDecisionTold` asks that
the final decision has been pushed to both, not that it was the last push, which
the code does not ensure. `EveryPairAnnounced` is checked without failing
statements: an error between the commit of a pair and its push leaves it
unannounced. "Announced" means handed to the push channel.

**Accounts.** `CopyCurrent` and `AccountsSurvive` exclude an account once a copy of
it failed, was cut off by a restart or overlapped with another: the code has no
way to tell that its document is behind, and the next loss of the table brings
the old document back. A call by phone number restores an account with default
settings (`calls.py:76`), and the next change copies those to MongoDB; such an
account is excluded too. `TokensHold`, `NothingLeftBehind` and `AccountsSurvive`
speak of histories in which every startup could bring the documents back. One
that could not read them, or whose commit failed because an account had two
documents, is followed by registrations that take the ids of accounts still in
MongoDB, and a token names an id only: from then on it may open another's
account. Either way the exclusion is the narrowest TLC accepts.

**Codes.** Two verifications that have both read a code before either deletes it
both succeed; `SingleUse` is about those that begin after an answer. A deletion
or a count that comes late hits the document of a newer code, as both go by
phone number; a save that fails leaves the older code in MongoDB, where it is
found first; and the dictionary is lost at a restart. Two codes sent at once to a phone that
has no document leave two. `clear`, `undeleted` and `uncounted` mark exactly
these cases.

**Pushes.** An event published before the first connection ever, or while a user
has no socket, is gone. With several sockets of one user a send that waits for one lets later events
overtake it. An event for several users takes an extra turn of the loop, so
RECIPROCAL_DETECTED may arrive after the decision. The screen does not look at
which pair a decision is about. `InstructionHeard` is about a phone whose only line has been up since
the event was published: the application does not connect again until another
screen asks for it, and nothing sends it what it has missed.

**Dialling.** `StandbyIsKept` begins when STANDBY has been heard. One that arrives
after the timer comes too late: the call is placed, nothing ends it, and both
phones dial. `ProceedPlacesCall` says that PROCEED leads to a call, not that it
leads to one only. `_isPlacingCall` is lowered as soon as `placeCellularCall`
returns, and `_simCallStarted` is raised by the first call event only: a PROCEED
in between places a second call. BLOCK does not stop the timer while the
cancellation it has started is under way.

## 6. Findings

1. `finding_two_pairs`: a request can be in two pairs, as `request_b` of one and
   `request_a` of the other; the model's comment says at most one. It happens
   with row locks too, because the candidate is not read again once its lock is
   granted.
2. `finding_cancelled`: a request cancelled after the candidate query is paired
   all the same, the re-fetch being answered from the session.
3. `finding_detection_fatal`: two detections that lock each other's requests.
   The error of the one the database aborts is swallowed twice, and building the
   response then fails: 500 for a request that is stored.
4. `finding_both_proceed`: an evaluation and a response push to the two callers
   interleaved, and the last thing each of them hears is PROCEED.

Met while modelling, visible in the definitions, and not among the runs:

- `TASK.md:112` says STANDBY "terminates outgoing attempt", and
  `docs/physical_two_phone_testing_guide.md:46` that the phone "immediately aborts
  its outgoing attempt"; `calling_screen.dart:101` shows a message and ends nothing
  (`HearDecision` leaves `placing` and `dials` to what is under way).
- `TASK.md:93` says that of two reciprocal calls "one SIM call proceeds". The phone that is
  told to proceed may place two: the guard at `calling_screen.dart:98` lets
  PROCEED through once the timer's request has returned and before a call event
  has come (`Timer`, `Placed`, `HearDecision`).
- `TASK.md:107` says that the client has "auto-reconnect"; `websocket_service.dart:85`
  only forgets the socket (`Lost`).
- `auth.py:68` calls the copy zero-data-loss, and `mongodb.py:4` says that it
  "guarantees data permanence"; a copy that fails is logged and the request
  succeeds (`CopyFails`). Two copies of a new account at once may leave two
  documents of it, as the collection has no unique index (`Add`); the next
  startup without the table then brings no account back, its one commit failing
  for all (`Doubled`).
- After a restore that fails because its id is taken, `calls.py:91` goes on with
  the id of the object that was not stored: the request goes to the account that
  has this id now. `Restore` has the failure; the request that follows is not
  composed with `CallIntents`.

## 7. Abstractions

The database commits a transaction atomically; isolation is READ COMMITTED as
far as a session's own cache does not hide it. Request ids and the loop that
retries a taken id, phone formats, response fields, logging and the MongoDB copy
of decisions, requests and pairs (written, never read) are left out. Time is a counter, the two
settings that compare times are constants. `network_condition` of the context is
a constant in the code and the users' online status is not looked at by the
engine, so neither is in the model.

`UserStore`: name, password hash and creation time are left out, a password is
right or wrong as the model likes; a document is replaced as a whole, of an account's
further documents the settings are left out, and a write
under way when the process ends is lost. One process with one SQLite file, as
`render.yaml` deploys. `Otp`: one phone, as two have nothing in common; no two
codes are equal; codes expire in the order they were made. `PushChannel`: the
manager's lock is never held across a suspension and needs no variable;
heartbeats and the greeting touch their own socket only. `Coordination`: what is
pushed to the other caller passes through the loop without touching anything of
the phone's and is left out, as are the handlers before the push, which are in
`CallIntents` and `Decisions`. `CallingScreen`: routes change at once, without
transitions; the telephone may report any call at any time.

## 8. Plan

Done: `CallIntents`, `Resolution`, `DecisionLedger`, `Decisions`, `UserStore`,
`Otp`, `PushChannel`, `CallingScreen`, `Coordination`, and the proofs of all their
safety and action properties. Left, in this order:

1. Liveness of the push channel under a fair event loop: an owed event is
   written or its line dies.
2. **InCall**: call map, event sink and screens of the platform side. Properties:
   one screen closed for one call ended, no event of a live call dropped.

Not modelled: the in-call service (2 above); the other screens and widgets, whose
requests are one-shot and share no state; phone normaliser, ids and schemas, which
are formats; settings, migrations and platform runners, which are configuration
or generated.
