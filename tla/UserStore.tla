------------------------------- MODULE UserStore -------------------------------
(***************************************************************************)
(* The accounts of SmartDial and their copy in MongoDB.                    *)
(*                                                                         *)
(* The table users is in a SQLite file of the server's container and may   *)
(* be gone after a restart.  register and update_preferences therefore     *)
(* copy the row to a MongoDB document of the same email once it is         *)
(* committed; login, a call by phone number and the server's startup bring *)
(* documents back.  A token names nothing but the id of a row.             *)
(*                                                                         *)
(* The collection has no unique index: a copy replaces the document that   *)
(* is found and inserts one if there is none, and two copies of a new      *)
(* account at once may both insert.                                        *)
(*                                                                         *)
(* The handlers run in a thread pool.  An action is one statement or one   *)
(* commit of a handler with the Python code up to the next one.  Name,     *)
(* password hash and creation time are left out; status is ACTIVE          *)
(* everywhere.                                                             *)
(***************************************************************************)
EXTENDS Integers, FiniteSets, FiniteSetsExt

CONSTANTS
    Emails,     \* emails people register with
    Phones,     \* phone numbers people register with
    Fields,     \* the settings that PATCH /me/preferences can change
    Handlers,   \* requests the server handles at the same time
    MaxId,      \* bound: no registration takes a larger id
    None        \* no row, no document, nothing loaded

ASSUME MaxIdAssumption == MaxId \in Nat
ASSUME HandlersAssumption == IsFiniteSet(Emails) /\ IsFiniteSet(Handlers)

VARIABLES
    users,      \* table users: the row of each email
    copies,     \* collection users: the document of each email, the one found by it
    extras,     \* the other documents of each email: found by phone and at startup
    tokens,     \* [id, email]: tokens handed out, and to whom
    job,        \* what each handler is doing
    parted,     \* emails whose row and document may have parted
    failed      \* TRUE: some startup could not read the documents, or brought none
                \* back because a missing account has two

stores == <<users, copies, extras>>
vars == <<stores, tokens, job, parted, failed>>

Account == [id : Nat, phone : Phones, settings : [Fields -> BOOLEAN]]
Change == [field : Fields, value : BOOLEAN]

ASSUME NoneAssumption == None \notin Account /\ None \notin Phones

Steps == {"idle", "check_phone", "insert", "change", "refresh", "copy",
          "add", "fetch", "restore"}

\* Where a handler is, the account it works on, the phone of a registration,
\* the change of preferences, and the row or document it has loaded.
Job == [at : Steps, email : Emails \cup {None}, phone : Phones \cup {None},
        change : Change \cup {None}, held : Account \cup {None}]

Idle == [at |-> "idle", email |-> None, phone |-> None, change |-> None, held |-> None]

\* Every field has a value of its type.
TypeOK ==
    /\ users \in [Emails -> Account \cup {None}]
    /\ copies \in [Emails -> Account \cup {None}]
    /\ extras \in [Emails -> SUBSET Account]
    /\ \A t \in tokens : t \in [id : Nat, email : Emails]
    /\ job \in [Handlers -> Job]
    /\ \A h \in Handlers : job[h].at \in {"copy", "add", "change", "restore"} => job[h].held # None
    /\ parted \subseteq Emails
    /\ failed \in BOOLEAN

Init ==
    /\ users = [e \in Emails |-> None]
    /\ copies = [e \in Emails |-> None]
    /\ extras = [e \in Emails |-> {}]
    /\ tokens = {}
    /\ job = [h \in Handlers |-> Idle]
    /\ parted = {}
    /\ failed = FALSE

-----------------------------------------------------------------------------
(* The table users *)

Known(store) == {e \in Emails : store[e] # None}
IdsOf(store) == {store[e].id : e \in Known(store)}
PhonesOf(store) == {store[e].phone : e \in Known(store)}

\* SQLite gives a new row the largest id plus one: after a loss the ids
\* start again.
NextId == Max(IdsOf(users) \cup {0}) + 1

\* (mutant) nothing keeps two accounts from having one phone
SharedPhoneAllowed(e, p) == users[e] = None

\* The unique constraints on email and phone.
MayInsert(e, p) == users[e] = None /\ p \notin PhonesOf(users)

\* An account with the default settings.
Plain(account) == [account EXCEPT !.settings = [f \in Fields |-> FALSE]]

\* Handlers that have committed a change of e's row and not yet copied it.
Copying(e) == {h \in Handlers : job[h].email = e /\ job[h].at \in {"refresh", "copy", "add"}}

\* e and the accounts parted before, if another handler has already reloaded
\* e's row for its copy: that copy may be written last.
PartedByCommit(e) ==
    IF \E h \in Copying(e) : job[h].at \in {"copy", "add"} THEN parted \cup {e} ELSE parted

\* A handler ends, and its session with it.
Leave(h) == job' = [job EXCEPT ![h] = Idle]

-----------------------------------------------------------------------------
(* POST /api/auth/register *)

CheckEmail(h, e, p) ==
    /\ job[h] = Idle
    /\ users[e] = None
    /\ job' = [job EXCEPT ![h] = [Idle EXCEPT !.at = "check_phone", !.email = e, !.phone = p]]
    /\ UNCHANGED <<stores, tokens, parted, failed>>

CheckPhone(h) ==
    /\ job[h].at = "check_phone"
    /\ IF job[h].phone \in PhonesOf(users)
         THEN Leave(h)
         ELSE job' = [job EXCEPT ![h].at = "insert"]
    /\ UNCHANGED <<stores, tokens, parted, failed>>

\* The commit.  The loser of a race gets an IntegrityError and a 409.
Insert(h) ==
    /\ job[h].at = "insert"
    /\ NextId <= MaxId
    /\ LET e == job[h].email
           p == job[h].phone
       IN  IF MayInsert(e, p)
             THEN /\ users' = [users EXCEPT ![e] =
                        [id |-> NextId, phone |-> p, settings |-> [f \in Fields |-> FALSE]]]
                  /\ job' = [job EXCEPT ![h].at = "refresh"]
                  /\ parted' = PartedByCommit(e)
             ELSE Leave(h) /\ UNCHANGED <<users, parted>>
    /\ UNCHANGED <<copies, extras, tokens, failed>>

-----------------------------------------------------------------------------
(* PATCH /api/users/me/preferences *)

\* get_current_user loads the row whose id the token names.
Authenticate(h, t, c) ==
    /\ job[h] = Idle
    /\ \E e \in Known(users) :
         /\ users[e].id = t.id
         /\ job' = [job EXCEPT ![h] = [Idle EXCEPT !.at = "change", !.email = e,
                                                  !.change = c, !.held = users[e]]]
    /\ UNCHANGED <<stores, tokens, parted, failed>>

\* The commit writes the column only if the value differs from the one loaded.
CommitChange(h) ==
    /\ job[h].at = "change"
    /\ LET c == job[h].change
           e == job[h].email
       IN  /\ users' = IF job[h].held.settings[c.field] = c.value THEN users
                       ELSE [users EXCEPT ![e].settings[c.field] = c.value]
           /\ parted' = PartedByCommit(e)
    /\ job' = [job EXCEPT ![h].at = "refresh"]
    /\ UNCHANGED <<copies, extras, tokens, failed>>

-----------------------------------------------------------------------------
(* What register and update_preferences do after their commit *)

\* (mutant) the row is copied as the handler loaded it, with its own change
CopyWithoutRefresh(h) ==
    /\ job[h].at = "refresh"
    /\ LET held == job[h].held
           c == job[h].change
       IN  job' = [job EXCEPT ![h].at = "copy",
                              ![h].held = IF c = None THEN users[job[h].email]
                                          ELSE [held EXCEPT !.settings[c.field] = c.value]]
    /\ UNCHANGED <<stores, tokens, parted, failed>>

\* db.refresh: the copy is made from the row as it is now, which may hold
\* what others have committed.
Refresh(h) ==
    /\ job[h].at = "refresh"
    /\ job' = [job EXCEPT ![h].at = "copy", ![h].held = users[job[h].email]]
    /\ UNCHANGED <<stores, tokens, parted, failed>>

\* sync_user_to_mongo: the document of this email is replaced, or one is to be
\* added.
Copy(h) ==
    /\ job[h].at = "copy"
    /\ LET e == job[h].email
       IN  IF copies[e] # None
             THEN copies' = [copies EXCEPT ![e] = job[h].held] /\ Leave(h)
             ELSE job' = [job EXCEPT ![h].at = "add"] /\ UNCHANGED copies
    /\ UNCHANGED <<users, extras, tokens, parted, failed>>

\* Also if another handler has added one meanwhile.  Nobody ever reads the
\* settings of such a second document.
Add(h) ==
    /\ job[h].at = "add"
    /\ LET e == job[h].email
       IN  IF copies[e] = None
             THEN copies' = [copies EXCEPT ![e] = job[h].held] /\ UNCHANGED extras
             ELSE extras' = [extras EXCEPT ![e] = @ \cup {Plain(job[h].held)}] /\ UNCHANGED copies
    /\ Leave(h)
    /\ UNCHANGED <<users, tokens, parted, failed>>

\* A failure to copy is logged and the request succeeds.
CopyFails(h) ==
    /\ job[h].at \in {"copy", "add"}
    /\ parted' = parted \cup {job[h].email}
    /\ Leave(h)
    /\ UNCHANGED <<stores, tokens, failed>>

-----------------------------------------------------------------------------
(* POST /api/auth/login, and calls by phone number *)

\* A known email and the right password give a token with the row's id.
Login(e) ==
    /\ users[e] # None
    /\ tokens' = tokens \cup {[id |-> users[e].id, email |-> e]}
    /\ UNCHANGED <<stores, job, parted, failed>>

LoginUnknown(h, e) ==
    /\ job[h] = Idle
    /\ users[e] = None
    /\ job' = [job EXCEPT ![h] = [Idle EXCEPT !.at = "fetch", !.email = e]]
    /\ UNCHANGED <<stores, tokens, parted, failed>>

\* POST /api/calls/request by a user who is logged in, to a phone number that
\* no row has.
CallUnknown(h, p) ==
    /\ job[h] = Idle
    /\ \E t \in tokens : t.id \in IdsOf(users)
    /\ p \notin PhonesOf(users)
    /\ job' = [job EXCEPT ![h] = [Idle EXCEPT !.at = "fetch", !.phone = p]]
    /\ UNCHANGED <<stores, tokens, parted, failed>>

\* The documents that may be found, by email or by phone.
Sought(j) ==
    IF j.phone = None THEN {[email |-> j.email, held |-> copies[j.email]]}
    ELSE {d \in UNION {{[email |-> e, held |-> a] : a \in extras[e] \cup {copies[e]}} : e \in Emails} :
              d.held # None /\ d.held.phone = j.phone}

\* (mutant) that there is no document is not noticed
FetchUnchecked(h) ==
    /\ job[h].at = "fetch"
    /\ \E d \in Sought(job[h]) :
          job' = [job EXCEPT ![h].at = "restore", ![h].email = d.email, ![h].held = d.held]
    /\ UNCHANGED <<stores, tokens, parted, failed>>

\* No document, or no answer: 401 or 404.
Fetch(h) ==
    /\ job[h].at = "fetch"
    /\ \/ \E d \in Sought(job[h]) :
             /\ d.held # None
             /\ job' = [job EXCEPT ![h].at = "restore", ![h].email = d.email, ![h].held = d.held]
       \/ Leave(h)
    /\ UNCHANGED <<stores, tokens, parted, failed>>

\* The row a document becomes: a call restores it with the default settings.
Revived(j) ==
    IF j.phone = None THEN j.held ELSE Plain(j.held)

\* The document becomes a row with its old id, also if the password turns out
\* wrong (not granted).  A taken id, email or phone: rollback.
Restore(h, granted) ==
    /\ job[h].at = "restore"
    /\ LET e == job[h].email
           row == Revived(job[h])
       IN  IF MayInsert(e, row.phone) /\ row.id \notin IdsOf(users)
             THEN /\ users' = [users EXCEPT ![e] = row]
                  /\ tokens' = tokens \cup
                       {t \in {[id |-> row.id, email |-> e]} : granted /\ job[h].phone = None}
                  /\ parted' = parted \cup {d \in {e} : row # copies[e]}
             ELSE UNCHANGED <<users, tokens, parted>>
    /\ Leave(h)
    /\ UNCHANGED <<copies, extras, failed>>

-----------------------------------------------------------------------------
(* Restart *)

\* No two accounts of the store share an id or a phone.
Consistent(store) ==
    \A d, e \in Known(store) :
        d # e => store[d].id # store[e].id /\ store[d].phone # store[e].phone

\* (mutant) the restored users have the default settings
RestoredPlain(kept) ==
    [e \in Emails |-> IF kept[e] # None \/ copies[e] = None THEN kept[e]
                      ELSE Plain(copies[e])]

\* (mutant) the restored users get ids of the table's choice
RestoredAnew(kept) ==
    LET ids == CHOOSE i \in [Emails -> 1 .. Cardinality(Emails)] :
                   \A d, e \in Emails : d # e => i[d] # i[e]
    IN  [e \in Emails |-> IF kept[e] # None \/ copies[e] = None THEN kept[e]
                          ELSE [copies[e] EXCEPT !.id = ids[e]]]

\* Some account without a row has more than one document.
Doubled(kept) == \E e \in Emails : kept[e] = None /\ extras[e] # {}

\* sync_from_mongo_to_db: every document whose email has no row becomes one,
\* all in one commit; a single conflict rolls all of them back.
Restored(kept) ==
    LET all == [e \in Emails |-> IF kept[e] = None THEN copies[e] ELSE kept[e]]
    IN  IF Consistent(all) /\ ~Doubled(kept) THEN all ELSE kept

\* The process ends, with the file of the table (lost) or without, and a new
\* one starts, which may fail to read the documents (not readable).
Restart(lost, readable) ==
    LET kept == IF lost THEN [e \in Emails |-> None] ELSE users
    IN  /\ users' = IF readable THEN Restored(kept) ELSE kept
        /\ parted' = parted \cup {e \in Emails : Copying(e) # {}}
        /\ failed' = (failed \/ ~readable \/ Doubled(kept))
        /\ job' = [h \in Handlers |-> Idle]
        /\ UNCHANGED <<copies, extras, tokens>>

-----------------------------------------------------------------------------

Register(h) ==
    \/ \E e \in Emails, p \in Phones : CheckEmail(h, e, p)
    \/ CheckPhone(h)
    \/ Insert(h)

UpdatePreferences(h) ==
    \/ \E t \in tokens, c \in Change : Authenticate(h, t, c)
    \/ CommitChange(h)

Fallback(h) ==
    \/ \E e \in Emails : LoginUnknown(h, e)
    \/ \E p \in Phones : CallUnknown(h, p)
    \/ Fetch(h)
    \/ \E granted \in BOOLEAN : Restore(h, granted)

Next ==
    \/ \E h \in Handlers :
         \/ Register(h)
         \/ UpdatePreferences(h)
         \/ Refresh(h)
         \/ Copy(h)
         \/ Add(h)
         \/ CopyFails(h)
         \/ Fallback(h)
    \/ \E e \in Emails : Login(e)
    \/ \E lost, readable \in BOOLEAN : Restart(lost, readable)

Spec == Init /\ [][Next]_vars

-----------------------------------------------------------------------------
(* Properties *)

\* The id of a token is the account of the person who logged in, or of
\* nobody, also after the table was lost and restored: as long as every
\* startup could bring the documents back and this person's were all written.
\* (Otherwise ids are given out again, and a token names only the id.)
TokensHold ==
    ~failed =>
        \A t \in tokens : t.email \notin parted =>
            \A e \in Known(users) : users[e].id = t.id => e = t.email

\* When no handler works on an account its document equals its row, unless a
\* copy failed, a restart cut one off, two copies of the account overlapped, or
\* a call has restored it without its settings.
CopyCurrent ==
    \A e \in Known(users) \ parted :
        Copying(e) = {} => copies[e] = users[e]

\* If every startup could read the documents and bring them back, every document
\* has its row while the server runs, with the same id and phone: no account was
\* left behind by a conflict with one that was registered after a loss.
NothingLeftBehind ==
    ~failed =>
        \A e \in Known(copies) :
            users[e] # None /\ users[e].id = copies[e].id /\ users[e].phone = copies[e].phone

\* An account, once there, is never lost or changed by a step other than its
\* owner's change of preferences, restarts included, unless a startup could
\* not bring the documents back or this account's document is not current.
AccountsSurvive ==
    [][\A e \in Known(users) \ parted' :
          ~failed' => \/ users'[e] = users[e]
                     \/ /\ users'[e] = [users[e] EXCEPT !.settings = users'[e].settings]
                        /\ \E h \in Handlers : job[h].at = "change" /\ job'[h].at = "refresh" /\ job[h].email = e
      ]_vars

=============================================================================
