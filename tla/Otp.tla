--------------------------------- MODULE Otp ---------------------------------
(***************************************************************************)
(* The one-time codes of otp_service.py for one phone number.              *)
(*                                                                         *)
(* A code is kept in a MongoDB document and in a dictionary of the         *)
(* process.  The dictionary is asked when MongoDB has no document or does  *)
(* not answer.  The collection has no unique index: the upsert looks for   *)
(* the phone's document and inserts one if there is none, and two of them  *)
(* at once may both insert.  MongoDB then finds, replaces, updates and     *)
(* deletes one of them, until it is gone.  The endpoints run in a thread   *)
(* pool; an action is one call of MongoDB, or one access to the            *)
(* dictionary, with the Python code up to the next one.  Documents and     *)
(* dictionary entries of two phones have nothing in common, so one phone   *)
(* shows everything.                                                       *)
(*                                                                         *)
(* Codes are numbered in the order they are generated: no two are taken to *)
(* be equal (six random digits), and they expire in this order.            *)
(***************************************************************************)
EXTENDS Integers, FiniteSets

CONSTANTS
    Handlers,     \* requests the server handles at the same time
    MaxAttempts,  \* MAX_ATTEMPTS
    MaxCodes,     \* bound: codes ever sent
    None          \* no document, no entry, nothing read

ASSUME NumbersAssumption == MaxAttempts \in Nat \ {0} /\ MaxCodes \in Nat
ASSUME HandlersAssumption == IsFiniteSet(Handlers)

VARIABLES
    sent,       \* the code generated last
    dead,       \* codes up to this one have expired
    delivered,  \* codes the phone's owner has been told
    doc,        \* the document in otp_codes, the one found if there are several
    others,     \* the codes of the other documents: no attempt is counted there
    mem,        \* the entry of _MEMORY_OTP_STORE
    job,        \* what each handler is doing
    used,       \* codes some verification has answered as right
    undeleted,  \* codes whose document was not deleted when they were used
    uncounted,  \* codes for which a wrong entry was not counted
    wrong,      \* wrong entries compared with the document of each code
    clear       \* TRUE: no other request was going on when the last code was
                \* generated, it was not lost before it was saved, and no code
                \* has been found right since

stores == <<doc, others, mem>>
history == <<used, undeleted, uncounted, wrong, clear>>
vars == <<sent, dead, delivered, stores, job, history>>

Codes == 1 .. MaxCodes
Wrong == 0      \* an entry that is no code
Record == [code : Codes, attempts : Nat]

ASSUME NoneAssumption == None \notin Record

Steps == {"idle", "save", "insert", "remember", "read", "compare", "count", "delete", "forget"}

\* Where a handler is; the code it sends, was given or has compared with; the
\* codes expired when it began; whether its code had been used by then; the
\* record it has read and whether that is the dictionary's own.
Job == [at : Steps, code : Codes \cup {Wrong}, now : 0 .. MaxCodes, late : BOOLEAN,
        record : Record \cup {None}, own : BOOLEAN]

Idle == [at |-> "idle", code |-> Wrong, now |-> 0, late |-> FALSE,
         record |-> None, own |-> FALSE]

\* Every variable has a value of its type.
TypeOK ==
    /\ sent \in 0 .. MaxCodes
    /\ dead \in 0 .. sent
    /\ delivered \subseteq 1 .. sent
    /\ doc \in Record \cup {None} /\ others \subseteq Codes
    /\ mem \in Record \cup {None}
    /\ job \in [Handlers -> Job]
    /\ \A h \in Handlers : job[h].at = "compare" => job[h].record # None
    /\ used \subseteq Codes /\ undeleted \subseteq Codes /\ uncounted \subseteq Codes
    /\ wrong \in [Codes -> Nat]
    /\ clear \in BOOLEAN

Init ==
    /\ sent = 0 /\ dead = 0 /\ delivered = {}
    /\ doc = None /\ others = {} /\ mem = None
    /\ job = [h \in Handlers |-> Idle]
    /\ used = {} /\ undeleted = {} /\ uncounted = {}
    /\ wrong = [c \in Codes |-> 0]
    /\ clear = TRUE

Fresh(c) == [code |-> c, attempts |-> 0]

\* Wrong entries for these codes went uncounted: they are no longer followed.
Uncount(codes) ==
    /\ uncounted' = uncounted \cup codes
    /\ wrong' = [c \in Codes |-> IF c \in uncounted' THEN 0 ELSE wrong[c]]

-----------------------------------------------------------------------------
(* POST /api/auth/otp/send *)

Generate(h) ==
    /\ job[h] = Idle
    /\ sent < MaxCodes
    /\ sent' = sent + 1
    /\ job' = [job EXCEPT ![h] = [Idle EXCEPT !.at = "save", !.code = sent + 1]]
    /\ clear' = \A g \in Handlers : job[g] = Idle
    /\ UNCHANGED <<dead, delivered, stores, used, undeleted, uncounted, wrong>>

\* (mutant) a document that is there is kept
SaveIfAbsent(h) ==
    /\ job[h].at = "save"
    /\ job' = [job EXCEPT ![h].at = IF doc = None THEN "insert" ELSE "remember"]
    /\ UNCHANGED <<sent, dead, delivered, stores, history>>

\* replace_one with upsert: the document that is found is replaced.
Save(h) ==
    /\ job[h].at = "save"
    /\ IF doc = None
         THEN job' = [job EXCEPT ![h].at = "insert"] /\ UNCHANGED doc
         ELSE job' = [job EXCEPT ![h].at = "remember"] /\ doc' = Fresh(job[h].code)
    /\ UNCHANGED <<sent, dead, delivered, others, mem, history>>

\* None was found: one is inserted, beside the one another upsert may have
\* inserted meanwhile.
Insert(h) ==
    /\ job[h].at = "insert"
    /\ IF doc = None
         THEN doc' = Fresh(job[h].code) /\ UNCHANGED others
         ELSE others' = others \cup {job[h].code} /\ UNCHANGED doc
    /\ job' = [job EXCEPT ![h].at = "remember"]
    /\ UNCHANGED <<sent, dead, delivered, mem, history>>

SaveFails(h) ==
    /\ job[h].at \in {"save", "insert"}
    /\ clear' = (clear /\ job[h].code # sent)
    /\ job' = [job EXCEPT ![h].at = "remember"]
    /\ UNCHANGED <<sent, dead, delivered, stores, used, undeleted, uncounted, wrong>>

\* The entry, then the message to the phone and the answer.
Remember(h) ==
    /\ job[h].at = "remember"
    /\ mem' = Fresh(job[h].code)
    /\ delivered' = delivered \cup {job[h].code}
    /\ job' = [job EXCEPT ![h] = Idle]
    /\ UNCHANGED <<sent, dead, doc, others, history>>

-----------------------------------------------------------------------------
(* POST /api/auth/otp/verify *)

Begin(h, c) ==
    /\ job[h] = Idle
    /\ job' = [job EXCEPT ![h] = [Idle EXCEPT !.at = "read", !.code = c, !.now = dead,
                                             !.late = c \in used]]
    /\ UNCHANGED <<sent, dead, delivered, stores, history>>

\* (mutant) that there is no record is not noticed
ExamineUnchecked(h, record, own) ==
    IF record = None \/ (record.code > job[h].now /\ record.attempts < MaxAttempts)
      THEN job' = [job EXCEPT ![h].at = "compare", ![h].now = 0,
                              ![h].record = record, ![h].own = own]
      ELSE job' = [job EXCEPT ![h] = Idle]

\* Nothing to compare with, an expired code, or too many attempts: rejected.
Examine(h, record, own) ==
    IF record # None /\ record.code > job[h].now /\ record.attempts < MaxAttempts
      THEN job' = [job EXCEPT ![h].at = "compare", ![h].now = 0,
                              ![h].record = record, ![h].own = own]
      ELSE job' = [job EXCEPT ![h] = Idle]

\* find_one, then the dictionary if there is no document.
Read(h) ==
    /\ job[h].at = "read"
    /\ IF doc # None THEN Examine(h, doc, FALSE) ELSE Examine(h, mem, TRUE)
    /\ UNCHANGED <<sent, dead, delivered, stores, history>>

ReadFails(h) ==
    /\ job[h].at = "read"
    /\ Examine(h, mem, TRUE)
    /\ UNCHANGED <<sent, dead, delivered, stores, history>>

Match(h) ==
    /\ job[h].at = "compare"
    /\ job[h].code = job[h].record.code
    /\ clear' = FALSE
    /\ job' = [job EXCEPT ![h] = [Idle EXCEPT !.at = "delete", !.code = job[h].code,
                                             !.late = job[h].late]]
    /\ UNCHANGED <<sent, dead, delivered, stores, used, undeleted, uncounted, wrong>>

\* record["attempts"] = attempts + 1 writes the value read before plus one,
\* and reaches the dictionary only if the record is the entry itself.
Mismatch(h) ==
    /\ job[h].at = "compare"
    /\ LET r == job[h].record
       IN  /\ job[h].code # r.code
           /\ mem' = IF job[h].own /\ mem # None /\ mem.code = r.code
                     THEN [r EXCEPT !.attempts = @ + 1] ELSE mem
           /\ wrong' = IF job[h].own \/ r.code \in uncounted THEN wrong
                       ELSE [wrong EXCEPT ![r.code] = @ + 1]
           /\ job' = [job EXCEPT ![h] = [Idle EXCEPT !.at = "count", !.code = r.code]]
    /\ UNCHANGED <<sent, dead, delivered, doc, others, used, undeleted, uncounted, clear>>

\* (mutant) the attempt is counted in the record read and nowhere else
CountNowhere(h) ==
    /\ job[h].at = "count"
    /\ job' = [job EXCEPT ![h] = Idle]
    /\ UNCHANGED <<sent, dead, delivered, stores, history>>

\* $inc of the document the phone has now, whichever code it holds.
Count(h) ==
    /\ job[h].at = "count"
    /\ doc' = IF doc = None THEN None ELSE [doc EXCEPT !.attempts = @ + 1]
    /\ job' = [job EXCEPT ![h] = Idle]
    /\ UNCHANGED <<sent, dead, delivered, others, mem, history>>

CountFails(h) ==
    /\ job[h].at = "count"
    /\ Uncount({job[h].code})
    /\ job' = [job EXCEPT ![h] = Idle]
    /\ UNCHANGED <<sent, dead, delivered, stores, used, undeleted, clear>>

\* delete_one of the document found first now, whichever code it holds: another
\* document of the phone takes its place.
Delete(h) ==
    /\ job[h].at = "delete"
    /\ \/ others = {} /\ doc' = None /\ UNCHANGED others
       \/ \E c \in others : doc' = Fresh(c) /\ others' = others \ {c}
    /\ undeleted' = undeleted \cup ({job[h].code} \cap others)
    /\ job' = [job EXCEPT ![h].at = "forget"]
    /\ UNCHANGED <<sent, dead, delivered, mem, used, uncounted, wrong, clear>>

DeleteFails(h) ==
    /\ job[h].at = "delete"
    /\ undeleted' = undeleted \cup {job[h].code}
    /\ job' = [job EXCEPT ![h].at = "forget"]
    /\ UNCHANGED <<sent, dead, delivered, stores, used, uncounted, wrong, clear>>

\* (mutant) the code stays in the dictionary
AnswerOnly(h) ==
    /\ job[h].at = "forget"
    /\ used' = used \cup {job[h].code}
    /\ job' = [job EXCEPT ![h] = Idle]
    /\ UNCHANGED <<sent, dead, delivered, stores, undeleted, uncounted, wrong, clear>>

\* The entry is dropped and the code answered as right.
Forget(h) ==
    /\ job[h].at = "forget"
    /\ mem' = None
    /\ used' = used \cup {job[h].code}
    /\ job' = [job EXCEPT ![h] = Idle]
    /\ UNCHANGED <<sent, dead, delivered, doc, others, undeleted, uncounted, wrong, clear>>

-----------------------------------------------------------------------------
(* Time and restarts *)

Expire ==
    /\ dead < sent
    /\ dead' = dead + 1
    /\ UNCHANGED <<sent, delivered, stores, job, history>>

\* The process ends and a new one starts with an empty dictionary.
Restart ==
    /\ mem' = None
    /\ job' = [h \in Handlers |-> Idle]
    /\ Uncount({job[h].code : h \in {g \in Handlers : job[g].at = "count"}})
    /\ clear' = (clear /\ \A h \in Handlers : job[h].at \notin {"save", "insert"})
    /\ UNCHANGED <<sent, dead, delivered, doc, others, used, undeleted>>

SendOtp(h) == Generate(h) \/ Save(h) \/ Insert(h) \/ SaveFails(h) \/ Remember(h)

VerifyOtp(h) ==
    \/ \E c \in delivered \cup {Wrong} : Begin(h, c)
    \/ Read(h) \/ ReadFails(h)
    \/ Match(h) \/ Delete(h) \/ DeleteFails(h) \/ Forget(h)
    \/ Mismatch(h) \/ Count(h) \/ CountFails(h)

Next ==
    \/ \E h \in Handlers : SendOtp(h) \/ VerifyOtp(h)
    \/ Expire
    \/ Restart

Spec == Init /\ [][Next]_vars

-----------------------------------------------------------------------------
(* Properties *)

\* A code that has been answered as right is not found right by a request that
\* began afterwards, unless MongoDB failed to delete it, or deleted another
\* document of the phone in its place.  (Requests that began before may still
\* find it right: reading and deleting are two calls.)
SingleUse ==
    \A h \in Handlers :
        job[h].at \in {"delete", "forget"} /\ job[h].late => job[h].code \in undeleted

\* The code generated last, once saved in MongoDB, is the one there until a code
\* is found right, however many wrong ones are entered, and through restarts;
\* unless another request was going on when it was generated, which may delete
\* its document or put an older code back.
NewestCodeStands ==
    clear /\ sent > 0 /\ (\A h \in Handlers : job[h].at \notin {"save", "insert"})
        => doc # None /\ doc.code = sent

\* No more entries than MAX_ATTEMPTS are compared with a code's document, plus
\* those that the other handlers had begun, unless one was not counted because
\* MongoDB failed or the process ended.
GuessesBounded ==
    \A c \in Codes \ uncounted : wrong[c] <= MaxAttempts + Cardinality(Handlers) - 1

=============================================================================
