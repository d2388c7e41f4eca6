------------------------------ MODULE Otp_proofs ------------------------------
(***************************************************************************)
(* Proofs about Otp, for any number of handlers, any number of codes and   *)
(* any MAX_ATTEMPTS.                                                       *)
(***************************************************************************)
EXTENDS Otp, FiniteSetTheorems, TLAPS

(***************************************************************************)
(* The inductive invariants.                                               *)
(***************************************************************************)

\* Where the code a handler sends has yet to be saved, and to be told.
Saving == {"save", "insert"}
Sending == Saving \cup {"remember"}

\* Which codes can be where: those in the stores and in the records read have
\* been generated; a code being sent is being sent by one handler only, and its
\* owner has not been told; one that is verified or used was told.
InPlace(j) ==
    /\ j.at = "compare" => j.record.code <= sent
    /\ j.at \in Sending => j.code \in (1 .. sent) \ delivered
    /\ j.at \in {"read", "compare"} => j.code \in delivered \cup {Wrong}
    /\ j.at \in {"delete", "forget"} => j.code \in delivered
    /\ j.at = "count" => j.code \in Codes

CodesInv ==
    /\ doc # None => doc.code <= sent
    /\ mem # None => mem.code <= sent
    /\ \A c \in others : c <= sent
    /\ used \subseteq delivered
    /\ \A h \in Handlers : InPlace(job[h])
    /\ \A g, h \in Handlers :
          /\ job[g].at \in Sending /\ job[h].at \in Sending
          /\ job[g].code = job[h].code
          => g = h

BaseInv == TypeOK /\ CodesInv

\* The record does not hold this code.
Without(record, c) == record = None \/ record.code # c

\* No document holds this code.
NoDocument(c) == Without(doc, c) /\ c \notin others

\* A used code is in neither store, the document of one that MongoDB did not
\* delete apart, and nobody who began after it was used has read it.  A handler
\* that is about to forget a code has deleted it.
Unused(j) ==
    /\ j.at = "forget" => j.code \in undeleted \/ NoDocument(j.code)
    /\ j.late => j.code \in used
    /\ j.late /\ j.at = "compare" => j.code \in undeleted \/ j.record.code # j.code
    /\ j.late /\ j.at \in {"delete", "forget"} => j.code \in undeleted

UseInv ==
    /\ \A c \in used : Without(mem, c) /\ (c \in undeleted \/ NoDocument(c))
    /\ \A h \in Handlers : Unused(job[h])

\* While the last code stands alone, nobody deletes a document or saves another
\* code, and the one that inserts it still finds no document.
ClearInv ==
    clear => /\ \A h \in Handlers :
                   /\ job[h].at \notin {"delete", "forget"}
                   /\ job[h].at \in Saving => job[h].code = sent
                   /\ job[h].at = "insert" => doc = None
             /\ sent > 0 /\ (\A h \in Handlers : job[h].at \notin Saving)
                   => doc # None /\ doc.code = sent

\* The handlers that compare an entry with a document of this code, and those
\* that have yet to count a wrong entry for it.
Comparing(c) == {h \in Handlers : job[h].at = "compare" /\ ~job[h].own /\ job[h].record.code = c}
Counting(c) == {h \in Handlers : job[h].at = "count" /\ job[h].code = c}

\* While a document is there it lacks only the wrong entries that are still to
\* be counted; the comparisons that are made and those under way together stay
\* in the bound when it has gone; nothing is compared with a code before it is
\* saved, or while its document waits behind another.
ToBeCounted(c) ==
    doc # None /\ doc.code = c => wrong[c] <= doc.attempts + Cardinality(Counting(c))
InBound(c) == wrong[c] + Cardinality(Comparing(c)) <= MaxAttempts + Cardinality(Handlers) - 1
Unsaved(c) == c > sent \/ \E h \in Handlers : job[h].at \in Saving /\ job[h].code = c
Untouched(c) == wrong[c] = 0 /\ Without(doc, c) /\ Comparing(c) = {}

GuessInv ==
    /\ \A c \in Codes \ uncounted : ToBeCounted(c) /\ InBound(c)
    /\ \A c \in Codes :
          /\ Unsaved(c) => c \notin others
          /\ (Unsaved(c) \/ c \in others) => Untouched(c)

-----------------------------------------------------------------------------
(* Codes and records *)

\* The idle job, and the records that are written, are of their types.
LEMMA Shapes ==
    /\ Idle \in Job /\ Idle.at = "idle" /\ Idle.late = FALSE
    /\ \A c \in Codes : Fresh(c) \in Record /\ Fresh(c).code = c /\ Fresh(c).attempts = 0
    /\ \A r \in Record :
          /\ [r EXCEPT !.attempts = @ + 1] \in Record
          /\ [r EXCEPT !.attempts = @ + 1].code = r.code
          /\ [r EXCEPT !.attempts = @ + 1].attempts = r.attempts + 1
<1>1. 0 \in 0 .. MaxCodes
  BY NumbersAssumption
<1>2. Idle \in Job /\ Idle.at = "idle" /\ Idle.late = FALSE
  BY <1>1 DEF Idle, Job, Steps, Wrong
<1> QED
  BY <1>2 DEF Fresh, Record

\* One handler goes to job j while no code is generated or delivered.
LEMMA OneMoves ==
    ASSUME BaseInv, NEW h \in Handlers, NEW j \in Job,
           job' = [job EXCEPT ![h] = j], UNCHANGED <<sent, delivered>>,
           j.at = "compare" => j.record # None,
           InPlace(j),
           j.at \in Sending
               => job[h].at \in Sending /\ j.code = job[h].code
    PROVE  /\ job' \in [Handlers -> Job]
           /\ \A g \in Handlers : job'[g].at = "compare" => job'[g].record # None
           /\ \A g \in Handlers : InPlace(job[g])'
           /\ \A f, g \in Handlers :
                 /\ job'[f].at \in Sending /\ job'[g].at \in Sending
                 /\ job'[f].code = job'[g].code
                 => f = g
<1>1. \A g \in Handlers : job'[g] = IF g = h THEN j ELSE job[g]
  BY DEF BaseInv, TypeOK
<1>2. job' \in [Handlers -> Job]
  BY DEF BaseInv, TypeOK
<1>3. \A g \in Handlers : job'[g].at = "compare" => job'[g].record # None
  BY <1>1 DEF BaseInv, TypeOK
<1>4. \A g \in Handlers : InPlace(job[g])'
  BY <1>1 DEF BaseInv, CodesInv, InPlace, Sending, Saving
<1>5. ASSUME NEW f \in Handlers, NEW g \in Handlers,
             job'[f].at \in Sending, job'[g].at \in Sending,
             job'[f].code = job'[g].code
      PROVE  f = g
  BY <1>1, <1>5 DEF BaseInv, CodesInv
<1> QED BY <1>2, <1>3, <1>4, <1>5

\* The codes are well placed initially.
LEMMA BaseInit == Init => BaseInv
BY Shapes, NumbersAssumption DEF Init, BaseInv, TypeOK, CodesInv, InPlace, Sending, Saving, Codes

\* The facts about a handler's job that every step starts from.
LEMMA JobFacts ==
    ASSUME BaseInv, NEW h \in Handlers
    PROVE  /\ job[h].at \in Steps /\ job[h].code \in Codes \cup {Wrong}
           /\ job[h].now \in 0 .. MaxCodes /\ job[h].late \in BOOLEAN
           /\ job[h].record \in Record \cup {None} /\ job[h].own \in BOOLEAN
           /\ job[h].at = "compare" => job[h].record \in Record
           /\ InPlace(job[h])
BY DEF BaseInv, TypeOK, CodesInv, Job

LEMMA ToldCodes == BaseInv => delivered \subseteq Codes
<1> SUFFICES ASSUME BaseInv PROVE delivered \subseteq Codes
  OBVIOUS
<1>1. sent \in 0 .. MaxCodes /\ delivered \subseteq 1 .. sent
  BY DEF BaseInv, TypeOK
<1> QED BY <1>1, NumbersAssumption DEF Codes

\* Codes that are no longer followed have no wrong entries.
LEMMA UncountFacts ==
    ASSUME TypeOK, NEW codes \in SUBSET Codes, Uncount(codes)
    PROVE  /\ uncounted' \subseteq Codes /\ wrong' \in [Codes -> Nat]
           /\ uncounted' = uncounted \cup codes
           /\ \A c \in Codes : wrong'[c] = IF c \in uncounted' THEN 0 ELSE wrong[c]
BY DEF TypeOK, Uncount

\* What the actions that start or continue a request change.
LEMMA Generated ==
    ASSUME BaseInv, NEW h \in Handlers, Generate(h)
    PROVE  /\ sent \in 0 .. MaxCodes /\ sent < MaxCodes /\ sent' = sent + 1
           /\ sent' \in Codes /\ sent' \in 0 .. MaxCodes
           /\ job[h] = Idle /\ clear' = \A g \in Handlers : job[g] = Idle
           /\ \E j \in Job : /\ job' = [job EXCEPT ![h] = j]
                             /\ j.at = "save" /\ j.code = sent' /\ j.late = FALSE
           /\ UNCHANGED <<dead, delivered, doc, others, mem, used, undeleted, uncounted, wrong>>
<1> DEFINE j == [Idle EXCEPT !.at = "save", !.code = sent + 1]
<1>1. /\ sent \in 0 .. MaxCodes /\ sent < MaxCodes /\ sent' = sent + 1
      /\ job[h] = Idle /\ clear' = \A g \in Handlers : job[g] = Idle
      /\ job' = [job EXCEPT ![h] = j]
      /\ UNCHANGED <<dead, delivered, doc, others, mem, used, undeleted, uncounted, wrong>>
  BY DEF Generate, BaseInv, TypeOK, stores
<1>2. sent' \in Codes /\ sent' \in 0 .. MaxCodes
  BY <1>1, NumbersAssumption DEF Codes
<1>3. j.at = "save" /\ j.code = sent' /\ j.late = FALSE
  BY <1>1, Shapes DEF Job
<1>4. j \in Job
  BY <1>1, <1>2, Shapes DEF Job, Steps
<1> HIDE DEF j
<1> QED BY <1>1, <1>2, <1>3, <1>4

\* A handler that finds no document is going to insert one.
LEMMA NoneFound ==
    ASSUME BaseInv, NEW h \in Handlers, Save(h), doc = None
    PROVE  /\ job[h].at = "save" /\ job[h].code \in (1 .. sent) \ delivered
           /\ \E j \in Job : /\ job' = [job EXCEPT ![h] = j]
                             /\ j.at = "insert" /\ j.code = job[h].code /\ j.late = job[h].late
           /\ UNCHANGED <<sent, dead, delivered, doc, others, mem, used, undeleted, uncounted, wrong,
                          clear>>
<1> DEFINE j == [job[h] EXCEPT !.at = "insert"]
<1>1. /\ job[h].at = "save" /\ job' = [job EXCEPT ![h] = j]
      /\ UNCHANGED <<sent, dead, delivered, doc, others, mem, used, undeleted, uncounted, wrong,
                     clear>>
  BY DEF Save, history
<1>2. job[h].code \in (1 .. sent) \ delivered
  BY <1>1, JobFacts DEF InPlace, Sending, Saving
<1>3. j \in Job /\ j.at = "insert" /\ j.code = job[h].code /\ j.late = job[h].late
  BY DEF Job, Steps, BaseInv, TypeOK
<1> HIDE DEF j
<1> QED BY <1>1, <1>2, <1>3

\* A handler has saved its code, beside a document that another has inserted
\* if it had found none, or MongoDB has failed.
Saved(h) == (Save(h) /\ doc # None) \/ Insert(h) \/ SaveFails(h)

LEMMA SavedFacts ==
    ASSUME BaseInv, NEW h \in Handlers, Saved(h)
    PROVE  /\ job[h].at \in Saving /\ job[h].code \in (1 .. sent) \ delivered
           /\ job[h].code \in Codes
           /\ \E j \in Job : /\ job' = [job EXCEPT ![h] = j]
                             /\ j.at = "remember" /\ j.code = job[h].code /\ j.late = job[h].late
           /\ \/ doc' = Fresh(job[h].code) /\ UNCHANGED <<others, clear>>
              \/ /\ job[h].at = "insert" /\ doc # None
                 /\ others' = others \cup {job[h].code} /\ UNCHANGED <<doc, clear>>
              \/ UNCHANGED <<doc, others>> /\ clear' = (clear /\ job[h].code # sent)
           /\ UNCHANGED <<sent, dead, delivered, mem, used, undeleted, uncounted, wrong>>
<1> DEFINE j == [job[h] EXCEPT !.at = "remember"]
<1>1. /\ job[h].at \in Saving /\ job' = [job EXCEPT ![h] = j]
      /\ \/ doc' = Fresh(job[h].code) /\ UNCHANGED <<others, clear>>
         \/ /\ job[h].at = "insert" /\ doc # None
            /\ others' = others \cup {job[h].code} /\ UNCHANGED <<doc, clear>>
         \/ UNCHANGED <<doc, others>> /\ clear' = (clear /\ job[h].code # sent)
      /\ UNCHANGED <<sent, dead, delivered, mem, used, undeleted, uncounted, wrong>>
  BY DEF Saved, Save, Insert, SaveFails, stores, history, Saving
<1>2. job[h].code \in (1 .. sent) \ delivered
  BY <1>1, JobFacts DEF InPlace, Sending
<1>3. job[h].code \in Codes
  BY <1>2, NumbersAssumption DEF BaseInv, TypeOK, Codes
<1>4. j \in Job /\ j.at = "remember" /\ j.code = job[h].code /\ j.late = job[h].late
  BY DEF Job, Steps, BaseInv, TypeOK
<1> HIDE DEF j
<1> QED BY <1>1, <1>2, <1>3, <1>4

LEMMA Remembered ==
    ASSUME BaseInv, NEW h \in Handlers, Remember(h)
    PROVE  /\ job[h].at = "remember" /\ job' = [job EXCEPT ![h] = Idle]
           /\ job[h].code \in (1 .. sent) \ delivered /\ job[h].code \in Codes
           /\ mem' = Fresh(job[h].code) /\ delivered' = delivered \cup {job[h].code}
           /\ UNCHANGED <<sent, dead, doc, others, used, undeleted, uncounted, wrong, clear>>
<1>1. /\ job[h].at = "remember" /\ job' = [job EXCEPT ![h] = Idle]
      /\ mem' = Fresh(job[h].code) /\ delivered' = delivered \cup {job[h].code}
      /\ UNCHANGED <<sent, dead, doc, others, used, undeleted, uncounted, wrong, clear>>
  BY DEF Remember, history
<1>2. job[h].code \in (1 .. sent) \ delivered
  BY <1>1, JobFacts DEF InPlace, Sending, Saving
<1> QED BY <1>1, <1>2, NumbersAssumption DEF BaseInv, TypeOK, Codes

LEMMA Begun ==
    ASSUME BaseInv, NEW h \in Handlers, NEW c \in delivered \cup {Wrong}, Begin(h, c)
    PROVE  /\ \E j \in Job : /\ job' = [job EXCEPT ![h] = j] /\ j.at = "read" /\ j.code = c
                             /\ j.late = (c \in used)
           /\ UNCHANGED <<sent, dead, delivered, doc, others, mem, used, undeleted, uncounted, wrong, clear>>
<1> DEFINE late == c \in used
           j == [Idle EXCEPT !.at = "read", !.code = c, !.now = dead, !.late = late]
<1>1. /\ job' = [job EXCEPT ![h] = j]
      /\ UNCHANGED <<sent, dead, delivered, doc, others, mem, used, undeleted, uncounted, wrong, clear>>
  BY DEF Begin, stores, history
<1>2. c \in Codes \cup {Wrong} /\ dead \in 0 .. MaxCodes
  BY NumbersAssumption DEF BaseInv, TypeOK, Codes
<1>3. late \in BOOLEAN
  OBVIOUS
<1> HIDE DEF late
<1>4. j \in Job /\ j.at = "read" /\ j.code = c /\ j.late = late
  BY <1>2, <1>3, Shapes DEF Job, Steps
<1> HIDE DEF j
<1> QED BY <1>1, <1>4 DEF late

LEMMA Matched ==
    ASSUME BaseInv, NEW h \in Handlers, Match(h)
    PROVE  /\ job[h].at = "compare" /\ job[h].code = job[h].record.code
           /\ job[h].code \in delivered /\ clear' = FALSE
           /\ \E j \in Job : /\ job' = [job EXCEPT ![h] = j] /\ j.at = "delete"
                             /\ j.code = job[h].code /\ j.late = job[h].late
           /\ UNCHANGED <<sent, dead, delivered, doc, others, mem, used, undeleted, uncounted, wrong>>
<1> DEFINE j == [Idle EXCEPT !.at = "delete", !.code = job[h].code, !.late = job[h].late]
<1>1. /\ job[h].at = "compare" /\ job[h].code = job[h].record.code
      /\ job' = [job EXCEPT ![h] = j] /\ clear' = FALSE
      /\ UNCHANGED <<sent, dead, delivered, doc, others, mem, used, undeleted, uncounted, wrong>>
  BY DEF Match, stores
<1>2. j.at = "delete" /\ j.code = job[h].code /\ j.late = job[h].late
  BY Shapes DEF Job
<1>3. j \in Job
  BY JobFacts, Shapes DEF Job, Steps
<1>4. job[h].code \in delivered
  <2>1. job[h].record.code # Wrong
    BY <1>1, JobFacts DEF Record, Codes, Wrong
  <2> QED BY <1>1, <2>1, JobFacts DEF InPlace, Sending, Saving
<1> HIDE DEF j
<1> QED BY <1>1, <1>2, <1>3, <1>4

LEMMA Counted ==
    ASSUME BaseInv, NEW h \in Handlers, Count(h) \/ CountFails(h)
    PROVE  /\ job[h].at = "count" /\ job[h].code \in Codes /\ job' = [job EXCEPT ![h] = Idle]
           /\ doc' \in Record \cup {None} /\ (doc = None <=> doc' = None)
           /\ doc # None => doc'.code = doc.code
           /\ uncounted' \subseteq Codes /\ wrong' \in [Codes -> Nat]
           /\ \/ UNCHANGED <<uncounted, wrong>> /\ (doc # None => doc'.attempts = doc.attempts + 1)
              \/ /\ UNCHANGED doc /\ uncounted' = uncounted \cup {job[h].code}
                 /\ \A c \in Codes : wrong'[c] = IF c \in uncounted' THEN 0 ELSE wrong[c]
           /\ UNCHANGED <<sent, dead, delivered, others, mem, used, undeleted, clear>>
<1>1. /\ job[h].at = "count" /\ job' = [job EXCEPT ![h] = Idle]
      /\ UNCHANGED <<sent, dead, delivered, others, mem, used, undeleted, clear>>
  BY DEF Count, CountFails, stores, history
<1>2. job[h].code \in Codes
  BY <1>1, JobFacts DEF InPlace, Sending, Saving
<1>3. CASE Count(h)
  <2>1. /\ UNCHANGED <<uncounted, wrong>>
        /\ doc' = IF doc = None THEN None ELSE [doc EXCEPT !.attempts = @ + 1]
    BY <1>3 DEF Count, history
  <2>2. CASE doc = None
    BY <1>1, <1>2, <2>1, <2>2 DEF BaseInv, TypeOK
  <2>3. CASE doc # None
    <3>1. doc' \in Record /\ doc'.code = doc.code /\ doc'.attempts = doc.attempts + 1
      BY <2>1, <2>3, Shapes DEF BaseInv, TypeOK
    <3> QED BY <1>1, <1>2, <2>1, <2>3, <3>1, NoneAssumption DEF BaseInv, TypeOK
  <2> QED BY <2>2, <2>3
<1>4. CASE CountFails(h)
  <2>1. Uncount({job[h].code}) /\ UNCHANGED doc
    BY <1>4 DEF CountFails, stores
  <2> QED BY <1>1, <1>2, <2>1, UncountFacts DEF BaseInv, TypeOK
<1> QED BY <1>3, <1>4

LEMMA Deleted ==
    ASSUME BaseInv, NEW h \in Handlers, Delete(h) \/ DeleteFails(h)
    PROVE  /\ job[h].at = "delete" /\ job[h].code \in delivered
           /\ \E j \in Job : /\ job' = [job EXCEPT ![h] = j] /\ j.at = "forget"
                             /\ j.code = job[h].code /\ j.late = job[h].late
           /\ \/ /\ \/ doc' = None /\ others' = {} /\ others = {}
                    \/ \E c \in others : doc' = Fresh(c) /\ others' = others \ {c}
                 /\ undeleted' = undeleted \cup ({job[h].code} \cap others)
              \/ UNCHANGED <<doc, others>> /\ undeleted' = undeleted \cup {job[h].code}
           /\ UNCHANGED <<sent, dead, delivered, mem, used, uncounted, wrong, clear>>
<1> DEFINE j == [job[h] EXCEPT !.at = "forget"]
<1>1. /\ job[h].at = "delete" /\ job' = [job EXCEPT ![h] = j]
      /\ \/ /\ \/ doc' = None /\ others' = {} /\ others = {}
               \/ \E c \in others : doc' = Fresh(c) /\ others' = others \ {c}
            /\ undeleted' = undeleted \cup ({job[h].code} \cap others)
         \/ UNCHANGED <<doc, others>> /\ undeleted' = undeleted \cup {job[h].code}
      /\ UNCHANGED <<sent, dead, delivered, mem, used, uncounted, wrong, clear>>
  BY DEF Delete, DeleteFails, stores, history
<1>2. j \in Job /\ j.at = "forget" /\ j.code = job[h].code /\ j.late = job[h].late
  BY DEF Job, Steps, BaseInv, TypeOK
<1>3. job[h].code \in delivered
  BY <1>1, JobFacts DEF InPlace, Sending, Saving
<1> HIDE DEF j
<1> QED BY <1>1, <1>2, <1>3

LEMMA Forgotten ==
    ASSUME BaseInv, NEW h \in Handlers, Forget(h)
    PROVE  /\ job[h].at = "forget" /\ job' = [job EXCEPT ![h] = Idle]
           /\ mem' = None /\ used' = used \cup {job[h].code} /\ job[h].code \in delivered
           /\ UNCHANGED <<sent, dead, delivered, doc, others, undeleted, uncounted, wrong, clear>>
<1>1. /\ job[h].at = "forget" /\ job' = [job EXCEPT ![h] = Idle]
      /\ mem' = None /\ used' = used \cup {job[h].code}
      /\ UNCHANGED <<sent, dead, delivered, doc, others, undeleted, uncounted, wrong, clear>>
  BY DEF Forget
<1> QED BY <1>1, JobFacts DEF InPlace, Sending, Saving

\* A request that has read a record compares with it, or is rejected.
LEMMA WasRead ==
    ASSUME BaseInv, NEW h \in Handlers, Read(h) \/ ReadFails(h)
    PROVE  /\ job[h].at = "read"
           /\ UNCHANGED <<sent, dead, delivered, doc, others, mem, used, undeleted, uncounted, wrong, clear>>
           /\ \/ job' = [job EXCEPT ![h] = Idle]
              \/ \E j \in Job, r \in Record :
                    /\ job' = [job EXCEPT ![h] = j]
                    /\ j.at = "compare" /\ j.record = r /\ ((r = mem /\ j.own) \/ (r = doc /\ ~j.own))
                    /\ j.code = job[h].code /\ j.late = job[h].late
                    /\ r # None /\ r.code <= sent /\ r.attempts < MaxAttempts
<1>1. /\ job[h].at = "read"
      /\ UNCHANGED <<sent, dead, delivered, doc, others, mem, used, undeleted, uncounted, wrong, clear>>
      /\ Examine(h, doc, FALSE) \/ Examine(h, mem, TRUE)
  BY DEF Read, ReadFails, stores, history
<1>2. ASSUME NEW r \in {doc, mem}, NEW own \in BOOLEAN, Examine(h, r, own)
      PROVE  \/ job' = [job EXCEPT ![h] = Idle]
             \/ \E j \in Job :
                   /\ job' = [job EXCEPT ![h] = j]
                   /\ j.at = "compare" /\ j.record = r /\ j.own = own
                   /\ j.code = job[h].code /\ j.late = job[h].late
                   /\ r \in Record /\ r # None /\ r.code <= sent /\ r.attempts < MaxAttempts
  <2>1. CASE ~(r # None /\ r.code > job[h].now /\ r.attempts < MaxAttempts)
    BY <1>2, <2>1 DEF Examine
  <2>2. CASE r # None /\ r.code > job[h].now /\ r.attempts < MaxAttempts
    <3> DEFINE j == [job[h] EXCEPT !.at = "compare", !.now = 0, !.record = r, !.own = own]
    <3>1. job' = [job EXCEPT ![h] = j]
      BY <1>2, <2>2 DEF Examine
    <3>2. /\ j.at = "compare" /\ j.code = job[h].code /\ j.late = job[h].late
          /\ j.record = r /\ j.own = own
      BY DEF BaseInv, TypeOK, Job
    <3>3. r \in Record /\ r.code <= sent
      BY <2>2 DEF BaseInv, TypeOK, CodesInv
    <3>4. j \in Job
      <4>1. job[h] \in Job /\ 0 \in 0 .. MaxCodes
        BY NumbersAssumption DEF BaseInv, TypeOK
      <4>2. ASSUME NEW x \in Job, NEW n \in 0 .. MaxCodes
            PROVE  [x EXCEPT !.at = "compare", !.now = n, !.record = r, !.own = own] \in Job
        BY <3>3 DEF Job, Steps
      <4> QED BY <4>1, <4>2
    <3> HIDE DEF j
    <3> QED BY <2>2, <3>1, <3>2, <3>3, <3>4
  <2> QED BY <2>1, <2>2
<1>3. CASE Examine(h, doc, FALSE)
  BY <1>1, <1>2, <1>3
<1>4. CASE Examine(h, mem, TRUE)
  BY <1>1, <1>2, <1>4
<1> QED BY <1>1, <1>3, <1>4

\* What an entry that is wrong changes.
LEMMA Mismatched ==
    ASSUME BaseInv, NEW h \in Handlers, Mismatch(h)
    PROVE  LET r == job[h].record
           IN  /\ job[h].at = "compare" /\ r \in Record /\ r.code \in Codes /\ r.code <= sent
               /\ \E j \in Job :
                     /\ job' = [job EXCEPT ![h] = j]
                     /\ j.at = "count" /\ j.code = r.code /\ j.late = FALSE
               /\ mem' \in Record \cup {None}
               /\ mem' = mem \/ (mem' # None /\ mem # None /\ mem'.code = mem.code)
               /\ wrong' = IF job[h].own \/ r.code \in uncounted THEN wrong
                           ELSE [wrong EXCEPT ![r.code] = @ + 1]
               /\ wrong' \in [Codes -> Nat]
               /\ UNCHANGED <<sent, dead, delivered, doc, others, used, undeleted, uncounted, clear>>
<1> DEFINE r == job[h].record
           j == [Idle EXCEPT !.at = "count", !.code = r.code]
<1>1. /\ job[h].at = "compare" /\ job' = [job EXCEPT ![h] = j]
      /\ mem' = IF job[h].own /\ mem # None /\ mem.code = r.code
                THEN [r EXCEPT !.attempts = @ + 1] ELSE mem
      /\ wrong' = IF job[h].own \/ r.code \in uncounted THEN wrong
                  ELSE [wrong EXCEPT ![r.code] = @ + 1]
      /\ UNCHANGED <<sent, dead, delivered, doc, others, used, undeleted, uncounted, clear>>
  BY DEF Mismatch
<1>2. r \in Record /\ r.code \in Codes /\ r.code <= sent
  BY <1>1, JobFacts DEF Record, InPlace, Sending, Saving
<1>3. j.at = "count" /\ j.code = r.code /\ j.late = FALSE
  BY Shapes DEF Job
<1>4. j \in Job
  BY <1>2, Shapes DEF Job, Steps
<1> HIDE DEF j, r
<1>5. mem' \in Record \cup {None} /\ (mem' = mem \/ (mem' # None /\ mem # None /\ mem'.code = mem.code))
  <2>1. CASE mem' = mem
    BY <2>1 DEF BaseInv, TypeOK
  <2>2. CASE mem' # mem
    <3>1. mem # None /\ mem.code = r.code /\ mem' = [r EXCEPT !.attempts = @ + 1]
      BY <1>1, <2>2
    <3>2. mem' \in Record /\ mem'.code = r.code
      BY <1>2, <3>1, Shapes
    <3> QED BY <3>1, <3>2, NoneAssumption
  <2> QED BY <2>1, <2>2
<1>6. wrong' \in [Codes -> Nat]
  <2>1. wrong[r.code] + 1 \in Nat
    BY <1>2 DEF BaseInv, TypeOK
  <2> QED BY <1>1, <2>1 DEF BaseInv, TypeOK
<1> QED BY <1>1, <1>2, <1>3, <1>4, <1>5, <1>6 DEF r

\* What a restart changes.
LEMMA Restarted ==
    ASSUME BaseInv, Restart
    PROVE  /\ \A h \in Handlers : job'[h] = Idle
           /\ job' \in [Handlers -> Job] /\ mem' = None
           /\ uncounted' \subseteq Codes /\ wrong' \in [Codes -> Nat]
           /\ \A c \in Codes : wrong'[c] = IF c \in uncounted' THEN 0 ELSE wrong[c]
           /\ uncounted \subseteq uncounted'
           /\ \A h \in Handlers : job[h].at = "count" => job[h].code \in uncounted'
           /\ clear' = (clear /\ \A h \in Handlers : job[h].at \notin Saving)
           /\ UNCHANGED <<sent, dead, delivered, doc, others, used, undeleted>>
<1> DEFINE codes == {job[h].code : h \in {g \in Handlers : job[g].at = "count"}}
<1>1. codes \in SUBSET Codes
  BY JobFacts DEF InPlace, Sending, Saving
<1>2. Uncount(codes) /\ TypeOK
  BY DEF Restart, BaseInv
<1>3. \A h \in Handlers : job[h].at = "count" => job[h].code \in codes
  OBVIOUS
<1> HIDE DEF codes
<1>4. /\ uncounted' \subseteq Codes /\ wrong' \in [Codes -> Nat]
      /\ uncounted' = uncounted \cup codes
      /\ \A c \in Codes : wrong'[c] = IF c \in uncounted' THEN 0 ELSE wrong[c]
  BY <1>1, <1>2, UncountFacts
<1>5. job' = [h \in Handlers |-> Idle] /\ mem' = None
      /\ clear' = (clear /\ \A h \in Handlers : job[h].at \notin Saving)
      /\ UNCHANGED <<sent, dead, delivered, doc, others, used, undeleted>>
  BY DEF Restart, Saving
<1> QED BY <1>3, <1>4, <1>5, Shapes

-----------------------------------------------------------------------------
(* Every variable has a value of its type, and the codes are in their places *)

LEMMA BaseGenerate ==
    ASSUME BaseInv, NEW h \in Handlers, Generate(h) PROVE BaseInv'
<1>1. /\ sent \in 0 .. MaxCodes /\ sent < MaxCodes /\ sent' = sent + 1
      /\ UNCHANGED <<dead, delivered, doc, others, mem, used, undeleted, uncounted, wrong>>
  BY Generated
<1>2. sent' \in Codes /\ sent' \in 0 .. MaxCodes
  BY Generated
<1>3. PICK j \in Job : job' = [job EXCEPT ![h] = j] /\ j.at = "save" /\ j.code = sent + 1
  BY Generated
<1>4. \A g \in Handlers : job'[g] = IF g = h THEN j ELSE job[g]
  BY <1>3 DEF BaseInv, TypeOK
<1>5. TypeOK'
  <2>1. job' \in [Handlers -> Job]
    BY <1>1, <1>3 DEF BaseInv, TypeOK
  <2>2. sent' \in 0 .. MaxCodes /\ dead' \in 0 .. sent' /\ delivered' \subseteq 1 .. sent'
    BY <1>1, <1>2 DEF BaseInv, TypeOK
  <2>3. \A g \in Handlers : job'[g].at = "compare" => job'[g].record # None
    BY <1>3, <1>4 DEF BaseInv, TypeOK
  <2>4. clear' \in BOOLEAN
    BY DEF Generate
  <2> QED BY <1>1, <2>1, <2>2, <2>3, <2>4 DEF BaseInv, TypeOK
<1>6. \A g \in Handlers : InPlace(job[g])'
  <2> SUFFICES ASSUME NEW g \in Handlers PROVE InPlace(job[g])'
    OBVIOUS
  <2>1. CASE g = h
    <3>1. sent + 1 \in (1 .. sent') \ delivered'
      BY <1>1 DEF BaseInv, TypeOK
    <3> QED BY <1>3, <1>4, <2>1, <3>1 DEF InPlace, Sending, Saving
  <2>2. CASE g # h
    <3>1. job[g].at = "compare" => job[g].record.code \in Nat
      BY JobFacts DEF Record, Codes
    <3> QED BY <1>1, <1>4, <2>2, <3>1 DEF BaseInv, CodesInv, InPlace, Sending, Saving
  <2> QED BY <2>1, <2>2
<1>7. \A f, g \in Handlers :
          /\ job'[f].at \in Sending /\ job'[g].at \in Sending
          /\ job'[f].code = job'[g].code
          => f = g
  <2>1. \A g \in Handlers : job[g].at \in Sending => job[g].code # sent + 1
    BY <1>1 DEF BaseInv, CodesInv, InPlace, Sending, Saving
  <2> QED BY <1>3, <1>4, <2>1 DEF BaseInv, CodesInv
<1>8. /\ (doc' # None => doc'.code <= sent') /\ (mem' # None => mem'.code <= sent')
      /\ \A c \in others' : c <= sent'
  BY <1>1 DEF BaseInv, TypeOK, CodesInv, Record, Codes
<1> QED BY <1>1, <1>5, <1>6, <1>7, <1>8 DEF BaseInv, CodesInv

LEMMA BaseFind ==
    ASSUME BaseInv, NEW h \in Handlers, Save(h), doc = None PROVE BaseInv'
<1>1. PICK j \in Job : job' = [job EXCEPT ![h] = j] /\ j.at = "insert" /\ j.code = job[h].code
  BY NoneFound
<1>2. /\ job[h].at = "save" /\ job[h].code \in (1 .. sent) \ delivered
      /\ UNCHANGED <<sent, dead, delivered, doc, others, mem, used, undeleted, uncounted, wrong,
                     clear>>
  BY NoneFound
<1>3. InPlace(j)
  BY <1>1, <1>2 DEF InPlace, Sending, Saving
<1>4. job[h].at \in Sending /\ j.at # "compare"
  BY <1>1, <1>2 DEF Sending, Saving
<1> QED BY <1>1, <1>2, <1>3, <1>4, OneMoves DEF BaseInv, TypeOK, CodesInv

LEMMA BaseSave ==
    ASSUME BaseInv, NEW h \in Handlers, Saved(h) PROVE BaseInv'
<1>1. PICK j \in Job : job' = [job EXCEPT ![h] = j] /\ j.at = "remember" /\ j.code = job[h].code
  BY SavedFacts
<1>2. /\ job[h].at \in Saving /\ job[h].code \in (1 .. sent) \ delivered /\ job[h].code \in Codes
      /\ UNCHANGED <<sent, dead, delivered, mem, used, undeleted, uncounted, wrong>>
      /\ doc' = doc \/ doc' = Fresh(job[h].code)
      /\ others' = others \/ others' = others \cup {job[h].code}
      /\ job[h].code <= sent
      /\ clear' = clear \/ clear' = (clear /\ job[h].code # sent)
  BY SavedFacts
<1>3. InPlace(j)
  BY <1>1, <1>2 DEF InPlace, Sending, Saving
<1>4. doc' \in Record \cup {None} /\ (doc' # None => doc'.code <= sent')
  BY <1>2, Shapes DEF BaseInv, TypeOK, CodesInv
<1>5. others' \subseteq Codes /\ \A c \in others' : c <= sent'
  BY <1>2 DEF BaseInv, TypeOK, CodesInv
<1>6. clear' \in BOOLEAN
  BY <1>2 DEF BaseInv, TypeOK
<1>7. job[h].at \in Sending /\ j.at # "compare"
  BY <1>1, <1>2 DEF Sending
<1> QED
  BY <1>1, <1>2, <1>3, <1>4, <1>5, <1>6, <1>7, OneMoves DEF BaseInv, TypeOK, CodesInv

LEMMA BaseRemember ==
    ASSUME BaseInv, NEW h \in Handlers, Remember(h) PROVE BaseInv'
<1>1. /\ job[h].at = "remember" /\ job' = [job EXCEPT ![h] = Idle]
      /\ mem' = Fresh(job[h].code) /\ delivered' = delivered \cup {job[h].code}
      /\ UNCHANGED <<sent, dead, doc, others, used, undeleted, uncounted, wrong, clear>>
  BY Remembered
<1>2. job[h].code \in 1 .. sent /\ job[h].code \in Codes
  BY Remembered
<1>3. \A g \in Handlers : job'[g] = IF g = h THEN Idle ELSE job[g]
  BY <1>1 DEF BaseInv, TypeOK
<1>4. TypeOK'
  <2>1. job' \in [Handlers -> Job]
    BY <1>1, Shapes DEF BaseInv, TypeOK
  <2>2. mem' \in Record \cup {None}
    BY <1>1, <1>2, Shapes
  <2>3. delivered' \subseteq 1 .. sent'
    BY <1>1, <1>2 DEF BaseInv, TypeOK
  <2>4. \A g \in Handlers : job'[g].at = "compare" => job'[g].record # None
    BY <1>3, Shapes DEF BaseInv, TypeOK
  <2> QED BY <1>1, <2>1, <2>2, <2>3, <2>4 DEF BaseInv, TypeOK
<1>5. \A g \in Handlers : InPlace(job[g])'
  <2> SUFFICES ASSUME NEW g \in Handlers PROVE InPlace(job[g])'
    OBVIOUS
  <2>1. job'[g].at \in Sending => g # h /\ job[g].code # job[h].code
    BY <1>1, <1>3, Shapes DEF BaseInv, CodesInv, Sending, Saving
  <2> QED BY <1>1, <1>3, <2>1, Shapes DEF BaseInv, CodesInv, InPlace, Sending, Saving
<1>6. \A f, g \in Handlers :
          /\ job'[f].at \in Sending /\ job'[g].at \in Sending
          /\ job'[f].code = job'[g].code
          => f = g
  BY <1>3, Shapes DEF BaseInv, CodesInv, Sending, Saving
<1>7. mem'.code <= sent'
  BY <1>1, <1>2, Shapes DEF BaseInv, TypeOK
<1> QED BY <1>1, <1>4, <1>5, <1>6, <1>7 DEF BaseInv, CodesInv

LEMMA BaseVerify ==
    ASSUME BaseInv, NEW h \in Handlers,
           \/ \E c \in delivered \cup {Wrong} : Begin(h, c)
           \/ Read(h) \/ ReadFails(h) \/ Match(h)
    PROVE  BaseInv'
<1>1. PICK j \in Job : /\ job' = [job EXCEPT ![h] = j] /\ InPlace(j)
                       /\ j.at \notin Sending
                       /\ j.at = "compare" => j.record # None
  <2>1. CASE \E c \in delivered \cup {Wrong} : Begin(h, c)
    BY <2>1, Begun DEF InPlace, Sending, Saving
  <2>2. CASE Read(h) \/ ReadFails(h)
    <3>1. InPlace(Idle)
      BY Shapes DEF InPlace, Sending, Saving
    <3>2. CASE job' = [job EXCEPT ![h] = Idle]
      BY <3>1, <3>2, Shapes DEF Sending, Saving
    <3>3. CASE job' # [job EXCEPT ![h] = Idle]
      <4>1. PICK j \in Job : /\ job' = [job EXCEPT ![h] = j] /\ j.at = "compare"
                             /\ j.record # None /\ j.record.code <= sent
                             /\ j.code = job[h].code
        BY <2>2, <3>3, WasRead
      <4>2. job[h].at = "read"
        BY <2>2, WasRead
      <4>3. InPlace(j)
        BY <4>1, <4>2, JobFacts DEF InPlace, Sending, Saving
      <4> QED BY <4>1, <4>3 DEF Sending, Saving
    <3> QED BY <3>2, <3>3
  <2>3. CASE Match(h)
    BY <2>3, Matched DEF InPlace, Sending, Saving
  <2> QED BY <2>1, <2>2, <2>3
<1>2. /\ UNCHANGED <<sent, dead, delivered, doc, others, mem, used, undeleted, uncounted, wrong>>
      /\ clear' = clear \/ clear' = FALSE
  BY Begun, WasRead, Matched
<1> QED
  BY <1>1, <1>2, OneMoves DEF BaseInv, TypeOK, CodesInv

LEMMA BaseMismatch ==
    ASSUME BaseInv, NEW h \in Handlers, Mismatch(h) PROVE BaseInv'
<1>1. PICK j \in Job : /\ job' = [job EXCEPT ![h] = j]
                       /\ j.at = "count" /\ j.code \in Codes
  BY Mismatched
<1>2. /\ mem' \in Record \cup {None} /\ wrong' \in [Codes -> Nat]
      /\ mem' = mem \/ (mem' # None /\ mem # None /\ mem'.code = mem.code)
      /\ UNCHANGED <<sent, dead, delivered, doc, others, used, undeleted, uncounted, clear>>
  BY Mismatched
<1>3. InPlace(j)
  BY <1>1 DEF InPlace, Sending, Saving
<1>4. mem' # None => mem'.code <= sent'
  BY <1>2 DEF BaseInv, CodesInv
<1> QED
  BY <1>1, <1>2, <1>3, <1>4, OneMoves DEF BaseInv, TypeOK, CodesInv, Sending, Saving

LEMMA BaseCount ==
    ASSUME BaseInv, NEW h \in Handlers, Count(h) \/ CountFails(h) PROVE BaseInv'
<1>1. /\ job' = [job EXCEPT ![h] = Idle]
      /\ UNCHANGED <<sent, dead, delivered, others, mem, used, undeleted, clear>>
      /\ uncounted' \subseteq Codes /\ wrong' \in [Codes -> Nat]
      /\ doc' \in Record \cup {None} /\ (doc' # None => doc'.code <= sent')
  BY Counted DEF BaseInv, CodesInv
<1>2. InPlace(Idle)
  BY Shapes DEF InPlace, Sending, Saving
<1> QED
  BY <1>1, <1>2, OneMoves, Shapes DEF BaseInv, TypeOK, CodesInv, Sending, Saving

LEMMA BaseDelete ==
    ASSUME BaseInv, NEW h \in Handlers, Delete(h) \/ DeleteFails(h) PROVE BaseInv'
<1>1. PICK j \in Job : job' = [job EXCEPT ![h] = j] /\ j.at = "forget" /\ j.code = job[h].code
  BY Deleted
<1>2. /\ job[h].code \in delivered
      /\ UNCHANGED <<sent, dead, delivered, mem, used, uncounted, wrong, clear>>
      /\ undeleted' \subseteq undeleted \cup {job[h].code}
      /\ others' \subseteq others
      /\ doc' = doc \/ doc' = None \/ \E c \in others : doc' = Fresh(c)
  BY Deleted
<1>3. InPlace(j)
  BY <1>1, <1>2 DEF InPlace, Sending, Saving
<1>4. job[h].code \in Codes
  BY <1>2, ToldCodes
<1>5. doc' \in Record \cup {None} /\ (doc' # None => doc'.code <= sent)
  BY <1>2, Shapes DEF BaseInv, TypeOK, CodesInv
<1>6. undeleted' \subseteq Codes /\ others' \subseteq Codes /\ \A c \in others' : c <= sent
  BY <1>2, <1>4 DEF BaseInv, TypeOK, CodesInv
<1>7. j.at \notin Sending /\ j.at # "compare"
  BY <1>1 DEF Sending, Saving
<1> QED
  BY <1>1, <1>2, <1>3, <1>5, <1>6, <1>7, OneMoves DEF BaseInv, TypeOK, CodesInv

LEMMA BaseForget ==
    ASSUME BaseInv, NEW h \in Handlers, Forget(h) PROVE BaseInv'
<1>1. InPlace(Idle)
  BY Shapes DEF InPlace, Sending, Saving
<1>2. job[h].code \in Codes
  BY Forgotten, ToldCodes
<1> QED
  BY <1>1, <1>2, Forgotten, OneMoves, Shapes DEF BaseInv, TypeOK, CodesInv, Sending, Saving

LEMMA BaseRestart ==
    ASSUME BaseInv, Restart PROVE BaseInv'
<1>1. \A h \in Handlers : InPlace(job[h])'
  BY Restarted, Shapes DEF InPlace, Sending, Saving
<1>2. clear' \in BOOLEAN
  BY Restarted DEF BaseInv, TypeOK
<1> QED BY <1>1, <1>2, Restarted, Shapes DEF BaseInv, TypeOK, CodesInv, Sending, Saving

LEMMA BaseExpire ==
    ASSUME BaseInv, Expire PROVE BaseInv'
<1>1. dead' \in 0 .. sent
  BY DEF Expire, BaseInv, TypeOK
<1> QED BY <1>1 DEF Expire, stores, history, BaseInv, TypeOK, CodesInv, InPlace, Sending, Saving

LEMMA BaseNext == BaseInv /\ [Next]_vars => BaseInv'
<1> SUFFICES ASSUME BaseInv, [Next]_vars PROVE BaseInv'
  OBVIOUS
<1>1. CASE UNCHANGED vars
  BY <1>1 DEF vars, stores, history, BaseInv, TypeOK, CodesInv, InPlace, Sending, Saving
<1>2. ASSUME NEW h \in Handlers, SendOtp(h) PROVE BaseInv'
  BY <1>2, BaseGenerate, BaseFind, BaseSave, BaseRemember DEF SendOtp, Saved
<1>3. ASSUME NEW h \in Handlers, VerifyOtp(h) PROVE BaseInv'
  BY <1>3, BaseVerify, BaseDelete, BaseForget, BaseMismatch, BaseCount
     DEF VerifyOtp
<1> QED BY <1>1, <1>2, <1>3, BaseRestart, BaseExpire DEF Next

LEMMA BaseInvariant == Spec => []BaseInv
BY BaseInit, BaseNext, PTL DEF Spec

\* Every variable keeps a value of its type: in particular the attempts stay
\* numbers, and a request compares only with a record that it has read.
THEOREM TypeCorrect == Spec => []TypeOK
<1>1. BaseInv => TypeOK
  BY DEF BaseInv
<1> QED BY <1>1, BaseInvariant, PTL

-----------------------------------------------------------------------------
(* A code is used once *)

\* One handler goes to job j, the codes of the documents that go or come being
\* told from those of the other handlers.
LEMMA UseMoves ==
    ASSUME BaseInv, UseInv, NEW h \in Handlers, NEW j,
           job' = [job EXCEPT ![h] = j],
           used \subseteq used', undeleted \subseteq undeleted',
           \A c \in delivered : NoDocument(c) => NoDocument(c)',
           Unused(j)'
    PROVE  \A g \in Handlers : Unused(job[g])'
<1> SUFFICES ASSUME NEW g \in Handlers PROVE Unused(job[g])'
  OBVIOUS
<1>1. job'[g] = IF g = h THEN j ELSE job[g]
  BY DEF BaseInv, TypeOK
<1>2. CASE g = h
  BY <1>1, <1>2 DEF Unused
<1>3. CASE g # h
  <2>1. Unused(job[g])
    BY DEF UseInv
  <2>2. job[g].at = "forget" => job[g].code \in delivered
    BY DEF BaseInv, CodesInv, InPlace, Sending, Saving
  <2> QED BY <1>1, <1>3, <2>1, <2>2 DEF Unused
<1> QED BY <1>2, <1>3

LEMMA UseInit == Init => UseInv
BY Shapes DEF Init, UseInv, Unused

LEMMA UseSend ==
    ASSUME BaseInv, UseInv, NEW h \in Handlers, SendOtp(h) PROVE UseInv'
<1>1. CASE Generate(h)
  <2>1. PICK j \in Job : job' = [job EXCEPT ![h] = j] /\ j.at = "save" /\ j.late = FALSE
    BY <1>1, Generated
  <2>2. UNCHANGED <<delivered, doc, others, mem, used, undeleted>>
    BY <1>1, Generated
  <2>3. Unused(j)'
    BY <2>1 DEF Unused
  <2> QED BY <2>1, <2>2, <2>3, UseMoves DEF UseInv, NoDocument
<1>2. CASE Saved(h)
  <2>1. PICK j \in Job : /\ job' = [job EXCEPT ![h] = j] /\ j.at = "remember"
                         /\ j.code = job[h].code /\ j.late = job[h].late
    BY <1>2, SavedFacts
  <2>2. /\ UNCHANGED <<delivered, mem, used, undeleted>> /\ job[h].code \in Codes \ delivered
        /\ doc' = doc \/ doc' = Fresh(job[h].code)
        /\ others' = others \/ others' = others \cup {job[h].code}
    BY <1>2, SavedFacts
  <2>3. \A c \in delivered : NoDocument(c) => NoDocument(c)'
    BY <2>2, Shapes DEF NoDocument, Without
  <2>4. Unused(j)'
    BY <2>1, <2>2 DEF UseInv, Unused
  <2> QED BY <2>1, <2>2, <2>3, <2>4, UseMoves DEF UseInv, NoDocument, BaseInv, CodesInv
<1>3. CASE Remember(h)
  <2>1. /\ job' = [job EXCEPT ![h] = Idle] /\ mem' = Fresh(job[h].code)
        /\ job[h].code \in Codes \ delivered /\ UNCHANGED <<doc, others, used, undeleted>>
    BY <1>3, Remembered
  <2>2. \A c \in used : Without(mem', c)
    BY <2>1, Shapes DEF Without, BaseInv, CodesInv
  <2>3. Unused(Idle)'
    BY Shapes DEF Unused
  <2> QED BY <2>1, <2>2, <2>3, UseMoves DEF UseInv, NoDocument
<1>4. CASE Save(h) /\ doc = None
  <2>1. PICK j \in Job : /\ job' = [job EXCEPT ![h] = j] /\ j.at = "insert"
                         /\ j.code = job[h].code /\ j.late = job[h].late
    BY <1>4, NoneFound
  <2>2. UNCHANGED <<delivered, doc, others, mem, used, undeleted>>
    BY <1>4, NoneFound
  <2>3. Unused(j)'
    BY <2>1, <2>2 DEF UseInv, Unused
  <2> QED BY <2>1, <2>2, <2>3, UseMoves DEF UseInv, NoDocument
<1> QED BY <1>1, <1>2, <1>3, <1>4 DEF SendOtp, Saved

LEMMA UseBegin ==
    ASSUME BaseInv, UseInv, NEW h \in Handlers, NEW c \in delivered \cup {Wrong}, Begin(h, c)
    PROVE  UseInv'
<1>1. PICK j \in Job : /\ job' = [job EXCEPT ![h] = j] /\ j.at = "read" /\ j.code = c
                       /\ j.late = (c \in used)
  BY Begun
<1>2. UNCHANGED <<delivered, doc, others, mem, used, undeleted>>
  BY Begun
<1>3. Unused(j)'
  BY <1>1, <1>2 DEF Unused
<1> QED BY <1>1, <1>2, <1>3, UseMoves DEF UseInv, NoDocument

\* A request that began after its code was used reads a record of another code.
LEMMA UseRead ==
    ASSUME BaseInv, UseInv, NEW h \in Handlers, Read(h) \/ ReadFails(h) PROVE UseInv'
<1>1. UNCHANGED <<delivered, doc, others, mem, used, undeleted>>
  BY WasRead
<1>2. CASE job' = [job EXCEPT ![h] = Idle]
  <2>1. Unused(Idle)'
    BY Shapes DEF Unused
  <2> QED BY <1>1, <1>2, <2>1, UseMoves DEF UseInv, NoDocument
<1>3. CASE job' # [job EXCEPT ![h] = Idle]
  <2>1. PICK j \in Job, r \in {doc, mem} :
            /\ job' = [job EXCEPT ![h] = j] /\ j.at = "compare" /\ j.record = r
            /\ j.code = job[h].code /\ j.late = job[h].late /\ r # None
    BY <1>3, WasRead
  <2>2. j.late => j.code \in used /\ (j.code \in undeleted \/ r.code # j.code)
    BY <2>1 DEF UseInv, Unused, NoDocument, Without
  <2>3. Unused(j)'
    BY <1>1, <2>1, <2>2 DEF Unused
  <2> QED BY <1>1, <2>1, <2>3, UseMoves DEF UseInv, NoDocument
<1> QED BY <1>2, <1>3

LEMMA UseFound ==
    ASSUME BaseInv, UseInv, NEW h \in Handlers, Match(h) \/ Delete(h) \/ DeleteFails(h)
    PROVE  UseInv'
<1>1. CASE Match(h)
  <2>1. PICK j \in Job : /\ job' = [job EXCEPT ![h] = j] /\ j.at = "delete"
                         /\ j.code = job[h].code /\ j.late = job[h].late
    BY <1>1, Matched
  <2>2. /\ job[h].at = "compare" /\ job[h].code = job[h].record.code
        /\ UNCHANGED <<delivered, doc, others, mem, used, undeleted>>
    BY <1>1, Matched
  <2>3. Unused(j)'
    BY <2>1, <2>2 DEF UseInv, Unused
  <2> QED BY <2>1, <2>2, <2>3, UseMoves DEF UseInv, NoDocument
<1>2. CASE Delete(h) \/ DeleteFails(h)
  <2>1. PICK j \in Job : /\ job' = [job EXCEPT ![h] = j] /\ j.at = "forget"
                         /\ j.code = job[h].code /\ j.late = job[h].late
    BY <1>2, Deleted
  <2>2. /\ job[h].at = "delete" /\ UNCHANGED <<delivered, mem, used>>
        /\ undeleted \subseteq undeleted'
        /\ others' \subseteq others
        /\ doc' = doc \/ doc' = None \/ \E c \in others : doc' = Fresh(c)
        /\ \/ job[h].code \in undeleted'
           \/ Without(doc', job[h].code) /\ job[h].code \notin others'
    <3>1. CASE job[h].code \in undeleted'
      BY <1>2, <3>1, Deleted
    <3>2. CASE job[h].code \notin undeleted'
      <4>1. /\ job[h].code \notin others
            /\ \/ doc' = None /\ others' = {} /\ others = {}
               \/ \E c \in others : doc' = Fresh(c) /\ others' = others \ {c}
        BY <1>2, <3>2, Deleted
      <4>2. Without(doc', job[h].code) /\ job[h].code \notin others'
        BY <4>1, Shapes DEF Without, BaseInv, TypeOK
      <4> QED BY <1>2, <4>1, <4>2, Deleted
    <3> QED BY <3>1, <3>2
  <2>3. \A c : NoDocument(c) => NoDocument(c)'
    BY <2>2, Shapes DEF NoDocument, Without, BaseInv, TypeOK
  <2>4. Unused(j)'
    BY <2>1, <2>2 DEF UseInv, Unused, NoDocument
  <2> QED BY <2>1, <2>2, <2>3, <2>4, UseMoves DEF UseInv, NoDocument
<1> QED BY <1>1, <1>2

LEMMA UseMismatch ==
    ASSUME BaseInv, UseInv, NEW h \in Handlers, Mismatch(h) PROVE UseInv'
<1>1. PICK j \in Job : /\ job' = [job EXCEPT ![h] = j]
                       /\ j.at = "count" /\ j.late = FALSE
  BY Mismatched
<1>2. UNCHANGED <<delivered, doc, others, used, undeleted>>
      /\ (mem' = mem \/ (mem' # None /\ mem # None /\ mem'.code = mem.code))
  BY Mismatched
<1>3. Unused(j)'
  BY <1>1 DEF Unused
<1>4. \A c \in used : Without(mem', c)
  BY <1>2 DEF UseInv, Without
<1> QED BY <1>1, <1>2, <1>3, <1>4, UseMoves DEF UseInv, NoDocument

LEMMA UseCount ==
    ASSUME BaseInv, UseInv, NEW h \in Handlers, Count(h) \/ CountFails(h) PROVE UseInv'
<1>1. /\ job' = [job EXCEPT ![h] = Idle] /\ UNCHANGED <<delivered, others, mem, used, undeleted>>
      /\ \A c : NoDocument(c) => NoDocument(c)'
  BY Counted DEF NoDocument, Without
<1>2. Unused(Idle)'
  BY Shapes DEF Unused
<1> QED BY <1>1, <1>2, UseMoves DEF UseInv, NoDocument

LEMMA UseForget ==
    ASSUME BaseInv, UseInv, NEW h \in Handlers, Forget(h) PROVE UseInv'
<1>1. job[h].code \in undeleted \/ NoDocument(job[h].code)
  BY Forgotten DEF UseInv, Unused
<1>2. Unused(Idle)'
  BY Shapes DEF Unused
<1> QED BY <1>1, <1>2, Forgotten, UseMoves DEF UseInv, NoDocument, Without

LEMMA UseNext == BaseInv /\ UseInv /\ [Next]_vars => UseInv'
<1> SUFFICES ASSUME BaseInv, UseInv, [Next]_vars PROVE UseInv'
  OBVIOUS
<1>1. CASE UNCHANGED vars
  BY <1>1 DEF vars, stores, history, UseInv, Unused, NoDocument
<1>2. ASSUME NEW h \in Handlers, SendOtp(h) PROVE UseInv'
  BY <1>2, UseSend
<1>3. ASSUME NEW h \in Handlers, VerifyOtp(h) PROVE UseInv'
  BY <1>3, UseBegin, UseRead, UseFound, UseMismatch, UseCount, UseForget DEF VerifyOtp
<1>4. CASE Expire
  BY <1>4 DEF Expire, stores, history, UseInv, Unused, NoDocument
<1>5. CASE Restart
  <2>1. \A h \in Handlers : Unused(job[h])'
    BY <1>5, Restarted, Shapes DEF Unused
  <2> QED BY <1>5, <2>1, Restarted DEF UseInv, NoDocument, Without
<1> QED BY <1>1, <1>2, <1>3, <1>4, <1>5 DEF Next

\* Once verify_otp has answered that a code is right, no request that begins
\* later finds it right, whatever the two endpoints, the expiry and restarts do
\* in between, unless MongoDB did not delete its document.
THEOREM CodesAreUsedOnce == Spec => []SingleUse
<1>1. Init => UseInv
  BY UseInit
<1>2. UseInv => SingleUse
  BY DEF UseInv, Unused, SingleUse
<1> QED BY <1>1, <1>2, UseNext, BaseInvariant, PTL DEF Spec

-----------------------------------------------------------------------------
(* The code generated last stands *)

\* A handler that neither saved nor found a code right goes on.
LEMMA ClearMoves ==
    ASSUME BaseInv, ClearInv, NEW h \in Handlers, NEW j \in Job,
           job' = [job EXCEPT ![h] = j],
           j.at \notin Saving \cup {"delete", "forget"},
           job[h].at \notin Saving, sent' = sent, clear' = clear,
           doc = None => doc' = None,
           doc # None => doc' # None /\ doc'.code = doc.code
    PROVE  ClearInv'
<1>1. \A g \in Handlers : job'[g] = IF g = h THEN j ELSE job[g]
  BY DEF BaseInv, TypeOK
<1> SUFFICES ASSUME clear
             PROVE  /\ \A g \in Handlers :
                          /\ job'[g].at \notin {"delete", "forget"}
                          /\ job'[g].at \in Saving => job'[g].code = sent
                          /\ job'[g].at = "insert" => doc' = None
                    /\ sent > 0 /\ (\A g \in Handlers : job'[g].at \notin Saving)
                          => doc' # None /\ doc'.code = sent
  BY DEF ClearInv
<1>2. \A g \in Handlers : /\ job'[g].at \notin {"delete", "forget"}
                          /\ job'[g].at \in Saving => job'[g].code = sent
                          /\ job'[g].at = "insert" => doc' = None
  BY <1>1 DEF ClearInv, Saving
<1>3. (\A g \in Handlers : job'[g].at \notin Saving) => \A g \in Handlers : job[g].at \notin Saving
  BY <1>1
<1> QED BY <1>2, <1>3 DEF ClearInv

LEMMA ClearInit == Init => ClearInv
BY Shapes DEF Init, ClearInv, Saving

LEMMA ClearSend ==
    ASSUME BaseInv, ClearInv, NEW h \in Handlers, SendOtp(h) PROVE ClearInv'
<1>1. CASE Generate(h)
  <2>1. PICK j \in Job : job' = [job EXCEPT ![h] = j] /\ j.at = "save" /\ j.code = sent'
    BY <1>1, Generated
  <2>2. clear' = \A g \in Handlers : job[g] = Idle
    BY <1>1, Generated
  <2>3. \A g \in Handlers : job'[g] = IF g = h THEN j ELSE job[g]
    BY <2>1 DEF BaseInv, TypeOK
  <2> QED BY <2>1, <2>2, <2>3, Shapes DEF ClearInv, Saving
<1>2. CASE Saved(h)
  <2>1. PICK j \in Job : job' = [job EXCEPT ![h] = j] /\ j.at = "remember"
    BY <1>2, SavedFacts
  <2>2. /\ job[h].at \in Saving /\ job[h].code \in Codes /\ sent' = sent
        /\ \/ doc' = Fresh(job[h].code) /\ clear' = clear
           \/ job[h].at = "insert" /\ doc # None /\ clear' = clear
           \/ clear' = (clear /\ job[h].code # sent)
    BY <1>2, SavedFacts
  <2>3. \A g \in Handlers : job'[g] = IF g = h THEN j ELSE job[g]
    BY <2>1 DEF BaseInv, TypeOK
  <2>4. CASE clear'
    <3>1. clear /\ job[h].code = sent /\ (job[h].at = "insert" => doc = None)
      BY <2>2, <2>4 DEF ClearInv
    <3>2. doc' # None /\ doc'.code = sent
      BY <2>2, <2>4, <3>1, Shapes, NoneAssumption
    <3>3. \A g \in Handlers : job'[g].at \notin Saving
      <4>1. \A g \in Handlers \ {h} : job[g].at \notin Saving
        BY <2>2, <3>1 DEF ClearInv, BaseInv, CodesInv, Sending
      <4> QED BY <2>1, <2>3, <4>1 DEF Saving
    <3> QED BY <2>1, <2>2, <2>3, <3>1, <3>2, <3>3 DEF ClearInv, Saving
  <2> QED BY <2>4 DEF ClearInv
<1>3. CASE Remember(h)
  <2>1. /\ job[h].at = "remember" /\ job' = [job EXCEPT ![h] = Idle]
        /\ UNCHANGED <<sent, doc, clear>>
    BY <1>3, Remembered
  <2> QED BY <2>1, Shapes, ClearMoves DEF Saving
<1>4. CASE Save(h) /\ doc = None
  <2>1. PICK j \in Job : /\ job' = [job EXCEPT ![h] = j] /\ j.at = "insert"
                         /\ j.code = job[h].code
    BY <1>4, NoneFound
  <2>2. job[h].at = "save" /\ UNCHANGED <<sent, doc, clear>>
    BY <1>4, NoneFound
  <2>3. \A g \in Handlers : job'[g] = IF g = h THEN j ELSE job[g]
    BY <2>1 DEF BaseInv, TypeOK
  <2>4. ~ \A g \in Handlers : job'[g].at \notin Saving
    BY <2>1, <2>3 DEF Saving
  <2> QED BY <1>4, <2>1, <2>2, <2>3, <2>4 DEF ClearInv, Saving
<1> QED BY <1>1, <1>2, <1>3, <1>4 DEF SendOtp, Saved

LEMMA ClearVerify ==
    ASSUME BaseInv, ClearInv, NEW h \in Handlers, VerifyOtp(h) PROVE ClearInv'
<1>1. ASSUME NEW c \in delivered \cup {Wrong}, Begin(h, c) PROVE ClearInv'
  <2>1. job[h] = Idle
    BY <1>1 DEF Begin
  <2>2. UNCHANGED <<sent, doc, clear>>
        /\ \E j \in Job : job' = [job EXCEPT ![h] = j] /\ j.at = "read"
    BY <1>1, Begun
  <2> QED BY <2>1, <2>2, Shapes, ClearMoves DEF Saving
<1>2. CASE Read(h) \/ ReadFails(h)
  <2>1. /\ job[h].at = "read" /\ UNCHANGED <<sent, doc, clear>>
        /\ \E j \in Job : job' = [job EXCEPT ![h] = j] /\ j.at \in {"idle", "compare"}
    BY <1>2, WasRead, Shapes
  <2> QED BY <2>1, ClearMoves DEF Saving
<1>3. CASE Match(h)
  BY <1>3, Matched DEF ClearInv
<1>4. CASE Delete(h) \/ DeleteFails(h)
  <2>1. job[h].at = "delete" /\ clear' = clear
    BY <1>4, Deleted
  <2> QED BY <2>1 DEF ClearInv
<1>5. CASE Forget(h)
  <2>1. job[h].at = "forget" /\ clear' = clear
    BY <1>5, Forgotten
  <2> QED BY <2>1 DEF ClearInv
<1>6. CASE Mismatch(h)
  <2>1. /\ job[h].at = "compare" /\ UNCHANGED <<sent, doc, clear>>
        /\ \E j \in Job : job' = [job EXCEPT ![h] = j] /\ j.at = "count"
    BY <1>6, Mismatched
  <2> QED BY <2>1, ClearMoves DEF Saving
<1>7. CASE Count(h) \/ CountFails(h)
  <2>1. /\ job[h].at = "count" /\ job' = [job EXCEPT ![h] = Idle] /\ UNCHANGED <<sent, clear>>
        /\ (doc = None => doc' = None) /\ (doc # None => doc' # None /\ doc'.code = doc.code)
    BY <1>7, Counted
  <2> QED BY <2>1, Shapes, ClearMoves DEF Saving
<1> QED BY <1>1, <1>2, <1>3, <1>4, <1>5, <1>6, <1>7 DEF VerifyOtp

LEMMA ClearNext == BaseInv /\ ClearInv /\ [Next]_vars => ClearInv'
<1> SUFFICES ASSUME BaseInv, ClearInv, [Next]_vars PROVE ClearInv'
  OBVIOUS
<1>1. CASE UNCHANGED vars
  BY <1>1 DEF vars, stores, history, ClearInv
<1>2. ASSUME NEW h \in Handlers, SendOtp(h) \/ VerifyOtp(h) PROVE ClearInv'
  BY <1>2, ClearSend, ClearVerify
<1>3. CASE Expire
  BY <1>3 DEF Expire, stores, history, ClearInv
<1>4. CASE Restart
  BY <1>4, Restarted, Shapes DEF ClearInv, Saving
<1> QED BY <1>1, <1>2, <1>3, <1>4 DEF Next

\* A code that was sent while nothing else was going on, and saved, is the one
\* MongoDB keeps until a code is found right: wrong entries, counts that fail,
\* expiry and restarts leave it there.
THEOREM LastCodeStands == Spec => []NewestCodeStands
<1>1. Init => ClearInv
  BY ClearInit
<1>2. ClearInv => NewestCodeStands
  BY DEF ClearInv, NewestCodeStands, Saving
<1> QED BY <1>1, <1>2, ClearNext, BaseInvariant, PTL DEF Spec

-----------------------------------------------------------------------------
(* Guesses are bounded *)

\* The comparisons and the counts of a code are counted.
LEMMA Finite ==
    ASSUME NEW S \in SUBSET Handlers
    PROVE  IsFiniteSet(S) /\ Cardinality(S) \in Nat /\ Cardinality(S) <= Cardinality(Handlers)
           /\ Cardinality(Handlers) \in Nat
BY HandlersAssumption, FS_Subset, FS_CardinalityType

\* Handlers that compare and handlers that count are not the same ones.
LEMMA TwoParts ==
    ASSUME NEW S \in SUBSET Handlers, NEW T \in SUBSET Handlers, S \cap T = {}
    PROVE  Cardinality(S) + Cardinality(T) <= Cardinality(Handlers)
<1>1. Cardinality(S \cup T) = Cardinality(S) + Cardinality(T) - Cardinality({})
  BY Finite, FS_Union
<1>2. Cardinality({}) = 0
  BY FS_EmptySet
<1>3. Cardinality(S \cup T) <= Cardinality(Handlers)
  <2>1. S \cup T \in SUBSET Handlers
    OBVIOUS
  <2> QED BY <2>1, Finite
<1> QED BY <1>1, <1>2, <1>3, Finite

\* A part of a set of handlers is not larger; a set that gains one element is
\* larger by one, and one that loses one is smaller by one.
LEMMA Sizes ==
    ASSUME NEW S \in SUBSET Handlers, NEW T \in SUBSET Handlers, NEW h \in Handlers
    PROVE  /\ T \subseteq S => Cardinality(T) <= Cardinality(S)
           /\ h \notin S /\ T = S \cup {h} => Cardinality(T) = Cardinality(S) + 1
           /\ h \in S /\ T = S \ {h} => Cardinality(T) = Cardinality(S) - 1
<1>1. IsFiniteSet(S) /\ IsFiniteSet(T) /\ IsFiniteSet(S \ {h})
  BY Finite, FS_RemoveElement
<1>2. T \subseteq S => Cardinality(T) <= Cardinality(S)
  BY <1>1, FS_Subset
<1>3. h \notin S /\ T = S \cup {h} => Cardinality(T) = Cardinality(S) + 1
  BY <1>1, FS_AddElement
<1>4. h \in S => Cardinality(S \ {h}) = Cardinality(S) - 1
  BY <1>1, FS_RemoveElement
<1> QED BY <1>2, <1>3, <1>4

\* Who compares and who counts when one handler goes to job j.
LEMMA WhoMoves ==
    ASSUME BaseInv, NEW h \in Handlers, NEW j, job' = [job EXCEPT ![h] = j], NEW c
    PROVE  /\ IF j.at = "compare" /\ ~j.own /\ j.record.code = c
                THEN Comparing(c)' = Comparing(c) \cup {h}
                ELSE /\ Comparing(c)' = Comparing(c) \ {h}
                     /\ h \notin Comparing(c) => Comparing(c)' = Comparing(c)
           /\ IF j.at = "count" /\ j.code = c
                THEN Counting(c)' = Counting(c) \cup {h}
                ELSE /\ Counting(c)' = Counting(c) \ {h}
                     /\ h \notin Counting(c) => Counting(c)' = Counting(c)
<1>1. \A g \in Handlers : job'[g] = IF g = h THEN j ELSE job[g]
  BY DEF BaseInv, TypeOK
<1> QED BY <1>1 DEF Comparing, Counting

LEMMA WhoFacts ==
    ASSUME NEW c
    PROVE  /\ Comparing(c) \in SUBSET Handlers /\ Counting(c) \in SUBSET Handlers
           /\ Comparing(c) \cap Counting(c) = {}
           /\ Cardinality(Comparing(c)) \in Nat /\ Cardinality(Counting(c)) \in Nat
<1>1. /\ Comparing(c) \in SUBSET Handlers /\ Counting(c) \in SUBSET Handlers
      /\ Comparing(c) \cap Counting(c) = {}
  BY DEF Comparing, Counting
<1> QED BY <1>1, Finite

\* What is used of the types.
LEMMA Numbers ==
    ASSUME BaseInv
    PROVE  /\ \A c \in Codes : wrong[c] \in Nat
           /\ doc # None => doc \in Record /\ doc.attempts \in Nat /\ doc.code \in Codes
           /\ MaxAttempts \in Nat \ {0} /\ Cardinality(Handlers) \in Nat
           /\ sent \in Nat /\ uncounted \subseteq Codes
<1>1. Cardinality(Handlers) \in Nat
  BY HandlersAssumption, FS_CardinalityType
<1>2. \A c \in Codes : wrong[c] \in Nat
  BY DEF BaseInv, TypeOK
<1>3. doc # None => doc \in Record /\ doc.attempts \in Nat /\ doc.code \in Codes
  BY DEF BaseInv, TypeOK, Record
<1>4. sent \in Nat /\ uncounted \subseteq Codes
  BY DEF BaseInv, TypeOK
<1> QED BY <1>1, <1>2, <1>3, <1>4, NumbersAssumption

\* A handler that begins no comparison with a document, counts nothing and
\* begins to save nothing.
LEMMA GuessMoves ==
    ASSUME BaseInv, GuessInv, NEW h \in Handlers, NEW j \in Job,
           job' = [job EXCEPT ![h] = j],
           j.at \in Saving => job[h].at \in Saving /\ j.code = job[h].code,
           j.at # "count", j.at = "compare" => j.own, job[h].at # "count",
           doc' = doc \/ doc' = None,
           UNCHANGED <<sent, others, uncounted, wrong>>
    PROVE  GuessInv'
<1>1. ASSUME NEW c \in Codes
      PROVE  /\ Comparing(c)' \subseteq Comparing(c) /\ Counting(c)' = Counting(c)
             /\ Unsaved(c)' => Unsaved(c)
             /\ Cardinality(Comparing(c)') <= Cardinality(Comparing(c))
  <2>1. Comparing(c)' \subseteq Comparing(c) /\ Counting(c)' = Counting(c)
    <3>1. h \notin Counting(c)
      BY DEF Counting
    <3>2. Comparing(c)' = Comparing(c) \ {h} /\ Counting(c)' = Counting(c)
      BY <3>1, WhoMoves
    <3> QED BY <3>2
  <2>2. Comparing(c) \in SUBSET Handlers /\ Comparing(c)' \in SUBSET Handlers
    BY <2>1, WhoFacts
  <2>3. Unsaved(c)' => Unsaved(c)
    <3>1. \A g \in Handlers : job'[g] = IF g = h THEN j ELSE job[g]
      BY DEF BaseInv, TypeOK
    <3> QED BY <3>1 DEF Unsaved
  <2> QED BY <2>1, <2>2, <2>3, Sizes
<1>2. ASSUME NEW c \in Codes \ uncounted
      PROVE  ToBeCounted(c)' /\ InBound(c)'
  <2>1. ToBeCounted(c) /\ InBound(c)
    BY DEF GuessInv
  <2>2. ToBeCounted(c)'
    BY <1>1, <2>1 DEF ToBeCounted
  <2>3. InBound(c)'
    <3>1. /\ wrong[c] \in Nat /\ Cardinality(Comparing(c)) \in Nat
          /\ Cardinality(Comparing(c)') \in Nat
          /\ Cardinality(Comparing(c)') <= Cardinality(Comparing(c))
          /\ MaxAttempts \in Nat /\ Cardinality(Handlers) \in Nat
      <4>1. Comparing(c)' \in SUBSET Handlers
        BY <1>1, WhoFacts
      <4> QED BY <1>1, <4>1, Numbers, WhoFacts, Finite
    <3> QED BY <2>1, <3>1 DEF InBound
  <2> QED BY <2>2, <2>3
<1>3. ASSUME NEW c \in Codes, Unsaved(c)' \/ c \in others' PROVE Untouched(c)'
  <2>1. Untouched(c)
    BY <1>1, <1>3 DEF GuessInv
  <2> QED BY <1>1, <2>1 DEF Untouched, Without
<1>4. ASSUME NEW c \in Codes, Unsaved(c)' PROVE c \notin others'
  BY <1>1, <1>4 DEF GuessInv
<1> QED BY <1>2, <1>3, <1>4 DEF GuessInv

LEMMA GuessInit == Init => GuessInv
<1> SUFFICES ASSUME Init PROVE GuessInv
  OBVIOUS
<1>1. ASSUME NEW c PROVE Comparing(c) = {} /\ Counting(c) = {}
  BY Shapes DEF Init, Comparing, Counting
<1>2. Cardinality({}) = 0 /\ Cardinality(Handlers) \in Nat
  BY FS_EmptySet, HandlersAssumption, FS_CardinalityType
<1>3. \A c \in Codes : ToBeCounted(c) /\ InBound(c)
  <2>1. \A c \in Codes : wrong[c] = 0
    BY DEF Init
  <2>2. 0 + 0 <= MaxAttempts + Cardinality(Handlers) - 1
    BY <1>2, NumbersAssumption
  <2>3. ASSUME NEW c \in Codes PROVE InBound(c)
    BY <1>1, <1>2, <2>1, <2>2 DEF InBound
  <2>4. ASSUME NEW c \in Codes PROVE ToBeCounted(c)
    BY DEF Init, ToBeCounted
  <2> QED BY <2>3, <2>4
<1> QED BY <1>1, <1>3 DEF Init, GuessInv, Untouched, Without, BaseInv

LEMMA GuessGenerate ==
    ASSUME BaseInv, GuessInv, NEW h \in Handlers, Generate(h) PROVE GuessInv'
<1>1. PICK j \in Job : job' = [job EXCEPT ![h] = j] /\ j.at = "save" /\ j.code = sent'
  BY Generated
<1>2. /\ sent' = sent + 1 /\ job[h] = Idle /\ sent' \in Codes /\ sent \in Nat
      /\ UNCHANGED <<doc, others, uncounted, wrong>>
  BY Generated, Numbers
<1>3. ASSUME NEW c \in Codes PROVE Comparing(c)' = Comparing(c) /\ Counting(c)' = Counting(c)
  <2>1. h \notin Comparing(c) /\ h \notin Counting(c)
    BY <1>2, Shapes DEF Comparing, Counting
  <2> QED BY <1>1, <2>1, WhoMoves
<1>4. ASSUME NEW c \in Codes, Unsaved(c)' PROVE Unsaved(c)
  <2>1. \A g \in Handlers : job'[g] = IF g = h THEN j ELSE job[g]
    BY <1>1 DEF BaseInv, TypeOK
  <2>2. c \in Nat
    BY DEF Codes
  <2> QED BY <1>1, <1>2, <1>4, <2>1, <2>2 DEF Unsaved, Saving
<1>5. \A c \in Codes \ uncounted : ToBeCounted(c)' /\ InBound(c)'
  BY <1>2, <1>3 DEF GuessInv, ToBeCounted, InBound
<1>6. \A c \in Codes :
          /\ Unsaved(c)' => c \notin others'
          /\ (Unsaved(c)' \/ c \in others') => Untouched(c)'
  BY <1>2, <1>3, <1>4 DEF GuessInv, Untouched, Without
<1> QED BY <1>2, <1>5, <1>6 DEF GuessInv

LEMMA GuessSave ==
    ASSUME BaseInv, GuessInv, NEW h \in Handlers, Saved(h) PROVE GuessInv'
<1> DEFINE k == job[h].code
<1>1. PICK j \in Job : job' = [job EXCEPT ![h] = j] /\ j.at = "remember"
  BY SavedFacts
<1>2. /\ job[h].at \in Saving /\ k \in 1 .. sent /\ k \in Codes
      /\ doc' = doc \/ (doc' = Fresh(k) /\ others' = others)
      /\ others' = others \/ (others' = others \cup {k} /\ doc' = doc)
      /\ UNCHANGED <<sent, uncounted, wrong>>
  BY SavedFacts
<1>3. Untouched(k) /\ k \notin others
  BY <1>2 DEF GuessInv, Unsaved
<1>4. ASSUME NEW c \in Codes
      PROVE  Comparing(c)' = Comparing(c) /\ Counting(c)' = Counting(c)
  <2>1. h \notin Comparing(c) /\ h \notin Counting(c)
    BY <1>2 DEF Comparing, Counting, Saving
  <2> QED BY <1>1, <2>1, WhoMoves
<1>5. \A g \in Handlers : job'[g] = IF g = h THEN j ELSE job[g]
  BY <1>1 DEF BaseInv, TypeOK
<1>6. ASSUME NEW c \in Codes, Unsaved(c)' PROVE c # k /\ Unsaved(c)
  <2>1. ~(k > sent')
    BY <1>2, Numbers
  <2>2. \A g \in Handlers : ~(job'[g].at \in Saving /\ job'[g].code = k)
    BY <1>1, <1>2, <1>5 DEF BaseInv, CodesInv, Sending, Saving
  <2>3. Unsaved(c)
    BY <1>1, <1>2, <1>5, <1>6 DEF Unsaved, Saving
  <2> QED BY <1>6, <2>1, <2>2, <2>3 DEF Unsaved
<1>7. ASSUME NEW c \in Codes \ uncounted PROVE ToBeCounted(c)' /\ InBound(c)'
  <2>1. ToBeCounted(c) /\ InBound(c)
    BY DEF GuessInv
  <2>2. InBound(c)'
    BY <1>2, <1>4, <2>1 DEF InBound
  <2>3. CASE doc' = doc
    BY <1>2, <1>4, <2>1, <2>2, <2>3 DEF ToBeCounted
  <2>4. CASE doc' = Fresh(k)
    <3>1. c = k => wrong'[c] <= 0 + Cardinality(Counting(c)')
      BY <1>2, <1>3, <1>4, WhoFacts DEF Untouched
    <3> QED BY <1>2, <2>2, <2>4, <3>1, Shapes DEF ToBeCounted
  <2> QED BY <1>2, <2>3, <2>4
<1>8. ASSUME NEW c \in Codes, Unsaved(c)' PROVE c \notin others'
  BY <1>2, <1>6, <1>8 DEF GuessInv
<1>9. ASSUME NEW c \in Codes, Unsaved(c)' \/ c \in others' PROVE Untouched(c)'
  <2>1. Untouched(c)
    BY <1>2, <1>3, <1>6, <1>9 DEF GuessInv
  <2>2. Without(doc', c)
    <3>1. CASE doc' = doc
      BY <2>1, <3>1 DEF Untouched, Without
    <3>2. CASE doc' = Fresh(k) /\ others' = others
      <4>1. c # k
        BY <1>3, <1>6, <1>9, <3>2
      <4> QED BY <1>2, <3>2, <4>1, Shapes DEF Without
    <3> QED BY <1>2, <3>1, <3>2
  <2> QED BY <1>2, <1>4, <2>1, <2>2 DEF Untouched, Without
<1> QED BY <1>2, <1>7, <1>8, <1>9 DEF GuessInv

\* Nothing has been compared with a document that takes the place of the one
\* deleted.
LEMMA GuessDelete ==
    ASSUME BaseInv, GuessInv, NEW h \in Handlers, Delete(h) \/ DeleteFails(h) PROVE GuessInv'
<1>1. PICK j \in Job : job' = [job EXCEPT ![h] = j] /\ j.at = "forget"
  BY Deleted
<1>2. job[h].at = "delete" /\ UNCHANGED <<sent, uncounted, wrong>>
  BY Deleted
<1>3. CASE (doc' = doc \/ doc' = None) /\ others' = others
  BY <1>1, <1>2, <1>3, GuessMoves DEF Saving
<1>4. ASSUME NEW k \in others, doc' = Fresh(k), others' = others \ {k} PROVE GuessInv'
  <2>1. k \in Codes /\ Untouched(k) /\ ~Unsaved(k)
    BY <1>4 DEF BaseInv, TypeOK, GuessInv
  <2>2. ASSUME NEW c \in Codes
        PROVE  Comparing(c)' = Comparing(c) /\ Counting(c)' = Counting(c)
    <3>1. h \notin Comparing(c) /\ h \notin Counting(c)
      BY <1>2 DEF Comparing, Counting
    <3> QED BY <1>1, <3>1, WhoMoves
  <2>3. ASSUME NEW c \in Codes, Unsaved(c)' PROVE Unsaved(c)
    <3>1. \A g \in Handlers : job'[g] = IF g = h THEN j ELSE job[g]
      BY <1>1 DEF BaseInv, TypeOK
    <3> QED BY <1>1, <1>2, <2>3, <3>1 DEF Unsaved, Saving
  <2>4. ASSUME NEW c \in Codes \ uncounted PROVE ToBeCounted(c)' /\ InBound(c)'
    <3>1. InBound(c)'
      BY <1>2, <2>2 DEF GuessInv, InBound
    <3>2. c = k => wrong'[c] <= 0 + Cardinality(Counting(c)')
      BY <1>2, <2>1, <2>2, WhoFacts DEF Untouched
    <3> QED BY <1>4, <2>1, <3>1, <3>2, Shapes DEF ToBeCounted
  <2>5. ASSUME NEW c \in Codes, Unsaved(c)' PROVE c \notin others'
    BY <1>4, <2>3, <2>5 DEF GuessInv
  <2>6. ASSUME NEW c \in Codes, Unsaved(c)' \/ c \in others' PROVE Untouched(c)'
    <3>1. Untouched(c) /\ c # k
      BY <1>4, <2>1, <2>3, <2>6 DEF GuessInv
    <3> QED BY <1>2, <1>4, <2>1, <2>2, <3>1, Shapes DEF Untouched, Without
  <2> QED BY <1>2, <2>4, <2>5, <2>6 DEF GuessInv
<1> QED BY <1>3, <1>4, Deleted

\* A request that is going to compare with the document it has read finds less
\* than MAX_ATTEMPTS there, and the others that compare or have yet to count are
\* other handlers.
LEMMA GuessRead ==
    ASSUME BaseInv, GuessInv, NEW h \in Handlers, Read(h) \/ ReadFails(h) PROVE GuessInv'
<1>1. /\ job[h].at = "read"
      /\ UNCHANGED <<sent, doc, others, uncounted, wrong>>
  BY WasRead
<1>2. CASE \E j \in Job : job' = [job EXCEPT ![h] = j]
                          /\ (j.at = "idle" \/ (j.at = "compare" /\ j.own))
  BY <1>1, <1>2, GuessMoves DEF Saving
<1>3. ASSUME NEW j \in Job, job' = [job EXCEPT ![h] = j], j.at = "compare", ~j.own,
             j.record = doc, doc # None, doc.attempts < MaxAttempts
      PROVE  GuessInv'
  <2> DEFINE k == doc.code
  <2>1. doc \in Record /\ doc.attempts \in Nat /\ k \in Codes
    BY <1>3, Numbers
  <2>2. \A g \in Handlers : job'[g] = IF g = h THEN j ELSE job[g]
    BY <1>3 DEF BaseInv, TypeOK
  <2>3. ASSUME NEW c \in Codes
        PROVE  /\ h \notin Comparing(c) /\ h \notin Counting(c) /\ Counting(c)' = Counting(c)
               /\ IF c = k THEN Comparing(c)' = Comparing(c) \cup {h}
                           ELSE Comparing(c)' = Comparing(c)
    <3>1. h \notin Comparing(c) /\ h \notin Counting(c)
      BY <1>1 DEF Comparing, Counting
    <3> QED BY <1>3, <3>1, WhoMoves
  <2>4. ASSUME NEW c \in Codes \ uncounted PROVE ToBeCounted(c)' /\ InBound(c)'
    <3>1. ToBeCounted(c) /\ InBound(c)
      BY DEF GuessInv
    <3>2. ToBeCounted(c)'
      BY <1>1, <2>3, <3>1 DEF ToBeCounted
    <3>3. CASE c # k
      BY <1>1, <2>3, <3>1, <3>2, <3>3 DEF InBound
    <3>4. CASE c = k
      <4>1. wrong[c] <= doc.attempts + Cardinality(Counting(c))
        BY <1>3, <3>1, <3>4 DEF ToBeCounted
      <4>2. /\ Comparing(c) \cup {h} \in SUBSET Handlers /\ Counting(c) \in SUBSET Handlers
            /\ (Comparing(c) \cup {h}) \cap Counting(c) = {}
        BY <2>3, WhoFacts
      <4>3. Cardinality(Comparing(c) \cup {h}) + Cardinality(Counting(c)) <= Cardinality(Handlers)
        BY <4>2, TwoParts
      <4>4. /\ Cardinality(Comparing(c) \cup {h}) \in Nat /\ Cardinality(Counting(c)) \in Nat
            /\ wrong[c] \in Nat /\ MaxAttempts \in Nat /\ Cardinality(Handlers) \in Nat
        BY <4>2, Finite, Numbers
      <4>5. wrong[c] + Cardinality(Comparing(c) \cup {h}) <= MaxAttempts + Cardinality(Handlers) - 1
        BY <1>3, <2>1, <4>1, <4>3, <4>4
      <4>6. Comparing(c)' = Comparing(c) \cup {h} /\ wrong'[c] = wrong[c]
        BY <1>1, <2>3, <3>4
      <4> QED BY <3>2, <4>5, <4>6 DEF InBound
    <3> QED BY <3>3, <3>4
  <2>5. ASSUME NEW c \in Codes, Unsaved(c)' PROVE Unsaved(c)
    BY <1>1, <1>3, <2>2, <2>5 DEF Unsaved, Saving
  <2>6. ASSUME NEW c \in Codes, Unsaved(c)' \/ c \in others' PROVE Untouched(c)'
    <3>1. Unsaved(c)' => Unsaved(c)
      BY <2>5
    <3>2. Untouched(c)
      BY <1>1, <2>6, <3>1 DEF GuessInv
    <3>3. c # k
      BY <1>3, <3>2 DEF Untouched, Without
    <3> QED BY <1>1, <2>3, <3>2, <3>3 DEF Untouched, Without
  <2> QED BY <1>1, <2>4, <2>5, <2>6 DEF GuessInv
<1> QED BY <1>2, <1>3, WasRead, Shapes

\* An entry compared with a document moves its handler from those that compare
\* to those that count.
LEMMA GuessMismatch ==
    ASSUME BaseInv, GuessInv, NEW h \in Handlers, Mismatch(h) PROVE GuessInv'
<1> DEFINE k == job[h].record.code
<1>1. PICK j \in Job : job' = [job EXCEPT ![h] = j] /\ j.at = "count" /\ j.code = k
  BY Mismatched
<1>2. /\ job[h].at = "compare" /\ k \in Codes
      /\ wrong' = IF job[h].own \/ k \in uncounted THEN wrong ELSE [wrong EXCEPT ![k] = @ + 1]
      /\ UNCHANGED <<sent, doc, others, uncounted>>
  BY Mismatched
<1>3. \A g \in Handlers : job'[g] = IF g = h THEN j ELSE job[g]
  BY <1>1 DEF BaseInv, TypeOK
<1>4. ASSUME NEW c \in Codes
      PROVE  /\ h \notin Counting(c) /\ (h \in Comparing(c) <=> ~job[h].own /\ c = k)
             /\ Comparing(c)' = Comparing(c) \ {h}
             /\ h \notin Comparing(c) => Comparing(c)' = Comparing(c)
             /\ IF c = k THEN Counting(c)' = Counting(c) \cup {h}
                         ELSE Counting(c)' = Counting(c)
  <2>1. h \notin Counting(c) /\ (h \in Comparing(c) <=> ~job[h].own /\ c = k)
    BY <1>2 DEF Comparing, Counting
  <2> QED BY <1>1, <2>1, WhoMoves
<1>5. ASSUME NEW c \in Codes \ uncounted PROVE ToBeCounted(c)' /\ InBound(c)'
  <2>1. ToBeCounted(c) /\ InBound(c)
    BY DEF GuessInv
  <2>2. /\ Cardinality(Comparing(c)) \in Nat /\ Cardinality(Counting(c)) \in Nat
        /\ wrong[c] \in Nat /\ MaxAttempts \in Nat /\ Cardinality(Handlers) \in Nat
        /\ doc # None => doc.attempts \in Nat
    BY WhoFacts, Numbers
  <2>3. CASE c # k
    <3>1. wrong'[c] = wrong[c]
      BY <1>2, <2>3 DEF BaseInv, TypeOK
    <3> QED BY <1>2, <1>4, <2>1, <2>3, <3>1 DEF ToBeCounted, InBound
  <2>4. CASE c = k
    <3>1. Cardinality(Counting(c)') = Cardinality(Counting(c)) + 1
      <4>1. Counting(c) \in SUBSET Handlers /\ Counting(c) \cup {h} \in SUBSET Handlers
        BY WhoFacts
      <4>2. h \notin Counting(c) /\ Counting(c)' = Counting(c) \cup {h}
        BY <1>4, <2>4
      <4>3. Cardinality(Counting(c) \cup {h}) = Cardinality(Counting(c)) + 1
        BY <4>1, <4>2, Sizes
      <4> QED BY <4>2, <4>3
    <3>2. CASE job[h].own
      <4>1. wrong'[c] = wrong[c] /\ Comparing(c)' = Comparing(c)
        BY <1>2, <1>4, <3>2
      <4>2. InBound(c)'
        BY <2>1, <4>1 DEF InBound
      <4>3. ToBeCounted(c)'
        BY <1>2, <2>1, <2>2, <3>1, <4>1 DEF ToBeCounted
      <4> QED BY <4>2, <4>3
    <3>3. CASE ~job[h].own
      <4>1. wrong'[c] = wrong[c] + 1
        BY <1>2, <2>4, <3>3 DEF BaseInv, TypeOK
      <4>2. Cardinality(Comparing(c)') = Cardinality(Comparing(c)) - 1
        <5>1. h \in Comparing(c) /\ Comparing(c)' = Comparing(c) \ {h}
          BY <1>4, <2>4, <3>3
        <5>2. Comparing(c) \in SUBSET Handlers /\ Comparing(c) \ {h} \in SUBSET Handlers
          BY WhoFacts
        <5>3. Cardinality(Comparing(c) \ {h}) = Cardinality(Comparing(c)) - 1
          BY <5>1, <5>2, Sizes
        <5> QED BY <5>1, <5>3
      <4>3. InBound(c)'
        BY <2>1, <2>2, <4>1, <4>2 DEF InBound
      <4>4. ToBeCounted(c)'
        BY <1>2, <2>1, <2>2, <3>1, <4>1 DEF ToBeCounted
      <4> QED BY <4>3, <4>4
    <3> QED BY <3>2, <3>3
  <2> QED BY <2>3, <2>4
<1>6. ASSUME NEW c \in Codes, Unsaved(c)' PROVE Unsaved(c)
  BY <1>1, <1>2, <1>3, <1>6 DEF Unsaved, Saving
<1>7. ASSUME NEW c \in Codes, Unsaved(c)' \/ c \in others' PROVE Untouched(c)'
  <2>1. Unsaved(c)' => Unsaved(c)
    BY <1>6
  <2>2. Untouched(c)
    BY <1>1, <1>2, <1>7, <2>1 DEF GuessInv
  <2>3. h \notin Comparing(c)
    BY <2>2 DEF Untouched
  <2>4. Comparing(c)' = {}
    BY <1>4, <2>2, <2>3 DEF Untouched
  <2>5. wrong'[c] = wrong[c]
    BY <1>2, <1>4, <2>3 DEF BaseInv, TypeOK
  <2> QED BY <1>2, <2>2, <2>4, <2>5 DEF Untouched, Without
<1> QED BY <1>2, <1>5, <1>6, <1>7 DEF GuessInv

LEMMA GuessCount ==
    ASSUME BaseInv, GuessInv, NEW h \in Handlers, Count(h) \/ CountFails(h) PROVE GuessInv'
<1> DEFINE k == job[h].code
<1>1. /\ job[h].at = "count" /\ k \in Codes /\ job' = [job EXCEPT ![h] = Idle]
      /\ (doc = None <=> doc' = None) /\ (doc # None => doc'.code = doc.code)
      /\ \/ UNCHANGED <<uncounted, wrong>> /\ (doc # None => doc'.attempts = doc.attempts + 1)
         \/ /\ UNCHANGED doc /\ uncounted' = uncounted \cup {k}
            /\ \A c \in Codes : wrong'[c] = IF c \in uncounted' THEN 0 ELSE wrong[c]
      /\ UNCHANGED <<sent, others>>
  BY Counted
<1>2. \A g \in Handlers : job'[g] = IF g = h THEN Idle ELSE job[g]
  BY <1>1 DEF BaseInv, TypeOK
<1>3. ASSUME NEW c \in Codes
      PROVE  /\ Comparing(c)' = Comparing(c) /\ Counting(c)' = Counting(c) \ {h}
             /\ h \in Counting(c) <=> c = k
             /\ c # k => Counting(c)' = Counting(c)
  <2>1. h \notin Comparing(c) /\ (h \in Counting(c) <=> c = k)
    BY <1>1 DEF Comparing, Counting
  <2> QED BY <1>1, <2>1, Shapes, WhoMoves
<1>4. ASSUME NEW c \in Codes \ uncounted' PROVE ToBeCounted(c)' /\ InBound(c)'
  <2>1. c \in Codes \ uncounted /\ wrong'[c] = wrong[c]
    BY <1>1, <1>4
  <2>2. ToBeCounted(c) /\ InBound(c)
    BY <2>1 DEF GuessInv
  <2>3. InBound(c)'
    BY <1>3, <2>1, <2>2 DEF InBound
  <2>4. /\ Cardinality(Counting(c)) \in Nat /\ wrong[c] \in Nat
        /\ doc # None => doc.attempts \in Nat
    BY <2>1, WhoFacts, Numbers
  <2>5. CASE c # k
    <3>1. doc # None => doc'.attempts = doc.attempts \/ doc'.attempts = doc.attempts + 1
      BY <1>1
    <3>2. Counting(c)' = Counting(c)
      BY <1>3, <2>5
    <3> QED BY <1>1, <2>1, <2>2, <2>3, <2>4, <3>1, <3>2 DEF ToBeCounted
  <2>6. CASE c = k
    <3>1. doc # None => doc'.attempts = doc.attempts + 1
      BY <1>1, <1>4, <2>6
    <3>2. Cardinality(Counting(c)') = Cardinality(Counting(c)) - 1
      <4>1. h \in Counting(c) /\ Counting(c)' = Counting(c) \ {h}
        BY <1>3, <2>6
      <4>2. Counting(c) \in SUBSET Handlers /\ Counting(c) \ {h} \in SUBSET Handlers
        BY WhoFacts
      <4>3. Cardinality(Counting(c) \ {h}) = Cardinality(Counting(c)) - 1
        BY <4>1, <4>2, Sizes
      <4> QED BY <4>1, <4>3
    <3> QED BY <1>1, <2>1, <2>2, <2>3, <2>4, <3>1, <3>2 DEF ToBeCounted
  <2> QED BY <2>5, <2>6
<1>5. ASSUME NEW c \in Codes, Unsaved(c)' PROVE Unsaved(c)
  BY <1>1, <1>2, <1>5, Shapes DEF Unsaved, Saving
<1>6. ASSUME NEW c \in Codes, Unsaved(c)' \/ c \in others' PROVE Untouched(c)'
  <2>1. Unsaved(c)' => Unsaved(c)
    BY <1>5
  <2>2. Untouched(c)
    BY <1>1, <1>2, <1>6, <2>1 DEF GuessInv
  <2>3. wrong'[c] = 0
    BY <1>1, <2>2 DEF Untouched
  <2> QED BY <1>1, <1>3, <2>2, <2>3 DEF Untouched, Without
<1> QED BY <1>1, <1>4, <1>5, <1>6 DEF GuessInv

LEMMA GuessRestart ==
    ASSUME BaseInv, GuessInv, Restart PROVE GuessInv'
<1>1. /\ \A h \in Handlers : job'[h] = Idle
      /\ \A c \in Codes : wrong'[c] = IF c \in uncounted' THEN 0 ELSE wrong[c]
      /\ uncounted \subseteq uncounted'
      /\ \A h \in Handlers : job[h].at = "count" => job[h].code \in uncounted'
      /\ UNCHANGED <<sent, doc, others>>
  BY Restarted
<1>2. ASSUME NEW c PROVE Comparing(c)' = {} /\ Counting(c)' = {}
  BY <1>1, Shapes DEF Comparing, Counting
<1>3. Cardinality({}) = 0
  BY FS_EmptySet
<1>4. ASSUME NEW c \in Codes \ uncounted' PROVE ToBeCounted(c)' /\ InBound(c)'
  <2>1. ToBeCounted(c) /\ InBound(c) /\ wrong'[c] = wrong[c] /\ wrong[c] \in Nat
    BY <1>1, <1>4, Numbers DEF GuessInv
  <2>2. Counting(c) = {}
    BY <1>1, <1>4 DEF Counting
  <2>3. ToBeCounted(c)'
    BY <1>1, <1>2, <2>1, <2>2 DEF ToBeCounted
  <2>4. /\ Cardinality(Comparing(c)) \in Nat /\ MaxAttempts \in Nat
        /\ Cardinality(Handlers) \in Nat
    BY WhoFacts, Numbers
  <2>5. wrong[c] + 0 <= MaxAttempts + Cardinality(Handlers) - 1
    BY <2>1, <2>4 DEF InBound
  <2>6. InBound(c)'
    BY <1>2, <1>3, <2>1, <2>5 DEF InBound
  <2> QED BY <2>3, <2>6
<1>5. ASSUME NEW c \in Codes, Unsaved(c)' PROVE Unsaved(c)
  BY <1>1, <1>5, Shapes DEF Unsaved, Saving
<1>6. ASSUME NEW c \in Codes, Unsaved(c)' \/ c \in others' PROVE Untouched(c)'
  <2>1. Unsaved(c)' => Unsaved(c)
    BY <1>5
  <2>2. Untouched(c)
    BY <1>1, <1>2, <1>6, <2>1 DEF GuessInv
  <2> QED BY <1>1, <1>2, <2>2 DEF Untouched, Without
<1> QED BY <1>1, <1>4, <1>5, <1>6 DEF GuessInv

LEMMA GuessNext == BaseInv /\ GuessInv /\ [Next]_vars => GuessInv'
<1> SUFFICES ASSUME BaseInv, GuessInv, [Next]_vars PROVE GuessInv'
  OBVIOUS
<1>1. CASE UNCHANGED vars
  BY <1>1 DEF vars, stores, history, GuessInv, ToBeCounted, InBound, Unsaved, Untouched,
              Without, Comparing, Counting
<1>2. ASSUME NEW h \in Handlers, SendOtp(h) PROVE GuessInv'
  <2>1. CASE Remember(h)
    <3>1. /\ job[h].at = "remember" /\ job' = [job EXCEPT ![h] = Idle]
          /\ UNCHANGED <<sent, doc, others, uncounted, wrong>>
      BY <2>1, Remembered
    <3> QED BY <3>1, Shapes, GuessMoves DEF Saving
  <2>2. CASE Save(h) /\ doc = None
    <3>1. /\ job[h].at = "save" /\ UNCHANGED <<sent, doc, others, uncounted, wrong>>
          /\ \E j \in Job : /\ job' = [job EXCEPT ![h] = j]
                           /\ j.at = "insert" /\ j.code = job[h].code
      BY <2>2, NoneFound
    <3> QED BY <3>1, GuessMoves DEF Saving
  <2> QED BY <1>2, <2>1, <2>2, GuessGenerate, GuessSave DEF SendOtp, Saved
<1>3. ASSUME NEW h \in Handlers, VerifyOtp(h) PROVE GuessInv'
  <2>1. ASSUME NEW c \in delivered \cup {Wrong}, Begin(h, c) PROVE GuessInv'
    <3>1. job[h].at # "count"
      BY <2>1, Shapes DEF Begin
    <3>2. /\ \E j \in Job : job' = [job EXCEPT ![h] = j] /\ j.at = "read"
          /\ UNCHANGED <<sent, doc, others, uncounted, wrong>>
      BY <2>1, Begun
    <3> QED BY <3>1, <3>2, GuessMoves DEF Saving
  <2>2. CASE Match(h)
    <3>1. /\ job[h].at = "compare" /\ UNCHANGED <<sent, doc, others, uncounted, wrong>>
          /\ \E j \in Job : job' = [job EXCEPT ![h] = j] /\ j.at = "delete"
      BY <2>2, Matched
    <3> QED BY <3>1, GuessMoves DEF Saving
  <2>3. CASE Forget(h)
    <3>1. /\ job[h].at = "forget" /\ job' = [job EXCEPT ![h] = Idle]
          /\ UNCHANGED <<sent, doc, others, uncounted, wrong>>
      BY <2>3, Forgotten
    <3> QED BY <3>1, Shapes, GuessMoves DEF Saving
  <2> QED BY <1>3, <2>1, <2>2, <2>3, GuessRead, GuessMismatch, GuessCount, GuessDelete DEF VerifyOtp
<1>4. CASE Expire
  BY <1>4 DEF Expire, stores, history, GuessInv, ToBeCounted, InBound, Unsaved, Untouched,
              Without, Comparing, Counting
<1> QED BY <1>1, <1>2, <1>3, <1>4, GuessRestart DEF Next

\* However verifications overlap, no more wrong entries are compared with the
\* document of a code than MAX_ATTEMPTS and one for each other handler, unless
\* MongoDB failed to count one or the process ended before it did.
THEOREM GuessesAreBounded == Spec => []GuessesBounded
<1>1. Init => GuessInv
  BY GuessInit
<1>2. BaseInv /\ GuessInv => GuessesBounded
  <2> SUFFICES ASSUME BaseInv, GuessInv, NEW c \in Codes \ uncounted
               PROVE  wrong[c] <= MaxAttempts + Cardinality(Handlers) - 1
    BY DEF GuessesBounded
  <2>1. InBound(c)
    BY DEF GuessInv
  <2>2. /\ wrong[c] \in Nat /\ Cardinality(Comparing(c)) \in Nat
        /\ MaxAttempts \in Nat /\ Cardinality(Handlers) \in Nat
    BY Numbers, WhoFacts
  <2> QED BY <2>1, <2>2 DEF InBound
<1> QED BY <1>1, <1>2, GuessNext, BaseInvariant, PTL DEF Spec

=============================================================================
