---------------------------- MODULE Decisions_proofs ----------------------------
(***************************************************************************)
(* Proofs about Decisions, for any number of calls of both endpoints, any  *)
(* profiles and any number of profile changes.                             *)
(***************************************************************************)
EXTENDS Decisions, TLAPS

Explicit == "EXPLICIT_USER_CHOICE"

\* The verdicts that can be stored: they allow one of the calls and select its
\* request, or block both and select none.  Nobody is ever asked.
Settled == {v \in Verdicts : v.type \in Actions /\ v.selected = Chosen(v.type).selected}

-----------------------------------------------------------------------------
(* The engine and the explicit choices *)

\* The three explicit choices, written out.
LEMMA ChosenFacts ==
    /\ Chosen("ALLOW_A_TO_B") = [type |-> "ALLOW_A_TO_B", selected |-> "a", reason |-> Explicit]
    /\ Chosen("ALLOW_B_TO_A") = [type |-> "ALLOW_B_TO_A", selected |-> "b", reason |-> Explicit]
    /\ Chosen("BLOCK") = [type |-> "BLOCK", selected |-> "none", reason |-> Explicit]
<1>1. (CHOOSE s \in Sides : "ALLOW_A_TO_B" = AllowType(s)) = "a"
  <2>1. "a" \in Sides /\ "ALLOW_A_TO_B" = AllowType("a")
    BY DEF Sides, AllowType
  <2>2. \A s \in Sides : "ALLOW_A_TO_B" = AllowType(s) => s = "a"
    BY DEF Sides, AllowType
  <2> QED BY <2>1, <2>2
<1>2. (CHOOSE s \in Sides : "ALLOW_B_TO_A" = AllowType(s)) = "b"
  <2>1. "b" \in Sides /\ "ALLOW_B_TO_A" = AllowType("b")
    BY DEF Sides, AllowType
  <2>2. \A s \in Sides : "ALLOW_B_TO_A" = AllowType(s) => s = "b"
    BY DEF Sides, AllowType
  <2> QED BY <2>1, <2>2
<1>3. Chosen("ALLOW_A_TO_B") = [type |-> "ALLOW_A_TO_B", selected |-> "a", reason |-> Explicit]
  BY <1>1 DEF Chosen, Explicit, Sides, AllowType
<1>4. Chosen("ALLOW_B_TO_A") = [type |-> "ALLOW_B_TO_A", selected |-> "b", reason |-> Explicit]
  BY <1>2 DEF Chosen, Explicit, Sides, AllowType
<1>5. Chosen("BLOCK") = [type |-> "BLOCK", selected |-> "none", reason |-> Explicit]
  BY DEF Chosen, Explicit, Sides, AllowType
<1> QED BY <1>3, <1>4, <1>5

\* Every verdict of the engine is settled: it always decides, and what it
\* selects is what it allows.
LEMMA ResolveSettled ==
    ASSUME NEW a \in Profiles, NEW b \in Profiles
    PROVE  Resolve(a, b) \in Settled
<1>1. ASSUME NEW s \in Sides, NEW why \in ReasonCodes PROVE Allow(s, why) \in Settled
  BY <1>1, ChosenFacts DEF Allow, AllowType, Settled, Verdicts, DecisionTypes, Sides, Actions
<1>2. ASSUME NEW why \in ReasonCodes PROVE Block(why) \in Settled
  BY <1>2, ChosenFacts DEF Block, Settled, Verdicts, DecisionTypes, Actions
<1>3. {"a", "b"} \subseteq Sides /\ {"DND_ACTIVE", "VIP_PRIORITY", "USER_PREFERENCE", "DEFAULT_POLICY"} \subseteq ReasonCodes
  BY DEF Sides, ReasonCodes
<1>4. DndVerdict(a, b) \in Settled
  BY <1>1, <1>2, <1>3 DEF DndVerdict
<1>5. VipVerdict(a, b) \in Settled
  BY <1>1, <1>3 DEF VipVerdict
<1>6. PreferenceVerdict(a, b) \in Settled
  BY <1>1, <1>2, <1>3 DEF PreferenceVerdict
<1> QED BY <1>4, <1>5, <1>6 DEF Resolve

\* A response leaves an explicit choice in the row, whole, though it writes
\* only the columns that differ from the ones it has loaded: its own choice if
\* that differs from what it has loaded, and the row's otherwise.
LEMMA MergeFacts ==
    ASSUME row \in Settled, NEW loaded \in Settled, NEW t \in Actions,
           loaded.reason = Explicit => row.reason = Explicit
    PROVE  Merge(loaded, Chosen(t)) \in ExplicitChoices
<1> DEFINE m == Merge(loaded, Chosen(t))
<1>1. DOMAIN Chosen(t) = {"type", "selected", "reason"}
      /\ Chosen(t).type = t /\ Chosen(t).reason = Explicit
  BY DEF Chosen, Explicit
<1>2. m = [type |-> m.type, selected |-> m.selected, reason |-> m.reason]
      /\ m.type = (IF t # loaded.type THEN t ELSE row.type)
      /\ m.selected = (IF Chosen(t).selected # loaded.selected THEN Chosen(t).selected ELSE row.selected)
      /\ m.reason = (IF Explicit # loaded.reason THEN Explicit ELSE row.reason)
  BY <1>1 DEF Merge
<1>3. m.reason = Explicit
  BY <1>2
<1>4. /\ loaded.type \in Actions /\ loaded.selected = Chosen(loaded.type).selected
      /\ row.type \in Actions /\ row.selected = Chosen(row.type).selected
  BY DEF Settled
<1>5. PICK u \in Actions : m.type = u /\ m.selected = Chosen(u).selected
  <2>1. CASE t = loaded.type
    BY <1>2, <1>4, <2>1
  <2>2. CASE t # loaded.type
    <3>1. Chosen(t).selected # loaded.selected
      BY <1>4, <2>2, ChosenFacts DEF Actions
    <3> QED BY <1>2, <2>2, <3>1
  <2> QED BY <2>1, <2>2
<1>6. Chosen(u) = [type |-> u, selected |-> Chosen(u).selected, reason |-> Explicit]
  BY DEF Chosen, Explicit
<1>7. m = Chosen(u)
  BY <1>2, <1>3, <1>5, <1>6
<1> QED BY <1>5, <1>7 DEF ExplicitChoices

\* An explicit choice is settled.
LEMMA ChoiceSettled ==
    ASSUME NEW v \in ExplicitChoices
    PROVE  v \in Settled /\ v.reason = Explicit
<1>1. PICK t \in Actions : v = Chosen(t)
  BY DEF ExplicitChoices
<1> QED
  BY <1>1, ChosenFacts DEF Settled, Verdicts, DecisionTypes, ReasonCodes, Sides, Actions, Explicit

-----------------------------------------------------------------------------
(***************************************************************************)
(* The inductive invariant.                                                *)
(***************************************************************************)

\* The stored decision is settled, and so are the ones handlers are about to
\* write.  A responder that has loaded an explicit choice finds one in the row
\* when it writes, though perhaps another.
WriteInv ==
    /\ row \in Settled \cup {Undecided}
    /\ \A e \in Evaluators : pc[e] = "write" => view[e] \in Settled
    /\ \A r \in Responders :
          pc[r] = "write" =>
              /\ row \in Settled /\ view[r] \in Settled
              /\ view[r].reason = Explicit => row.reason = Explicit

DInv == TypeOK /\ WriteInv

\* The invariant holds initially.
LEMMA InitDInv == Init => DInv
<1> SUFFICES ASSUME Init PROVE DInv
  OBVIOUS
<1>1. profile \in [Sides -> Profiles] /\ "a" \in Sides
  BY SetupsAssumption DEF Init, Sides
<1>2. TypeOK
  <2>1. \A s \in Sides : told[s] \in Seq({"PROCEED", "STANDBY", "BLOCK", "ASK_USER"})
    <3>1. <<>> \in Seq({"PROCEED", "STANDBY", "BLOCK", "ASK_USER"})
      OBVIOUS
    <3> QED BY <3>1 DEF Init
  <2> QED
    BY <1>1, <2>1, UpdatesAssumption DEF Init, TypeOK, Steps, Handlers, Actions
<1>3. WriteInv
  BY DEF Init, WriteInv, Handlers
<1> QED BY <1>2, <1>3 DEF DInv

\* Verdicts are not Undecided, and settled ones are verdicts.
LEMMA SettledFacts == Settled \subseteq Verdicts /\ Undecided \notin Settled
BY UndecidedAssumption DEF Settled

\* A step that leaves the row alone, and the handlers that are writing.
LEMMA QuietStep ==
    ASSUME DInv, TypeOK', UNCHANGED row,
           \A h \in Handlers : pc'[h] = "write" => pc[h] = "write" /\ view'[h] = view[h]
    PROVE  DInv'
BY DEF DInv, WriteInv, Handlers

\* The handlers of POST .../decision.
LEMMA EvaluatorStep ==
    ASSUME DInv, NEW e \in Evaluators,
           \/ \E s \in Sides : Authenticate(e, s)
           \/ CheckExisting(e) \/ BuildContext(e) \/ Insert(e)
    PROVE  DInv' /\ (row' = row \/ (row = Undecided /\ row' \in Verdicts))
<1> USE SettledFacts, CallsAssumption
<1>1. ASSUME NEW s \in Sides, Authenticate(e, s) PROVE DInv' /\ row' = row
  <2>1. TypeOK'
    BY <1>1 DEF DInv, TypeOK, Authenticate, Steps, Handlers
  <2>2. \A g \in Handlers : pc'[g] = "write" => pc[g] = "write" /\ view'[g] = view[g]
    BY <1>1 DEF DInv, TypeOK, Authenticate, Handlers
  <2>3. UNCHANGED row
    BY <1>1 DEF DInv, TypeOK, Authenticate, Handlers
  <2> QED BY <2>1, <2>2, <2>3, QuietStep
<1>2. CASE CheckExisting(e)
  <2>1. TypeOK'
    BY <1>2 DEF DInv, TypeOK, CheckExisting, Steps, Handlers
  <2>2. \A g \in Handlers : pc'[g] = "write" => pc[g] = "write" /\ view'[g] = view[g]
    BY <1>2 DEF DInv, TypeOK, CheckExisting, Handlers
  <2>3. UNCHANGED row
    BY <1>2 DEF DInv, TypeOK, CheckExisting, Handlers
  <2> QED BY <2>1, <2>2, <2>3, QuietStep
<1>3. CASE BuildContext(e)
  <2>1. Context(e) \in [Sides -> Profiles] /\ "a" \in Sides /\ "b" \in Sides
    BY DEF DInv, TypeOK, Context, Sides
  <2>2. Resolve(Context(e)["a"], Context(e)["b"]) \in Settled
    BY <2>1, ResolveSettled
  <2>3. TypeOK'
    BY <1>3, <2>2 DEF DInv, TypeOK, BuildContext, Steps, Handlers
  <2>4. WriteInv'
    BY <1>3, <2>2 DEF DInv, TypeOK, WriteInv, BuildContext, Handlers
  <2> QED BY <1>3, <2>3, <2>4 DEF DInv, BuildContext
<1>4. CASE Insert(e)
  <2>1. pc[e] = "write" /\ view[e] \in Settled
    BY <1>4 DEF DInv, WriteInv, Insert
  <2>2. row' = row \/ (row = Undecided /\ row' = view[e])
    BY <1>4 DEF Insert
  <2>3. TypeOK'
    BY <1>4, <2>1 DEF DInv, TypeOK, Insert, Steps, Handlers
  <2>4. WriteInv'
    <3>1. pc'[e] # "write" /\ \A h \in Handlers : h # e => pc'[h] = pc[h]
      BY <1>4 DEF DInv, TypeOK, Insert, Handlers
    <3>2. view' = view
      BY <1>4 DEF Insert
    <3> QED BY <2>1, <2>2, <3>1, <3>2 DEF DInv, WriteInv, Handlers
  <2> QED BY <2>1, <2>2, <2>3, <2>4 DEF DInv
<1> QED BY <1>1, <1>2, <1>3, <1>4

\* The handlers of POST .../decision/respond, up to their commit.
LEMMA ResponderStep ==
    ASSUME DInv, NEW r \in Responders,
           (\E t \in Actions : Load(r, t)) \/ Write(r)
    PROVE  DInv' /\ (row' = row \/ (row # Undecided /\ row' \in ExplicitChoices))
<1> USE SettledFacts, CallsAssumption
<1>1. ASSUME NEW t \in Actions, Load(r, t) PROVE DInv' /\ row' = row
  <2>1. TypeOK'
    <3>1. pc' \in [Handlers -> Steps] /\ UNCHANGED <<profile, updates, row, caller, own, told>>
      BY <1>1 DEF DInv, TypeOK, Load, Steps, Handlers
    <3>2. view' \in [Handlers -> Verdicts \cup {Undecided}] /\ choice' \in [Responders -> Actions]
      BY <1>1 DEF DInv, TypeOK, Load, Handlers
    <3> QED BY <3>1, <3>2 DEF DInv, TypeOK
  <2>2. \A h \in Handlers : h # r => pc'[h] = pc[h] /\ view'[h] = view[h]
    BY <1>1 DEF DInv, TypeOK, Load, Handlers
  <2>3. row' = row /\ (pc'[r] = "write" => row \in Settled /\ view'[r] = row)
    BY <1>1 DEF DInv, WriteInv, TypeOK, Load, Handlers
  <2>4. WriteInv'
    BY <2>2, <2>3 DEF DInv, WriteInv, Handlers
  <2> QED BY <2>1, <2>3, <2>4 DEF DInv
<1>2. CASE Write(r)
  <2>1. /\ row \in Settled /\ view[r] \in Settled /\ choice[r] \in Actions
        /\ view[r].reason = Explicit => row.reason = Explicit
    BY <1>2 DEF DInv, WriteInv, TypeOK, Write
  <2>2. row' \in ExplicitChoices
    BY <1>2, <2>1, MergeFacts DEF Write
  <2>3. row' \in Settled /\ row'.reason = Explicit
    BY <2>2, ChoiceSettled
  <2>4. TypeOK'
    BY <1>2, <2>3 DEF DInv, TypeOK, Write, Steps, Handlers
  <2>5. pc'[r] # "write" /\ (\A h \in Handlers : h # r => pc'[h] = pc[h]) /\ view' = view
    BY <1>2 DEF DInv, TypeOK, Write, Handlers
  <2>6. WriteInv'
    BY <2>3, <2>5 DEF DInv, WriteInv, Handlers
  <2> QED BY <2>1, <2>2, <2>4, <2>6 DEF DInv
<1> QED BY <1>1, <1>2

\* The end of both handlers.
LEMMA AnnounceStep ==
    ASSUME DInv, NEW h \in Handlers, Announce(h)
    PROVE  DInv' /\ row' = row
<1> USE SettledFacts
<1>1. CASE Reload(h)
  <2>1. TypeOK'
    BY <1>1 DEF DInv, TypeOK, Reload, Steps
  <2>2. \A g \in Handlers : pc'[g] = "write" => pc[g] = "write" /\ view'[g] = view[g]
    BY <1>1 DEF DInv, TypeOK, Reload
  <2>3. UNCHANGED row
    BY <1>1 DEF DInv, TypeOK, Reload
  <2> QED BY <2>1, <2>2, <2>3, QuietStep
<1>2. ASSUME NEW s \in Sides PROVE
        Tell(h, s) => told' \in [Sides -> Seq({"PROCEED", "STANDBY", "BLOCK", "ASK_USER"})]
  <2> DEFINE event == Instruction(view[h].type, s)
  <2>1. event \in {"PROCEED", "STANDBY", "BLOCK", "ASK_USER"}
    BY DEF Instruction
  <2>2. Append(told[s], event) \in Seq({"PROCEED", "STANDBY", "BLOCK", "ASK_USER"})
    BY <2>1 DEF DInv, TypeOK
  <2> QED BY <2>2 DEF Tell, DInv, TypeOK
<1>3. CASE TellA(h)
  <2>1. TypeOK'
    BY <1>2, <1>3 DEF DInv, TypeOK, TellA, Steps, Sides
  <2>2. \A g \in Handlers : pc'[g] = "write" => pc[g] = "write" /\ view'[g] = view[g]
    BY <1>3 DEF DInv, TypeOK, TellA
  <2>3. UNCHANGED row
    BY <1>3 DEF DInv, TypeOK, TellA
  <2> QED BY <2>1, <2>2, <2>3, QuietStep
<1>4. CASE TellB(h)
  <2>1. TypeOK'
    BY <1>2, <1>4 DEF DInv, TypeOK, TellB, Steps, Sides
  <2>2. \A g \in Handlers : pc'[g] = "write" => pc[g] = "write" /\ view'[g] = view[g]
    BY <1>4 DEF DInv, TypeOK, TellB
  <2>3. UNCHANGED row
    BY <1>4 DEF DInv, TypeOK, TellB
  <2> QED BY <2>1, <2>2, <2>3, QuietStep
<1> QED BY <1>1, <1>3, <1>4 DEF Announce

\* What any step does to the invariant and to the stored decision.
LEMMA NextDInv ==
    ASSUME DInv, [Next]_vars
    PROVE  /\ DInv'
           /\ \/ row' = row
              \/ row = Undecided /\ row' \in Verdicts
              \/ row # Undecided /\ row' \in ExplicitChoices
<1>1. ASSUME NEW s \in Sides, NEW p \in Setups, UpdatePreferences(s, p) PROVE DInv' /\ row' = row
  <2>1. TypeOK'
    BY <1>1, SetupsAssumption, UpdatesAssumption DEF DInv, TypeOK, UpdatePreferences
  <2>2. \A g \in Handlers : pc'[g] = "write" => pc[g] = "write" /\ view'[g] = view[g]
    BY <1>1 DEF UpdatePreferences
  <2>3. UNCHANGED row
    BY <1>1 DEF UpdatePreferences
  <2> QED BY <2>1, <2>2, <2>3, QuietStep
<1>2. CASE UNCHANGED vars
  <2>1. TypeOK'
    BY <1>2 DEF DInv, TypeOK, vars
  <2>2. \A g \in Handlers : pc'[g] = "write" => pc[g] = "write" /\ view'[g] = view[g]
    BY <1>2 DEF vars
  <2>3. UNCHANGED row
    BY <1>2 DEF vars
  <2> QED BY <2>1, <2>2, <2>3, QuietStep
<1> QED
  BY <1>1, <1>2, EvaluatorStep, ResponderStep, AnnounceStep DEF Next, Progress, Handlers

\* DInv holds in every reachable state.
THEOREM DecisionInvariant == Spec => []DInv
<1>1. DInv /\ [Next]_vars => DInv'
  BY NextDInv
<1> QED BY <1>1, InitDInv, PTL DEF Spec

-----------------------------------------------------------------------------
(* What a reader should know *)

\* Every variable keeps its type.
THEOREM DecisionTypeCorrect == Spec => []TypeOK
<1>1. DInv => TypeOK
  BY DEF DInv
<1> QED BY <1>1, DecisionInvariant, PTL

\* The row only ever changes the way DecisionLedger allows: once from nothing
\* to a verdict, then from explicit choice to explicit choice, each one whole,
\* whatever calls of the two endpoints run at once.
THEOREM OneDecisionHolds == Spec => OneDecision
<1>1. Init => Ledger!Init
  BY DEF Init, Ledger!Init
<1>2. DInv /\ [Next]_vars => [Ledger!Next]_row
  BY NextDInv DEF Ledger!Next, Ledger!Decide, Ledger!Choose
<1> QED BY <1>1, <1>2, DecisionInvariant, PTL DEF Spec, OneDecision, Ledger!Spec

\* The request the stored decision selects is always the one its type allows.
THEOREM SelectionMatches == Spec => []SelectionMatchesType
<1>1. DInv => SelectionMatchesType
  <2> SUFFICES ASSUME row \in Settled PROVE Consistent(row)
    BY DEF DInv, WriteInv, SelectionMatchesType
  <2> QED BY ChosenFacts DEF Settled, Consistent, Actions, Sides, AllowType
<1> QED BY <1>1, DecisionInvariant, PTL

-----------------------------------------------------------------------------
(***************************************************************************)
(* Who has been told what: the strengthening that the two properties about *)
(* the events need.                                                        *)
(***************************************************************************)

\* The end of both handlers: the decision is committed and not yet told to all.
Announcing == {"reload", "tell_a", "tell_b"}

\* Before there is a decision nobody has been told anything, and no call is at
\* the end of its handler.
NothingYet ==
    row = Undecided =>
        /\ \A s \in Sides : told[s] = <<>>
        /\ \A h \in Handlers : pc[h] \notin Announcing

\* While the decision is a verdict of the engine one call at most announces it,
\* the evaluation that has stored it, and what the callers have been told is
\* what that call has pushed so far.
OneAnnouncer ==
    row # Undecided /\ row.reason # Explicit =>
        /\ \A h, g \in Handlers : pc[h] \in Announcing /\ pc[g] \in Announcing => h = g
        /\ \A h \in Handlers :
              /\ pc[h] \in {"reload", "tell_a"} => told["a"] = <<>> /\ told["b"] = <<>>
              /\ pc[h] = "tell_b" => told["b"] = <<>>
              /\ pc[h] \in {"tell_a", "tell_b"} => view[h] = row

\* The call of a side s that still has to be told the stored decision: it will
\* read it, or it holds it and has not reached that side.
WillTell(h, s) ==
    \/ pc[h] = "reload"
    \/ pc[h] = "tell_a" /\ view[h].type = row.type
    \/ pc[h] = "tell_b" /\ view[h].type = row.type /\ s = "b"

\* Whoever wrote the stored decision last, or a call after it, tells it.
ToldOrWillBe ==
    row # Undecided =>
        \A s \in Sides :
            \/ \E i \in DOMAIN told[s] : told[s][i] = Instruction(row.type, s)
            \/ \E h \in Handlers : WillTell(h, s)

ToldInv == NothingYet /\ OneAnnouncer /\ OneAnnouncement /\ ToldOrWillBe

\* The invariant holds initially.
LEMMA InitToldInv == Init => ToldInv
BY DEF Init, ToldInv, NothingYet, OneAnnouncer, OneAnnouncement, ToldOrWillBe, Announcing

\* A step that leaves alone the row, the events and the calls that announce.
LEMMA SilentStep ==
    ASSUME ToldInv, UNCHANGED <<row, told>>,
           \A h \in Handlers : pc[h] \in Announcing \/ pc'[h] \in Announcing
                                => pc'[h] = pc[h] /\ view'[h] = view[h]
    PROVE  ToldInv'
<1>1. NothingYet'
  BY DEF ToldInv, NothingYet
<1>2. OneAnnouncer'
  <2> SUFFICES ASSUME row # Undecided, row.reason # Explicit PROVE OneAnnouncer'
    BY DEF OneAnnouncer
  <2>1. \A h, g \in Handlers : pc'[h] \in Announcing /\ pc'[g] \in Announcing => h = g
    BY DEF ToldInv, OneAnnouncer
  <2>2. \A h \in Handlers : pc'[h] \in Announcing => pc'[h] = pc[h] /\ view'[h] = view[h]
    OBVIOUS
  <2> QED BY <2>1, <2>2 DEF ToldInv, OneAnnouncer, Announcing
<1>3. OneAnnouncement'
  BY DEF ToldInv, OneAnnouncement
<1>4. ToldOrWillBe'
  <2>1. ASSUME NEW h \in Handlers, NEW s \in Sides, WillTell(h, s) PROVE WillTell(h, s)'
    <3>1. pc'[h] = pc[h] /\ view'[h] = view[h]
      BY <2>1 DEF WillTell, Announcing
    <3> QED BY <2>1, <3>1 DEF WillTell
  <2> QED BY <2>1 DEF ToldInv, ToldOrWillBe
<1> QED BY <1>1, <1>2, <1>3, <1>4 DEF ToldInv

\* An evaluation that stores its verdict is the first call to announce one.
LEMMA StoreStep ==
    ASSUME DInv, ToldInv, NEW e \in Evaluators, Insert(e)
    PROVE  ToldInv'
<1>1. e \in Handlers /\ pc[e] = "write" /\ UNCHANGED <<view, told>>
  BY DEF Insert, Handlers
<1>2. \A h \in Handlers : h # e => pc'[h] = pc[h]
  BY DEF Insert, DInv, TypeOK
<1>3. CASE row # Undecided
  <2>1. pc'[e] = "done" /\ row' = row
    BY <1>1, <1>3 DEF Insert, DInv, TypeOK
  <2>2. \A h \in Handlers : pc[h] \in Announcing \/ pc'[h] \in Announcing
                             => pc'[h] = pc[h] /\ view'[h] = view[h]
    BY <1>1, <1>2, <2>1 DEF Announcing
  <2> QED BY <1>1, <2>1, <2>2, SilentStep
<1>4. CASE row = Undecided
  <2>1. pc'[e] = "reload" /\ row' = view[e] /\ view[e] \in Settled
    BY <1>1, <1>4 DEF Insert, DInv, TypeOK, WriteInv
  <2>2. /\ \A s \in Sides : told'[s] = <<>>
        /\ \A h \in Handlers : h # e => pc'[h] \notin Announcing
    BY <1>1, <1>2, <1>4 DEF ToldInv, NothingYet
  <2>3. row' # Undecided
    BY <2>1, SettledFacts
  <2>4. NothingYet'
    BY <2>3 DEF NothingYet
  <2>5. OneAnnouncer'
    <3>1. \A h, g \in Handlers : pc'[h] \in Announcing /\ pc'[g] \in Announcing => h = g
      BY <2>2
    <3>2. \A h \in Handlers : pc'[h] \in Announcing => pc'[h] = "reload"
      BY <2>1, <2>2
    <3>3. told'["a"] = <<>> /\ told'["b"] = <<>>
      BY <2>2 DEF Sides
    <3> QED BY <3>1, <3>2, <3>3 DEF OneAnnouncer, Announcing
  <2>6. OneAnnouncement'
    BY <2>2 DEF OneAnnouncement
  <2>7. ToldOrWillBe'
    BY <1>1, <2>1 DEF ToldOrWillBe, WillTell
  <2> QED BY <2>4, <2>5, <2>6, <2>7 DEF ToldInv
<1> QED BY <1>3, <1>4

\* A response that commits makes the decision explicit, and will announce it.
LEMMA RespondStep ==
    ASSUME DInv, ToldInv, NEW r \in Responders, Write(r)
    PROVE  ToldInv'
<1>1. r \in Handlers /\ pc'[r] = "reload"
  BY DEF Write, Handlers, DInv, TypeOK
<1>2. row' \in ExplicitChoices
  <2>1. /\ row \in Settled /\ view[r] \in Settled /\ choice[r] \in Actions
        /\ view[r].reason = Explicit => row.reason = Explicit
    BY DEF DInv, WriteInv, TypeOK, Write
  <2> QED BY <2>1, MergeFacts DEF Write
<1>3. row' # Undecided /\ row'.reason = Explicit
  BY <1>2, ChoiceSettled, SettledFacts
<1>4. NothingYet' /\ OneAnnouncer'
  BY <1>3 DEF NothingYet, OneAnnouncer
<1>5. OneAnnouncement'
  BY <1>3 DEF OneAnnouncement, Explicit
<1>6. ToldOrWillBe'
  BY <1>1 DEF ToldOrWillBe, WillTell
<1> QED BY <1>4, <1>5, <1>6 DEF ToldInv

\* An event is pushed to one side, after the ones pushed before.
LEMMA TellFacts ==
    ASSUME DInv, NEW h \in Handlers, NEW s \in Sides, Tell(h, s)
    PROVE  /\ \A t \in Sides : t # s => told'[t] = told[t]
           /\ told[s] = <<>> => told'[s] = <<Instruction(view[h].type, s)>>
           /\ \A t \in Sides : \A i \in DOMAIN told[t] :
                 i \in DOMAIN told'[t] /\ told'[t][i] = told[t][i]
           /\ \E i \in DOMAIN told'[s] : told'[s][i] = Instruction(view[h].type, s)
<1> DEFINE Acts == {"PROCEED", "STANDBY", "BLOCK", "ASK_USER"}
           event == Instruction(view[h].type, s)
<1>1. told[s] \in Seq(Acts) /\ event \in Acts
  BY DEF DInv, TypeOK, Instruction
<1>2. told'[s] = Append(told[s], event) /\ \A t \in Sides : t # s => told'[t] = told[t]
  BY DEF Tell, DInv, TypeOK
<1> HIDE DEF event, Acts
<1>3. /\ DOMAIN told[s] = 1..Len(told[s]) /\ DOMAIN told'[s] = 1..(Len(told[s]) + 1)
      /\ Len(told[s]) \in Nat
      /\ \A i \in 1..Len(told[s]) : told'[s][i] = told[s][i]
      /\ told'[s][Len(told[s]) + 1] = event
  BY <1>1, <1>2
<1>4. told[s] = <<>> => told'[s] = <<event>>
  BY <1>1, <1>2
<1>5. \A i \in DOMAIN told[s] : i \in DOMAIN told'[s] /\ told'[s][i] = told[s][i]
  BY <1>3
<1>6. Len(told[s]) + 1 \in DOMAIN told'[s]
  BY <1>3
<1> QED BY <1>2, <1>3, <1>4, <1>5, <1>6 DEF event

\* The end of both handlers.
LEMMA AnnouncingStep ==
    ASSUME DInv, ToldInv, NEW h \in Handlers, Announce(h)
    PROVE  ToldInv'
<1> DEFINE Verdict == row # Undecided /\ row.reason # Explicit
<1>1. row' = row /\ pc[h] \in Announcing
  BY DEF Announce, Reload, TellA, TellB, Announcing
<1>2. row # Undecided
  BY <1>1 DEF ToldInv, NothingYet
<1>3. \A g \in Handlers : g # h => pc'[g] = pc[g] /\ view'[g] = view[g]
  BY DEF Announce, Reload, TellA, TellB, DInv, TypeOK
<1>4. NothingYet'
  BY <1>1, <1>2 DEF NothingYet
<1>5. Verdict => \A g \in Handlers : g # h => pc'[g] \notin Announcing
  BY <1>1, <1>3 DEF ToldInv, OneAnnouncer
<1>6. ASSUME NEW g \in Handlers, NEW s \in Sides, g # h, WillTell(g, s) PROVE WillTell(g, s)'
  BY <1>1, <1>3, <1>6 DEF WillTell
<1>7. CASE Reload(h)
  <2>1. pc[h] = "reload" /\ pc'[h] = "tell_a" /\ view'[h] = row /\ told' = told
    BY <1>7 DEF Reload, DInv, TypeOK
  <2>2. OneAnnouncer'
    <3> SUFFICES ASSUME Verdict PROVE OneAnnouncer'
      BY <1>1 DEF OneAnnouncer
    <3>1. told["a"] = <<>> /\ told["b"] = <<>>
      BY <2>1 DEF ToldInv, OneAnnouncer
    <3> QED BY <1>1, <1>5, <2>1, <3>1 DEF OneAnnouncer, Announcing
  <2>3. OneAnnouncement'
    BY <1>1, <2>1 DEF ToldInv, OneAnnouncement
  <2>4. \A s \in Sides : WillTell(h, s)'
    BY <1>1, <2>1 DEF WillTell
  <2>5. ToldOrWillBe'
    BY <2>4 DEF ToldOrWillBe
  <2> QED BY <1>4, <2>2, <2>3, <2>5 DEF ToldInv
<1>8. CASE TellA(h)
  <2>1. pc[h] = "tell_a" /\ pc'[h] = "tell_b" /\ view' = view /\ Tell(h, "a") /\ "a" \in Sides
    BY <1>8 DEF TellA, DInv, TypeOK, Sides
  <2>2. /\ told'["b"] = told["b"]
        /\ told["a"] = <<>> => told'["a"] = <<Instruction(view[h].type, "a")>>
        /\ \A t \in Sides : \A i \in DOMAIN told[t] :
              i \in DOMAIN told'[t] /\ told'[t][i] = told[t][i]
        /\ \E i \in DOMAIN told'["a"] : told'["a"][i] = Instruction(view[h].type, "a")
    BY <2>1, TellFacts DEF Sides
  <2>3. Verdict => told["a"] = <<>> /\ told["b"] = <<>> /\ view[h] = row
    BY <2>1 DEF ToldInv, OneAnnouncer
  <2>4. OneAnnouncer'
    BY <1>1, <1>5, <2>1, <2>2, <2>3 DEF OneAnnouncer, Announcing
  <2>5. OneAnnouncement'
    BY <1>1, <2>2, <2>3 DEF OneAnnouncement, Sides, Explicit
  <2>6. ToldOrWillBe'
    <3> SUFFICES ASSUME NEW s \in Sides
                 PROVE  \/ \E i \in DOMAIN told'[s] : told'[s][i] = Instruction(row.type, s)
                        \/ \E g \in Handlers : WillTell(g, s)'
      BY <1>1 DEF ToldOrWillBe
    <3>1. CASE \E i \in DOMAIN told[s] : told[s][i] = Instruction(row.type, s)
      BY <2>2, <3>1
    <3>2. CASE \E g \in Handlers : g # h /\ WillTell(g, s)
      BY <1>6, <3>2
    <3>3. CASE WillTell(h, s)
      <4>1. view[h].type = row.type
        BY <2>1, <3>3 DEF WillTell
      <4>2. CASE s = "a"
        BY <2>2, <4>1, <4>2
      <4>3. CASE s = "b"
        BY <1>1, <2>1, <4>1, <4>3 DEF WillTell
      <4> QED BY <4>2, <4>3 DEF Sides
    <3> QED BY <1>2, <3>1, <3>2, <3>3 DEF ToldInv, ToldOrWillBe
  <2> QED BY <1>4, <2>4, <2>5, <2>6 DEF ToldInv
<1>9. CASE TellB(h)
  <2>1. pc[h] = "tell_b" /\ pc'[h] = "done" /\ view' = view /\ Tell(h, "b") /\ "b" \in Sides
    BY <1>9 DEF TellB, DInv, TypeOK, Sides
  <2>2. /\ told'["a"] = told["a"]
        /\ told["b"] = <<>> => told'["b"] = <<Instruction(view[h].type, "b")>>
        /\ \A t \in Sides : \A i \in DOMAIN told[t] :
              i \in DOMAIN told'[t] /\ told'[t][i] = told[t][i]
        /\ \E i \in DOMAIN told'["b"] : told'["b"][i] = Instruction(view[h].type, "b")
    BY <2>1, TellFacts DEF Sides
  <2>3. Verdict => told["b"] = <<>> /\ view[h] = row
    BY <2>1 DEF ToldInv, OneAnnouncer
  <2>4. OneAnnouncer'
    <3>1. Verdict => \A g \in Handlers : pc'[g] \notin Announcing
      BY <1>5, <2>1 DEF Announcing
    <3> QED BY <1>1, <3>1 DEF OneAnnouncer, Announcing
  <2>5. OneAnnouncement'
    BY <1>1, <2>2, <2>3 DEF ToldInv, OneAnnouncement, Sides, Explicit
  <2>6. ToldOrWillBe'
    <3> SUFFICES ASSUME NEW s \in Sides
                 PROVE  \/ \E i \in DOMAIN told'[s] : told'[s][i] = Instruction(row.type, s)
                        \/ \E g \in Handlers : WillTell(g, s)'
      BY <1>1 DEF ToldOrWillBe
    <3>1. CASE \E i \in DOMAIN told[s] : told[s][i] = Instruction(row.type, s)
      BY <2>2, <3>1
    <3>2. CASE \E g \in Handlers : g # h /\ WillTell(g, s)
      BY <1>6, <3>2
    <3>3. CASE WillTell(h, s)
      BY <2>1, <2>2, <3>3 DEF WillTell
    <3> QED BY <1>2, <3>1, <3>2, <3>3 DEF ToldInv, ToldOrWillBe
  <2> QED BY <1>4, <2>4, <2>5, <2>6 DEF ToldInv
<1> QED BY <1>7, <1>8, <1>9 DEF Announce

\* No step breaks the invariant.
LEMMA NextToldInv ==
    ASSUME DInv, ToldInv, [Next]_vars
    PROVE  ToldInv'
<1> DEFINE Silent == /\ UNCHANGED <<row, told>>
                     /\ \A h \in Handlers : pc[h] \in Announcing \/ pc'[h] \in Announcing
                                             => pc'[h] = pc[h] /\ view'[h] = view[h]
<1>1. ASSUME NEW e \in Evaluators, NEW s \in Sides, Authenticate(e, s) PROVE Silent
  BY <1>1 DEF Authenticate, Announcing, DInv, TypeOK, Handlers
<1>2. ASSUME NEW e \in Evaluators, CheckExisting(e) PROVE Silent
  BY <1>2 DEF CheckExisting, Announcing, DInv, TypeOK, Handlers
<1>3. ASSUME NEW e \in Evaluators, BuildContext(e) PROVE Silent
  BY <1>3 DEF BuildContext, Announcing, DInv, TypeOK, Handlers
<1>4. ASSUME NEW r \in Responders, NEW t \in Actions, Load(r, t) PROVE Silent
  BY <1>4 DEF Load, Announcing, DInv, TypeOK, Handlers
<1>5. ASSUME NEW s \in Sides, NEW p \in Setups, UpdatePreferences(s, p) PROVE Silent
  BY <1>5 DEF UpdatePreferences
<1>6. CASE UNCHANGED vars
  BY <1>6, SilentStep DEF vars
<1>7. Silent => ToldInv'
  BY SilentStep
<1> HIDE DEF Silent
<1> QED
  BY <1>1, <1>2, <1>3, <1>4, <1>5, <1>6, <1>7, StoreStep, RespondStep, AnnouncingStep
  DEF Next, Progress

\* ToldInv holds in every reachable state.
THEOREM ToldInvariant == Spec => []ToldInv
<1>1. DInv /\ ToldInv /\ [Next]_vars => ToldInv'
  BY NextToldInv
<1> QED BY <1>1, InitToldInv, DecisionInvariant, PTL DEF Spec

\* Whatever evaluations and responses run at once, until a user makes an
\* explicit choice each caller is told once at most, and what it is told is
\* what the stored decision says: the losers of the race tell nobody.
THEOREM AnnouncedOnce == Spec => []OneAnnouncement
<1>1. ToldInv => OneAnnouncement
  BY DEF ToldInv
<1> QED BY <1>1, ToldInvariant, PTL

\* When no call is running, each caller has been told what the final decision
\* asks of it.
THEOREM FinalDecisionIsTold == Spec => []FinalDecisionTold
<1>1. ToldInv => FinalDecisionTold
  BY DEF ToldInv, ToldOrWillBe, WillTell, FinalDecisionTold
<1> QED BY <1>1, ToldInvariant, PTL

=============================================================================
