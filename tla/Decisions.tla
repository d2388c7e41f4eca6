------------------------------- MODULE Decisions -------------------------------
(***************************************************************************)
(* The decision of one reciprocal pair: the row of communication_decisions *)
(* that POST /api/reciprocal-pairs/{pair_id}/decision creates and          *)
(* POST .../decision/respond replaces, and the DECISION_RESOLVED events    *)
(* both push to the two callers.                                           *)
(*                                                                         *)
(* Several calls of both endpoints run at once, each in a thread and a     *)
(* session of its own.  A session writes the columns whose value differs   *)
(* from the one it has loaded, and no others.                              *)
(***************************************************************************)
EXTENDS Resolution, Integers, Sequences

CONSTANTS
    Evaluators,     \* calls of POST .../decision
    Responders,     \* calls of POST .../decision/respond
    Setups,         \* the profiles a user may have or change to
    MaxUpdates,     \* bound: profile changes while the calls run
    Undecided       \* no row for this pair

ASSUME SetupsAssumption == Setups \subseteq Profiles
ASSUME UpdatesAssumption == MaxUpdates \in Nat
ASSUME CallsAssumption == Evaluators \cap Responders = {}
ASSUME UndecidedAssumption == Undecided \notin Verdicts

Handlers == Evaluators \cup Responders

VARIABLES
    profile,    \* the users table, by side
    updates,    \* profile changes so far
    row,        \* the pair's decision, or Undecided
    pc,         \* where each handler is
    caller,     \* the side whose token the handler has authenticated
    own,        \* that user's profile as the session has loaded it
    view,       \* the decision as the handler holds it
    choice,     \* the action a responder asks for
    told        \* the actions pushed to each side, in order

vars == <<profile, updates, row, pc, caller, own, view, choice, told>>

\* The decision an explicit choice stands for.
Chosen(type) ==
    [type |-> type,
     selected |-> IF \E s \in Sides : type = AllowType(s)
                    THEN CHOOSE s \in Sides : type = AllowType(s) ELSE "none",
     reason |-> "EXPLICIT_USER_CHOICE"]

\* (mutant) the actions the events push are taken for the ones to respond with
ActionsAsPushed == {"PROCEED", "STANDBY", "BLOCK"}

\* _VALID_RESPONSE_ACTIONS
Actions == {"ALLOW_A_TO_B", "ALLOW_B_TO_A", "BLOCK"}
ExplicitChoices == {Chosen(t) : t \in Actions}

Steps == {"idle", "check", "context", "write", "reload", "tell_a", "tell_b", "done"}

TypeOK ==
    /\ profile \in [Sides -> Profiles]
    /\ updates \in 0..MaxUpdates
    /\ row \in Verdicts \cup {Undecided}
    /\ pc \in [Handlers -> Steps]
    /\ caller \in [Evaluators -> Sides]
    /\ own \in [Evaluators -> Profiles]
    /\ view \in [Handlers -> Verdicts \cup {Undecided}]
    /\ choice \in [Responders -> Actions]
    /\ told \in [Sides -> Seq({"PROCEED", "STANDBY", "BLOCK", "ASK_USER"})]

Init ==
    /\ profile \in [Sides -> Setups]
    /\ updates = 0
    /\ row = Undecided
    /\ pc = [h \in Handlers |-> "idle"]
    /\ caller = [e \in Evaluators |-> "a"]
    /\ own = [e \in Evaluators |-> profile["a"]]
    /\ view = [h \in Handlers |-> Undecided]
    /\ choice = [r \in Responders |-> "BLOCK"]
    /\ told = [s \in Sides |-> <<>>]

-----------------------------------------------------------------------------
(* POST /api/reciprocal-pairs/{pair_id}/decision *)

\* get_current_user loads the caller's row into the session that the handler
\* uses: build_context gets this copy back, not the row of that time.
Authenticate(e, s) ==
    /\ pc[e] = "idle"
    /\ caller' = [caller EXCEPT ![e] = s]
    /\ own' = [own EXCEPT ![e] = profile[s]]
    /\ pc' = [pc EXCEPT ![e] = "check"]
    /\ UNCHANGED <<profile, updates, row, view, choice, told>>

\* An existing decision is returned, and nobody is told.
CheckExisting(e) ==
    /\ pc[e] = "check"
    /\ pc' = [pc EXCEPT ![e] = IF row = Undecided THEN "context" ELSE "done"]
    /\ UNCHANGED <<profile, updates, row, caller, own, view, choice, told>>

\* The profiles build_context sees.
Context(e) == [profile EXCEPT ![caller[e]] = own[e]]

BuildContext(e) ==
    /\ pc[e] = "context"
    /\ view' = [view EXCEPT ![e] = Resolve(Context(e)["a"], Context(e)["b"])]
    /\ pc' = [pc EXCEPT ![e] = "write"]
    /\ UNCHANGED <<profile, updates, row, caller, own, choice, told>>

\* (mutant) no unique constraint on pair_id: the insert always succeeds
InsertAlways(e) ==
    /\ pc[e] = "write"
    /\ row' = view[e]
    /\ pc' = [pc EXCEPT ![e] = "reload"]
    /\ UNCHANGED <<profile, updates, caller, own, view, choice, told>>

\* (mutant) the loser of the race announces its own verdict as well
InsertAnnouncing(e) ==
    /\ pc[e] = "write"
    /\ IF row = Undecided
         THEN row' = view[e] /\ pc' = [pc EXCEPT ![e] = "reload"]
         ELSE pc' = [pc EXCEPT ![e] = "tell_a"] /\ UNCHANGED row
    /\ UNCHANGED <<profile, updates, caller, own, view, choice, told>>

\* The commit.  pair_id is unique: the loser of a race gets an
\* IntegrityError, returns the winner's decision and tells nobody.
Insert(e) ==
    /\ pc[e] = "write"
    /\ IF row = Undecided
         THEN row' = view[e] /\ pc' = [pc EXCEPT ![e] = "reload"]
         ELSE pc' = [pc EXCEPT ![e] = "done"] /\ UNCHANGED row
    /\ UNCHANGED <<profile, updates, caller, own, view, choice, told>>

-----------------------------------------------------------------------------
(* POST /api/reciprocal-pairs/{pair_id}/decision/respond *)

\* respond_to_decision loads the decision; without one it answers 404.
Load(r, t) ==
    /\ pc[r] = "idle"
    /\ IF row = Undecided
         THEN /\ pc' = [pc EXCEPT ![r] = "done"]
              /\ UNCHANGED <<view, choice>>
         ELSE /\ pc' = [pc EXCEPT ![r] = "write"]
              /\ view' = [view EXCEPT ![r] = row]
              /\ choice' = [choice EXCEPT ![r] = t]
    /\ UNCHANGED <<profile, updates, row, caller, own, told>>

\* A column is written when the new value differs from the loaded one.
Merge(loaded, new) ==
    [c \in DOMAIN new |-> IF new[c] # loaded[c] THEN new[c] ELSE row[c]]

Write(r) ==
    /\ pc[r] = "write"
    /\ row' = Merge(view[r], Chosen(choice[r]))
    /\ pc' = [pc EXCEPT ![r] = "reload"]
    /\ UNCHANGED <<profile, updates, caller, own, view, choice, told>>

-----------------------------------------------------------------------------
(* The end of both handlers: refresh, then _broadcast_decision_resolved *)

\* (mutant) the event is built from the decision as it was loaded
ReloadNothing(h) ==
    /\ pc[h] = "reload"
    /\ pc' = [pc EXCEPT ![h] = "tell_a"]
    /\ UNCHANGED <<profile, updates, row, caller, own, view, choice, told>>

\* The refresh after the commit sees what has been committed since, too.
Reload(h) ==
    /\ pc[h] = "reload"
    /\ view' = [view EXCEPT ![h] = row]
    /\ pc' = [pc EXCEPT ![h] = "tell_a"]
    /\ UNCHANGED <<profile, updates, row, caller, own, choice, told>>

Tell(h, s) == told' = [told EXCEPT ![s] = Append(@, Instruction(view[h].type, s))]

TellA(h) ==
    /\ pc[h] = "tell_a"
    /\ Tell(h, "a")
    /\ pc' = [pc EXCEPT ![h] = "tell_b"]
    /\ UNCHANGED <<profile, updates, row, caller, own, view, choice>>

TellB(h) ==
    /\ pc[h] = "tell_b"
    /\ Tell(h, "b")
    /\ pc' = [pc EXCEPT ![h] = "done"]
    /\ UNCHANGED <<profile, updates, row, caller, own, view, choice>>

-----------------------------------------------------------------------------
\* PATCH /api/users/me/preferences commits while the calls run.
UpdatePreferences(s, p) ==
    /\ updates < MaxUpdates
    /\ profile' = [profile EXCEPT ![s] = p]
    /\ updates' = updates + 1
    /\ UNCHANGED <<row, pc, caller, own, view, choice, told>>

Announce(h) == Reload(h) \/ TellA(h) \/ TellB(h)

\* The steps of a handler the server has started.
Progress(h) ==
    \/ h \in Evaluators /\ (CheckExisting(h) \/ BuildContext(h) \/ Insert(h))
    \/ h \in Responders /\ Write(h)
    \/ Announce(h)

Next ==
    \/ \E e \in Evaluators, s \in Sides : Authenticate(e, s)
    \/ \E r \in Responders, t \in Actions : Load(r, t)
    \/ \E h \in Handlers : Progress(h)
    \/ \E s \in Sides, p \in Setups : UpdatePreferences(s, p)

Spec == Init /\ [][Next]_vars

-----------------------------------------------------------------------------
(* Safety *)

\* The pair has one decision: concurrent evaluations, each from profiles it
\* has read at its own time, store the first of their verdicts only, and what
\* replaces it later is some user's explicit choice.
Ledger == INSTANCE DecisionLedger
            WITH decision <- row, Choices <- ExplicitChoices
OneDecision == Ledger!Spec

\* The request the decision selects is the one its type allows, although type
\* and request are two columns and concurrent responses write each of them
\* only when it differs from what they have loaded.  It holds because no
\* verdict of the engine has the selection of another type.
SelectionMatchesType == row # Undecided => Consistent(row)

\* Until a user makes an explicit choice, each caller has been told at most
\* once, and what it was told is what the stored decision says.
OneAnnouncement ==
    row # Undecided /\ row.reason # "EXPLICIT_USER_CHOICE"
      => \A s \in Sides : told[s] \in {<<>>, <<Instruction(row.type, s)>>}

\* When every call has ended, each caller has been told what the final
\* decision asks of it, by whoever wrote it last (not always as the last thing
\* it was told).
FinalDecisionTold ==
    row # Undecided /\ (\A h \in Handlers : pc[h] \in {"idle", "done"})
      => \A s \in Sides : \E i \in DOMAIN told[s] : told[s][i] = Instruction(row.type, s)

-----------------------------------------------------------------------------
(* What the repository says and the code does not do *)

\* TASK.md:146 "complementary action push (`PROCEED` vs `STANDBY`)".  When all
\* calls have ended, the last actions pushed to the two callers do not let
\* both of them proceed.  Two handlers push to A and B in opposite orders.
NotBothProceed ==
    (\A h \in Handlers : pc[h] \in {"idle", "done"})
      => ~ \A s \in Sides : told[s] # <<>> /\ told[s][Len(told[s])] = "PROCEED"

=============================================================================
