----------------------------- MODULE CallingScreen -----------------------------
(***************************************************************************)
(* The calling screen of a phone, from its initState until it is left.     *)
(*                                                                         *)
(* All of it runs on the phone's UI isolate: an action below is one        *)
(* callback up to its first await.  The Navigator pops and replaces the    *)
(* topmost route, which need not be the calling screen: a sheet or the     *)
(* in-call screen may lie over it.                                         *)
(*                                                                         *)
(* The telephone (calls that are added or change their state), the time    *)
(* the platform takes to place a call and the answer of the server to a    *)
(* cancellation are the environment's.                                     *)
(***************************************************************************)
EXTENDS Integers, Sequences

CONSTANTS
    Phones      \* the phones, each with one calling screen

VARIABLES
    shown,      \* where the screen is: not yet shown, mounted, or left
    above,      \* the routes over the screen: "sheet" or "incall"
    timer,      \* TRUE: the auto-dial timer of 1.2 s is running
    action,     \* _decisionAction
    started,    \* _simCallStarted
    listening,  \* TRUE: the screen hears call events (_eventSub)
    placing,    \* placeCellularCall requests that have not returned: the
                \* platform has yet to take the call, or to refuse it
    flag,       \* _isPlacingCall
    cancels,    \* cancel requests that have not returned
    disabled,   \* _isCancelling: the cancel button does nothing
    dials       \* calls the screen has asked the platform to place, ever

route == <<shown, above>>
calling == <<started, listening, placing, flag, dials>>
cancelling == <<cancels, disabled>>
screen == <<route, timer, action, calling, cancelling>>

Actions == {"PROCEED", "STANDBY", "ASK_USER", "BLOCK"}

ScreenTypeOK ==
    /\ shown \in [Phones -> {"not_yet", "mounted", "left"}]
    /\ \A p \in Phones : \A i \in DOMAIN above[p] : above[p][i] \in {"sheet", "incall"}
    /\ timer \in [Phones -> BOOLEAN]
    /\ action \in [Phones -> Actions \cup {"none"}]
    /\ started \in [Phones -> BOOLEAN] /\ listening \in [Phones -> BOOLEAN]
    /\ placing \in [Phones -> Nat] /\ flag \in [Phones -> BOOLEAN]
    /\ cancels \in [Phones -> Nat] /\ disabled \in [Phones -> BOOLEAN]
    /\ dials \in [Phones -> Nat]

ScreenInit ==
    /\ shown = [p \in Phones |-> "not_yet"]
    /\ above = [p \in Phones |-> <<>>]
    /\ timer = [p \in Phones |-> FALSE]
    /\ action = [p \in Phones |-> "none"]
    /\ started = [p \in Phones |-> FALSE]
    /\ listening = [p \in Phones |-> FALSE]
    /\ placing = [p \in Phones |-> 0]
    /\ flag = [p \in Phones |-> FALSE]
    /\ cancels = [p \in Phones |-> 0]
    /\ disabled = [p \in Phones |-> FALSE]
    /\ dials = [p \in Phones |-> 0]

Mounted(p) == shown[p] = "mounted"

\* initState.
Open(p) ==
    /\ shown[p] = "not_yet"
    /\ shown' = [shown EXCEPT ![p] = "mounted"]
    /\ timer' = [timer EXCEPT ![p] = TRUE]
    /\ listening' = [listening EXCEPT ![p] = TRUE]
    /\ UNCHANGED <<above, action, started, placing, flag, dials, cancelling>>

-----------------------------------------------------------------------------
(* The Navigator *)

\* Navigator.pop: the topmost route goes, and the screen with it if it is that.
Pop(p) ==
    IF above[p] = <<>>
      THEN shown' = [shown EXCEPT ![p] = "left"] /\ UNCHANGED above
      ELSE above' = [above EXCEPT ![p] = SubSeq(@, 1, Len(@) - 1)] /\ UNCHANGED shown

\* Navigator.pushReplacement of the in-call screen.
Replace(p) ==
    IF above[p] = <<>>
      THEN shown' = [shown EXCEPT ![p] = "left"] /\ UNCHANGED above
      ELSE above' = [above EXCEPT ![p] = [@ EXCEPT ![Len(@)] = "incall"]] /\ UNCHANGED shown

\* The user goes back or closes a sheet, or the in-call screen closes.
CloseTop(p) ==
    /\ Mounted(p)
    /\ Pop(p)
    /\ UNCHANGED <<timer, action, calling, cancelling>>

-----------------------------------------------------------------------------
(* Placing the call *)

\* _placeSimCall up to its await.
Place(p) ==
    /\ flag' = [flag EXCEPT ![p] = TRUE]
    /\ placing' = [placing EXCEPT ![p] = @ + 1]
    /\ dials' = [dials EXCEPT ![p] = @ + 1]

DoNotPlace == UNCHANGED <<placing, flag, dials>>

\* The rest of it: the platform has taken the call, or refused it.
Placed(p) ==
    /\ placing[p] > 0
    /\ placing' = [placing EXCEPT ![p] = @ - 1]
    /\ flag' = [flag EXCEPT ![p] = IF Mounted(p) THEN FALSE ELSE @]
    /\ UNCHANGED <<route, timer, action, started, listening, dials, cancelling>>

\* (mutant) the timer does not ask for the decision
TimerIgnoringDecision(p) ==
    /\ timer[p]
    /\ timer' = [timer EXCEPT ![p] = FALSE]
    /\ UNCHANGED action
    /\ IF Mounted(p) /\ ~started[p] /\ ~flag[p] THEN Place(p) ELSE DoNotPlace
    /\ UNCHANGED <<route, started, listening, cancelling>>

\* 1.2 s after initState.
Timer(p) ==
    /\ timer[p]
    /\ timer' = [timer EXCEPT ![p] = FALSE]
    /\ UNCHANGED action
    /\ IF Mounted(p) /\ ~started[p] /\ ~flag[p] /\ action[p] # "STANDBY"
         THEN Place(p) ELSE DoNotPlace
    /\ UNCHANGED <<route, started, listening, cancelling>>

-----------------------------------------------------------------------------
(* Events *)

\* A call event of the telephone, of this call or of any other: only a call
\* that was added (not one whose state changes before) opens the in-call
\* screen, and then no more call events are heard.
CallEvent(p, added) ==
    /\ Mounted(p)
    /\ listening[p]
    /\ started' = [started EXCEPT ![p] = TRUE]
    /\ IF added
         THEN listening' = [listening EXCEPT ![p] = FALSE] /\ Replace(p)
         ELSE UNCHANGED <<listening, route>>
    /\ UNCHANGED <<timer, action, placing, flag, dials, cancelling>>

Cover(p) == above' = [above EXCEPT ![p] = Append(@, "sheet")]

\* (mutant) a PROCEED that replaces an earlier decision places no call
ProceedIfFirst(p) == IF started[p] \/ flag[p] \/ action[p] # "none" THEN DoNotPlace ELSE Place(p)

\* PROCEED places the call unless a request to place one has not returned, or
\* the telephone has reported one.
Proceed(p) == IF started[p] \/ flag[p] THEN DoNotPlace ELSE Place(p)

\* _cancelCloudRequest up to its await.
StartCancel(p) ==
    /\ cancels' = [cancels EXCEPT ![p] = @ + 1]
    /\ disabled' = [disabled EXCEPT ![p] = TRUE]

\* (mutant) once a decision is known the screen listens no more
HearFirstDecision(p, a) ==
    /\ action' = IF Mounted(p) /\ action[p] = "none" THEN [action EXCEPT ![p] = a] ELSE action
    /\ IF Mounted(p) /\ a = "PROCEED" THEN Proceed(p) ELSE DoNotPlace
    /\ IF Mounted(p) /\ a # "BLOCK" THEN Cover(p) ELSE UNCHANGED above
    /\ IF Mounted(p) /\ a = "BLOCK" THEN StartCancel(p) ELSE UNCHANGED cancelling
    /\ UNCHANGED <<shown, timer, started, listening>>

\* DECISION_RESOLVED: the pair it is about is not looked at.
HearDecision(p, a) ==
    /\ action' = IF Mounted(p) THEN [action EXCEPT ![p] = a] ELSE action
    /\ IF Mounted(p) /\ a = "PROCEED" THEN Proceed(p) ELSE DoNotPlace
    /\ IF Mounted(p) /\ a # "BLOCK" THEN Cover(p) ELSE UNCHANGED above
    /\ IF Mounted(p) /\ a = "BLOCK" THEN StartCancel(p) ELSE UNCHANGED cancelling
    /\ UNCHANGED <<shown, timer, started, listening>>

\* The cancel button.
TapCancel(p) ==
    /\ Mounted(p)
    /\ above[p] = <<>>
    /\ ~disabled[p]
    /\ StartCancel(p)
    /\ UNCHANGED <<route, timer, action, calling>>

\* The answer: the screen pops the topmost route; after a failure the button
\* stays disabled.
Cancelled(p, done) ==
    /\ cancels[p] > 0
    /\ cancels' = [cancels EXCEPT ![p] = @ - 1]
    /\ IF Mounted(p)
         THEN Pop(p) /\ disabled' = [disabled EXCEPT ![p] = @ /\ ~done]
         ELSE UNCHANGED <<route, disabled>>
    /\ UNCHANGED <<timer, action, calling>>

=============================================================================
