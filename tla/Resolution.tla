------------------------------ MODULE Resolution ------------------------------
(***************************************************************************)
(* The conflict resolution engine: which of the two calls of a reciprocal  *)
(* pair may go ahead, from what the two users have configured.             *)
(*                                                                         *)
(* Side "a" is the caller of request_a, the earlier request of the pair,   *)
(* and side "b" the caller of request_b.                                   *)
(***************************************************************************)

Sides == {"a", "b"}
Other(s) == IF s = "a" THEN "b" ELSE "a"

\* ReciprocalCallPreference
Preferences == {"ASK", "PREFER_OUTGOING", "PREFER_INCOMING", "ALWAYS_ALLOW",
                "BLOCK_RECIPROCAL"}

\* What build_context reads of a user: the preference, dnd_enabled, and
\* whether the other caller is one of its vip_contacts.
Profiles == [pref : Preferences, dnd : BOOLEAN, vip : BOOLEAN]

DecisionTypes == {"ALLOW_A_TO_B", "ALLOW_B_TO_A", "ASK_USER", "BLOCK"}
ReasonCodes == {"DEFAULT_POLICY", "USER_PREFERENCE", "EXPLICIT_USER_CHOICE",
                "DND_ACTIVE", "VIP_PRIORITY"}

\* ResolutionResult: selected is the side whose request goes ahead, if any
Verdicts == [type : DecisionTypes, selected : Sides \cup {"none"}, reason : ReasonCodes]

AllowType(s) == IF s = "a" THEN "ALLOW_A_TO_B" ELSE "ALLOW_B_TO_A"

Allow(s, why) == [type |-> AllowType(s), selected |-> s, reason |-> why]

\* (mutant) a request stays selected
BlockSelecting(why) == [type |-> "BLOCK", selected |-> "a", reason |-> why]

Block(why) == [type |-> "BLOCK", selected |-> "none", reason |-> why]

\* Whether the caller on side s is a VIP of the user it calls.
CallerIsVip(s, a, b) == IF s = "a" THEN b.vip ELSE a.vip

\* (mutant) the contact list of the caller is looked at, not the callee's
DndVerdictOwnContacts(a, b) ==
    IF a.dnd /\ b.dnd /\ ~a.vip /\ ~b.vip THEN Block("DND_ACTIVE")
    ELSE IF b.dnd /\ a.vip THEN Allow("a", "VIP_PRIORITY")
    ELSE IF b.dnd /\ ~a.dnd THEN Allow("b", "DND_ACTIVE")
    ELSE IF a.dnd /\ b.vip THEN Allow("b", "VIP_PRIORITY")
    ELSE Allow("a", "DND_ACTIVE")

\* Priorities 0A and 0B, when at least one user has do-not-disturb on: one of
\* these rules always applies.
DndVerdict(a, b) ==
    IF a.dnd /\ b.dnd /\ ~a.vip /\ ~b.vip THEN Block("DND_ACTIVE")
    ELSE IF b.dnd /\ b.vip THEN Allow("a", "VIP_PRIORITY")
    ELSE IF b.dnd /\ ~a.dnd THEN Allow("b", "DND_ACTIVE")
    ELSE IF a.dnd /\ a.vip THEN Allow("b", "VIP_PRIORITY")
    ELSE Allow("a", "DND_ACTIVE")

\* (mutant) the VIP's own call is the one held back
VipVerdictSwapped(a, b) == Allow(IF b.vip THEN "b" ELSE "a", "VIP_PRIORITY")

\* Priority 0C, when one caller only is a VIP of the other.
VipVerdict(a, b) == Allow(IF b.vip THEN "a" ELSE "b", "VIP_PRIORITY")

\* (mutant) the rule for a user who prefers incoming calls and called first is
\* missing
PreferenceVerdictGap(a, b) ==
    LET either(p) == p \in {a.pref, b.pref}
        prefer(s) == Allow(s, "USER_PREFERENCE")
    IN  IF either("BLOCK_RECIPROCAL") THEN Block("USER_PREFERENCE")
        ELSE IF either("ALWAYS_ALLOW") THEN prefer("a")
        ELSE IF a.pref = "PREFER_OUTGOING" THEN prefer("a")
        ELSE IF b.pref = "PREFER_OUTGOING" THEN prefer("b")
        ELSE IF b.pref = "PREFER_INCOMING" THEN prefer("a")
        ELSE Allow("a", "DEFAULT_POLICY")

\* (mutant) users who do not always allow or block are asked
PreferenceVerdictAsk(a, b) ==
    LET either(p) == p \in {a.pref, b.pref}
        prefer(s) == Allow(s, "USER_PREFERENCE")
    IN  IF either("BLOCK_RECIPROCAL") THEN Block("USER_PREFERENCE")
        ELSE IF either("ALWAYS_ALLOW") THEN prefer("a")
        ELSE [type |-> "ASK_USER", selected |-> "none", reason |-> "DEFAULT_POLICY"]

\* Priorities 1 to 7.
PreferenceVerdict(a, b) ==
    LET either(p) == p \in {a.pref, b.pref}
        prefer(s) == Allow(s, "USER_PREFERENCE")
    IN  IF either("BLOCK_RECIPROCAL") THEN Block("USER_PREFERENCE")
        ELSE IF either("ALWAYS_ALLOW") THEN prefer("a")
        ELSE IF a.pref = "PREFER_OUTGOING" THEN prefer("a")
        ELSE IF b.pref = "PREFER_OUTGOING" THEN prefer("b")
        ELSE IF a.pref = "PREFER_INCOMING" THEN prefer("b")
        ELSE IF b.pref = "PREFER_INCOMING" THEN prefer("a")
        ELSE Allow("a", "DEFAULT_POLICY")

\* resolve: the verdict on the call of a user with profile a to one with
\* profile b and the later call back.
Resolve(a, b) ==
    IF a.dnd \/ b.dnd THEN DndVerdict(a, b)
    ELSE IF a.vip # b.vip THEN VipVerdict(a, b)
    ELSE PreferenceVerdict(a, b)

\* The action get_user_action tells the user on side s.
Instruction(type, s) ==
    IF type = AllowType(s) THEN "PROCEED"
    ELSE IF type = AllowType(Other(s)) THEN "STANDBY"
    ELSE IF type = "BLOCK" THEN "BLOCK"
    ELSE "ASK_USER"

-----------------------------------------------------------------------------
(* What the engine promises, for any two profiles *)

\* The call of side s rings at the other user.
RingsThrough(s, a, b) == Resolve(a, b).type = AllowType(s)

\* A user with do-not-disturb on is never rung, except by one of its VIP
\* contacts: no preference of either user overrides it.
DndRespected(a, b) ==
    /\ RingsThrough("a", a, b) /\ b.dnd => b.vip
    /\ RingsThrough("b", a, b) /\ a.dnd => a.vip

\* What the engine has nothing else to tell the two users apart by:
\*   - both have do-not-disturb on and each lists the other as a VIP contact,
\*     whatever their preferences; or
\*   - none has it on, both or neither list the other, none blocks reciprocal
\*     calls, and they prefer the same or at least one of them always allows.
Tied(a, b) ==
    /\ a.dnd = b.dnd
    /\ a.vip = b.vip
    /\ \/ a.dnd /\ a.vip
       \/ /\ ~a.dnd
          /\ "BLOCK_RECIPROCAL" \notin {a.pref, b.pref}
          /\ a.pref = b.pref \/ "ALWAYS_ALLOW" \in {a.pref, b.pref}

\* The verdict v with the two sides exchanged.
Mirrored(v) ==
    IF v.selected = "none" THEN v ELSE Allow(Other(v.selected), v.reason)

\* The order of the two calls decides ties and nothing else: between tied users
\* the same place in the order goes ahead whoever has it (the later one if both
\* prefer incoming calls, else the earlier one); of all others the same user's
\* call would have gone ahead, or none, had the other one called first.
OrderBreaksTiesOnly(a, b) ==
    IF Tied(a, b) THEN \E s \in Sides : RingsThrough(s, a, b) /\ RingsThrough(s, b, a)
    ELSE Resolve(a, b) = Mirrored(Resolve(b, a))

\* Making the caller a VIP never costs it the call.
VipNeverLoses(a, b) ==
    /\ RingsThrough("a", a, b) => RingsThrough("a", a, [b EXCEPT !.vip = TRUE])
    /\ RingsThrough("b", a, b) => RingsThrough("b", [a EXCEPT !.vip = TRUE], b)

\* A verdict selects a request exactly when it allows that request's call.
Consistent(v) ==
    \A s \in Sides : v.selected = s <=> v.type = AllowType(s)

=============================================================================
