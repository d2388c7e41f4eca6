---------------------------- MODULE ResolutionRun ----------------------------
(***************************************************************************)
(* The profiles of the two callers of one pair as PATCH                    *)
(* /api/users/me/preferences changes them, field by field, and the         *)
(* engine's verdict on them.                                               *)
(***************************************************************************)
EXTENDS Resolution

VARIABLE profile    \* the two users' rows, by side

TypeOK == profile \in [Sides -> Profiles]

\* A registered user starts with the defaults of the users table.
Init == profile = [s \in Sides |-> [pref |-> "ASK", dnd |-> FALSE, vip |-> FALSE]]

\* (mutant) the default preference is stored as no preference
SetPreferenceUnset(s, p) ==
    profile' = [profile EXCEPT ![s].pref = IF p = "ASK" THEN "UNSET" ELSE p]

\* update_preferences writes the fields the payload has and leaves the others.
\* Which of the other's phone numbers and ids vip_contacts lists is reduced to
\* whether the other caller is among them.
SetPreference(s, p) == profile' = [profile EXCEPT ![s].pref = p]
SetDnd(s, on) == profile' = [profile EXCEPT ![s].dnd = on]
SetVip(s, listed) == profile' = [profile EXCEPT ![s].vip = listed]

Next ==
    \E s \in Sides :
        \/ \E p \in Preferences : SetPreference(s, p)
        \/ \E on \in BOOLEAN : SetDnd(s, on)
        \/ \E listed \in BOOLEAN : SetVip(s, listed)

Spec == Init /\ [][Next]_profile

A == profile["a"]
B == profile["b"]

\* A user with do-not-disturb on is rung by its VIP contacts only.
DndHolds == DndRespected(A, B)

\* The order of the two calls decides between tied users, and between no others.
\* Tied are two users with do-not-disturb on who list each other, and two
\* without it who list each other or do not, with the same preference or
\* ALWAYS_ALLOW among theirs, and no BLOCK_RECIPROCAL.
TiesOnly == OrderBreaksTiesOnly(A, B)

\* Becoming a VIP never costs a caller its call.
VipMonotone == VipNeverLoses(A, B)

\* What the verdict selects and what it allows agree, and when it allows one
\* call the two users are told to proceed and to stand by, one each.
VerdictCoherent ==
    LET v == Resolve(A, B)
    IN  /\ Consistent(v)
        /\ \A s \in Sides :
              Instruction(v.type, s) = "PROCEED" <=> Instruction(v.type, Other(s)) = "STANDBY"

=============================================================================
