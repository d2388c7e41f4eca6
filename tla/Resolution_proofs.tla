---------------------------- MODULE Resolution_proofs ----------------------------
(***************************************************************************)
(* Proofs about the conflict resolution engine: what it promises for any   *)
(* two profiles, and that it keeps its promises on the rows of two users   *)
(* whatever preference updates have led to them.                           *)
(***************************************************************************)
EXTENDS ResolutionRun, TLAPS

-----------------------------------------------------------------------------
(* The verdicts *)

\* Which call an allowing verdict lets ring, and which request it selects.
LEMMA AllowFacts ==
    ASSUME NEW why
    PROVE  /\ Allow("a", why) = [type |-> "ALLOW_A_TO_B", selected |-> "a", reason |-> why]
           /\ Allow("b", why) = [type |-> "ALLOW_B_TO_A", selected |-> "b", reason |-> why]
           /\ Block(why) = [type |-> "BLOCK", selected |-> "none", reason |-> why]
BY DEF Allow, Block, AllowType

\* Every verdict allows one of the two calls or blocks both, and selects the
\* request that it allows: nobody is ever asked.
LEMMA VerdictFacts ==
    ASSUME NEW a \in Profiles, NEW b \in Profiles
    PROVE  \E why : Resolve(a, b) \in {Allow("a", why), Allow("b", why), Block(why)}
BY DEF Resolve, DndVerdict, VipVerdict, PreferenceVerdict

-----------------------------------------------------------------------------
(* What the engine promises, for any two profiles *)

\* No preference of either user, and no rule on VIPs, lets a call ring at a
\* user with do-not-disturb on, unless the caller is one of its VIP contacts.
LEMMA EngineRespectsDnd ==
    ASSUME NEW a \in Profiles, NEW b \in Profiles
    PROVE  DndRespected(a, b)
<1>1. CASE a.dnd \/ b.dnd
  <2>1. Resolve(a, b) = DndVerdict(a, b)
    BY <1>1 DEF Resolve
  <2>2. DndVerdict(a, b).type = "ALLOW_A_TO_B" => ~b.dnd \/ b.vip
    BY <1>1, AllowFacts DEF DndVerdict
  <2>3. DndVerdict(a, b).type = "ALLOW_B_TO_A" => ~a.dnd \/ a.vip
    BY <1>1, AllowFacts DEF DndVerdict
  <2> QED BY <2>1, <2>2, <2>3 DEF DndRespected, RingsThrough, AllowType
<1>2. CASE ~(a.dnd \/ b.dnd)
  BY <1>2 DEF DndRespected
<1> QED BY <1>1, <1>2

\* A caller that becomes a VIP of the user it calls does not lose the call to
\* that: no rule above or below the ones on VIPs turns the verdict round.
LEMMA EngineFavoursVips ==
    ASSUME NEW a \in Profiles, NEW b \in Profiles
    PROVE  VipNeverLoses(a, b)
<1> DEFINE a1 == [a EXCEPT !.vip = TRUE]
           b1 == [b EXCEPT !.vip = TRUE]
<1>1. /\ a1.dnd = a.dnd /\ a1.vip /\ a1.pref = a.pref
      /\ b1.dnd = b.dnd /\ b1.vip /\ b1.pref = b.pref
  BY DEF Profiles
<1>0. a.dnd \in BOOLEAN /\ b.dnd \in BOOLEAN /\ a.vip \in BOOLEAN /\ b.vip \in BOOLEAN
  BY DEF Profiles
<1> HIDE DEF a1, b1
<1>2. Resolve(a, b).type = "ALLOW_A_TO_B" => Resolve(a, b1).type = "ALLOW_A_TO_B"
  <2>1. CASE a.dnd \/ b.dnd
    <3>1. Resolve(a, b) = DndVerdict(a, b) /\ Resolve(a, b1) = DndVerdict(a, b1)
      BY <1>1, <2>1 DEF Resolve
    <3>2. CASE b.dnd
      <4>1. DndVerdict(a, b1) = Allow("a", "VIP_PRIORITY")
        BY <1>1, <3>2 DEF DndVerdict
      <4> QED BY <3>1, <4>1, AllowFacts
    <3>3. CASE a.dnd /\ ~b.dnd
      <4>1. DndVerdict(a, b1) = DndVerdict(a, b)
        BY <1>1, <3>3 DEF DndVerdict
      <4> QED BY <3>1, <4>1
    <3> QED BY <2>1, <3>2, <3>3
  <2>2. CASE ~(a.dnd \/ b.dnd) /\ ~a.vip
    <3>1. Resolve(a, b1) = VipVerdict(a, b1)
      BY <1>0, <1>1, <2>2 DEF Resolve
    <3>2. VipVerdict(a, b1) = Allow("a", "VIP_PRIORITY")
      BY <1>1 DEF VipVerdict
    <3> QED BY <3>1, <3>2, AllowFacts
  <2>3. CASE ~(a.dnd \/ b.dnd) /\ a.vip /\ ~b.vip
    <3>1. Resolve(a, b) = VipVerdict(a, b)
      BY <1>0, <2>3 DEF Resolve
    <3>2. VipVerdict(a, b) = Allow("b", "VIP_PRIORITY")
      BY <2>3 DEF VipVerdict
    <3> QED BY <3>1, <3>2, AllowFacts
  <2>4. CASE b.vip
    <3>1. b1 = b
      BY <2>4, <1>0 DEF Profiles, b1
    <3> QED BY <3>1
  <2> QED BY <2>1, <2>2, <2>3, <2>4
<1>3. Resolve(a, b).type = "ALLOW_B_TO_A" => Resolve(a1, b).type = "ALLOW_B_TO_A"
  <2>1. CASE a.dnd \/ b.dnd
    <3>1. Resolve(a, b) = DndVerdict(a, b) /\ Resolve(a1, b) = DndVerdict(a1, b)
      BY <1>1, <2>1 DEF Resolve
    <3>2. CASE b.dnd /\ b.vip
      <4>1. DndVerdict(a, b) = Allow("a", "VIP_PRIORITY")
        BY <3>2 DEF DndVerdict
      <4> QED BY <3>1, <4>1, AllowFacts
    <3>3. CASE b.dnd /\ ~b.vip /\ ~a.dnd
      <4>1. DndVerdict(a1, b) = DndVerdict(a, b)
        BY <1>1, <3>3 DEF DndVerdict
      <4> QED BY <3>1, <4>1
    <3>4. CASE a.dnd /\ ~(b.dnd /\ b.vip)
      <4>1. DndVerdict(a1, b) = Allow("b", "VIP_PRIORITY")
        BY <1>1, <3>4 DEF DndVerdict
      <4> QED BY <3>1, <4>1, AllowFacts
    <3> QED BY <2>1, <3>2, <3>3, <3>4
  <2>2. CASE ~(a.dnd \/ b.dnd) /\ ~b.vip
    <3>1. Resolve(a1, b) = VipVerdict(a1, b)
      BY <1>0, <1>1, <2>2 DEF Resolve
    <3>2. VipVerdict(a1, b) = Allow("b", "VIP_PRIORITY")
      BY <1>1, <2>2 DEF VipVerdict
    <3> QED BY <3>1, <3>2, AllowFacts
  <2>3. CASE ~(a.dnd \/ b.dnd) /\ b.vip /\ ~a.vip
    <3>1. Resolve(a, b) = VipVerdict(a, b)
      BY <1>0, <2>3 DEF Resolve
    <3>2. VipVerdict(a, b) = Allow("a", "VIP_PRIORITY")
      BY <2>3 DEF VipVerdict
    <3> QED BY <3>1, <3>2, AllowFacts
  <2>4. CASE a.vip
    <3>1. a1 = a
      BY <2>4, <1>0 DEF Profiles, a1
    <3> QED BY <3>1
  <2> QED BY <2>1, <2>2, <2>3, <2>4
<1> QED BY <1>2, <1>3 DEF VipNeverLoses, RingsThrough, AllowType, a1, b1

\* The verdict names the request that it allows, and when one user may proceed
\* the other stands by.
LEMMA EngineIsCoherent ==
    ASSUME NEW a \in Profiles, NEW b \in Profiles
    PROVE  /\ Consistent(Resolve(a, b))
           /\ \A s \in Sides :
                 Instruction(Resolve(a, b).type, s) = "PROCEED"
                   <=> Instruction(Resolve(a, b).type, Other(s)) = "STANDBY"
<1>1. PICK why : Resolve(a, b) \in {Allow("a", why), Allow("b", why), Block(why)}
  BY VerdictFacts
<1> QED BY <1>1, AllowFacts DEF Consistent, Instruction, AllowType, Other, Sides

-----------------------------------------------------------------------------
(* The part of the engine that the order of the two calls plays *)

\* What mirroring does to each verdict.
LEMMA MirrorFacts ==
    ASSUME NEW why
    PROVE  /\ Mirrored(Allow("a", why)) = Allow("b", why)
           /\ Mirrored(Allow("b", why)) = Allow("a", why)
           /\ Mirrored(Block(why)) = Block(why)
BY DEF Mirrored, Allow, Block, AllowType, Other

\* With do-not-disturb on for one user, or for both and one VIP caller, the
\* order of the calls does not count.
LEMMA DndIgnoresOrder ==
    ASSUME NEW a \in Profiles, NEW b \in Profiles, a.dnd \/ b.dnd,
           a.dnd # b.dnd \/ a.vip # b.vip
    PROVE  DndVerdict(a, b) = Mirrored(DndVerdict(b, a))
<1>1. a.dnd \in BOOLEAN /\ b.dnd \in BOOLEAN /\ a.vip \in BOOLEAN /\ b.vip \in BOOLEAN
  BY DEF Profiles
<1>2. CASE a.dnd /\ ~b.dnd
  BY <1>1, <1>2, MirrorFacts DEF DndVerdict
<1>3. CASE b.dnd /\ ~a.dnd
  BY <1>1, <1>3, MirrorFacts DEF DndVerdict
<1>4. CASE a.dnd /\ b.dnd
  BY <1>1, <1>4, MirrorFacts DEF DndVerdict
<1> QED BY <1>1, <1>2, <1>3, <1>4

\* A caller that alone is a VIP goes ahead, whoever called first.
LEMMA VipIgnoresOrder ==
    ASSUME NEW a \in Profiles, NEW b \in Profiles, a.vip # b.vip
    PROVE  VipVerdict(a, b) = Mirrored(VipVerdict(b, a))
BY MirrorFacts DEF VipVerdict, Profiles

\* Different preferences, none of which always allows, decide by themselves.
LEMMA PreferenceIgnoresOrder ==
    ASSUME NEW a \in Profiles, NEW b \in Profiles, a.pref # b.pref,
           "ALWAYS_ALLOW" \notin {a.pref, b.pref}
    PROVE  PreferenceVerdict(a, b) = Mirrored(PreferenceVerdict(b, a))
BY MirrorFacts DEF PreferenceVerdict, Profiles, Preferences

\* Between users with the same preference, or one of whom always allows, the
\* order decides, unless one blocks reciprocal calls.
LEMMA PreferenceFollowsOrder ==
    ASSUME NEW a \in Profiles, NEW b \in Profiles,
           "BLOCK_RECIPROCAL" \notin {a.pref, b.pref},
           a.pref = b.pref \/ "ALWAYS_ALLOW" \in {a.pref, b.pref}
    PROVE  \E s \in Sides : /\ PreferenceVerdict(a, b).type = AllowType(s)
                            /\ PreferenceVerdict(b, a).type = AllowType(s)
<1>1. CASE "ALWAYS_ALLOW" \in {a.pref, b.pref}
  BY <1>1, AllowFacts DEF PreferenceVerdict, AllowType, Sides
<1>2. CASE a.pref = b.pref /\ a.pref # "ALWAYS_ALLOW"
  <2>1. PreferenceVerdict(a, b) = PreferenceVerdict(b, a)
    BY <1>2 DEF PreferenceVerdict
  <2>2. \E why : PreferenceVerdict(a, b) \in {Allow("a", why), Allow("b", why)}
    BY <1>2 DEF PreferenceVerdict
  <2> QED BY <2>1, <2>2, AllowFacts DEF AllowType, Sides
<1> QED BY <1>1, <1>2

\* One user who blocks reciprocal calls settles the matter, whoever it is.
LEMMA BlockIgnoresOrder ==
    ASSUME NEW a \in Profiles, NEW b \in Profiles, "BLOCK_RECIPROCAL" \in {a.pref, b.pref}
    PROVE  PreferenceVerdict(a, b) = Mirrored(PreferenceVerdict(b, a))
BY MirrorFacts DEF PreferenceVerdict

\* Between tied users the order of the calls decides, and the verdict on any two
\* others does not depend on who called first.
LEMMA EngineBreaksTiesOnly ==
    ASSUME NEW a \in Profiles, NEW b \in Profiles
    PROVE  OrderBreaksTiesOnly(a, b)
<1>1. a.dnd \in BOOLEAN /\ b.dnd \in BOOLEAN /\ a.vip \in BOOLEAN /\ b.vip \in BOOLEAN
  BY DEF Profiles
<1>2. ASSUME Tied(a, b)
      PROVE  \E s \in Sides : RingsThrough(s, a, b) /\ RingsThrough(s, b, a)
  <2>1. CASE a.dnd
    <3>1. b.dnd /\ a.vip /\ b.vip
      BY <1>1, <1>2, <2>1 DEF Tied
    <3>2. Resolve(a, b) = Allow("a", "VIP_PRIORITY") /\ Resolve(b, a) = Allow("a", "VIP_PRIORITY")
      BY <2>1, <3>1 DEF Resolve, DndVerdict
    <3> QED BY <3>2, AllowFacts DEF RingsThrough, AllowType, Sides
  <2>2. CASE ~a.dnd
    <3>1. ~b.dnd /\ a.vip = b.vip
      BY <1>1, <1>2, <2>2 DEF Tied
    <3>2. Resolve(a, b) = PreferenceVerdict(a, b) /\ Resolve(b, a) = PreferenceVerdict(b, a)
      BY <2>2, <3>1 DEF Resolve
    <3>3. /\ "BLOCK_RECIPROCAL" \notin {a.pref, b.pref}
          /\ a.pref = b.pref \/ "ALWAYS_ALLOW" \in {a.pref, b.pref}
      BY <1>2, <2>2 DEF Tied
    <3> QED BY <3>2, <3>3, PreferenceFollowsOrder DEF RingsThrough
  <2> QED BY <2>1, <2>2
<1>3. ASSUME ~Tied(a, b) PROVE Resolve(a, b) = Mirrored(Resolve(b, a))
  <2>1. CASE a.dnd # b.dnd
    BY <1>1, <2>1, DndIgnoresOrder DEF Resolve
  <2>2. CASE a.dnd = b.dnd /\ a.vip # b.vip
    BY <1>1, <2>2, DndIgnoresOrder, VipIgnoresOrder DEF Resolve
  <2>3. CASE a.dnd /\ b.dnd /\ a.vip = b.vip
    <3>1. ~a.vip /\ ~b.vip
      BY <1>1, <1>3, <2>3 DEF Tied
    <3>2. Resolve(a, b) = Block("DND_ACTIVE") /\ Resolve(b, a) = Block("DND_ACTIVE")
      BY <2>3, <3>1 DEF Resolve, DndVerdict
    <3> QED BY <3>2, MirrorFacts
  <2>4. CASE ~a.dnd /\ ~b.dnd /\ a.vip = b.vip
    <3>1. /\ Resolve(a, b) = PreferenceVerdict(a, b)
          /\ Resolve(b, a) = PreferenceVerdict(b, a)
      BY <2>4 DEF Resolve
    <3>2. \/ "BLOCK_RECIPROCAL" \in {a.pref, b.pref}
          \/ a.pref # b.pref /\ "ALWAYS_ALLOW" \notin {a.pref, b.pref}
      BY <1>1, <1>3, <2>4 DEF Tied
    <3> QED BY <3>1, <3>2, BlockIgnoresOrder, PreferenceIgnoresOrder
  <2> QED BY <1>1, <2>1, <2>2, <2>3, <2>4
<1> QED BY <1>2, <1>3 DEF OrderBreaksTiesOnly

-----------------------------------------------------------------------------
(* The two rows *)

\* The rows keep their type: an update changes one field to a value it may have.
THEOREM TypeCorrect == Spec => []TypeOK
<1>1. Init => TypeOK
  BY DEF Init, TypeOK, Profiles, Preferences
<1>2. TypeOK /\ [Next]_profile => TypeOK'
  <2> SUFFICES ASSUME TypeOK, [Next]_profile PROVE TypeOK'
    OBVIOUS
  <2>1. ASSUME NEW s \in Sides, NEW p \in Preferences, SetPreference(s, p) PROVE TypeOK'
    BY <2>1 DEF SetPreference, TypeOK, Profiles
  <2>2. ASSUME NEW s \in Sides, NEW on \in BOOLEAN, SetDnd(s, on) PROVE TypeOK'
    BY <2>2 DEF SetDnd, TypeOK, Profiles
  <2>3. ASSUME NEW s \in Sides, NEW listed \in BOOLEAN, SetVip(s, listed) PROVE TypeOK'
    BY <2>3 DEF SetVip, TypeOK, Profiles
  <2>4. CASE UNCHANGED profile
    BY <2>4 DEF TypeOK
  <2> QED BY <2>1, <2>2, <2>3, <2>4 DEF Next
<1> QED BY <1>1, <1>2, PTL DEF Spec

\* What the engine is applied to.
LEMMA TheTwoProfiles == TypeOK => A \in Profiles /\ B \in Profiles
BY DEF TypeOK, A, B, Sides

\* Whatever the two users have configured, a user with do-not-disturb on is
\* rung by its VIP contacts only.
THEOREM DndIsRespected == Spec => []DndHolds
<1>1. TypeOK => DndHolds
  BY TheTwoProfiles, EngineRespectsDnd DEF DndHolds
<1> QED BY <1>1, TypeCorrect, PTL

\* Whatever the two users have configured, who called first decides between
\* tied users (Tied names all of them), and between no others.
THEOREM OrderDecidesTies == Spec => []TiesOnly
<1>1. TypeOK => TiesOnly
  BY TheTwoProfiles, EngineBreaksTiesOnly DEF TiesOnly
<1> QED BY <1>1, TypeCorrect, PTL

\* Whatever the two users have configured, listing the caller as a VIP does not
\* take the call from it.
THEOREM VipsNeverLose == Spec => []VipMonotone
<1>1. TypeOK => VipMonotone
  BY TheTwoProfiles, EngineFavoursVips DEF VipMonotone
<1> QED BY <1>1, TypeCorrect, PTL

\* Whatever the two users have configured, the selected request is the allowed
\* one, and one user proceeds exactly when the other stands by.
THEOREM VerdictsAreCoherent == Spec => []VerdictCoherent
<1>1. TypeOK => VerdictCoherent
  BY TheTwoProfiles, EngineIsCoherent DEF VerdictCoherent
<1> QED BY <1>1, TypeCorrect, PTL

=============================================================================
