------------------------- MODULE Coordination_proofs -------------------------
(***************************************************************************)
(* What holds of the whole system for any users, phones, sockets and       *)
(* bounds: NothingDropped and InOrder of the push channel, from the steps  *)
(* of PushChannel_proofs, and what _isPlacingCall of a calling screen      *)
(* tells: that one request to place a call has not returned.  Of a call    *)
(* that the platform has taken it tells nothing.                           *)
(***************************************************************************)
EXTENDS Coordination, PushChannel_proofs

(* The push channel *)

\* All of the channel but what is under way on the lines.
behindWire == <<owner, at, registered, looping, ready, sending, broken,
                published, personal, written, owed, shared>>

\* What the channel does in one step, whoever causes it.
ChannelMove ==
    \/ \E s \in Sockets, u \in Users : Accept(s, u)
    \/ \E s \in Sockets : Register(s) \/ End(s) \/ Break(s)
    \/ \E to \in Seq(Users), body \in Bodies : Publish(to, body)
    \/ Loop

LEMMA StepMovesChannel == Next => (UNCHANGED behindWire \/ ChannelMove)
<1> SUFFICES ASSUME Next PROVE UNCHANGED behindWire \/ ChannelMove
    OBVIOUS
<1> DEFINE Same == UNCHANGED behindWire
<1>0. (UNCHANGED channel) => Same
  BY DEF behindWire, channel, manager, sockets, history
<1> HIDE DEF Same
<1>1. CASE LoopStep BY <1>1 DEF LoopStep, ChannelMove
<1>2. CASE HandlerStep
  <2>1. CASE Detect
    <3>1. PICK a, b \in Users : Publish(<<a, b>>, "DETECTED") BY <2>1 DEF Detect
    <3>2. <<a, b>> \in Seq(Users) OBVIOUS
    <3>3. "DETECTED" \in Bodies BY DEF Bodies
    <3> QED BY <3>1, <3>2, <3>3 DEF ChannelMove
  <2>2. ASSUME NEW p \in Phones, NEW i \in Instructions, Tell(p, i) PROVE ChannelMove
    <3>1. i \in Bodies BY DEF Instructions, Instruction, Bodies
    <3>2. <<p>> \in Seq(Users) BY PhonesAssumption
    <3>3. Publish(<<p>>, i) BY <2>2 DEF Tell
    <3> QED BY <3>1, <3>2, <3>3 DEF ChannelMove
  <2> QED BY <1>2, <2>1, <2>2 DEF HandlerStep
<1>3. ASSUME NEW p \in Phones, NEW s \in Sockets, AcceptNext(p, s) PROVE ChannelMove
  <2>1. Accept(s, p) /\ p \in Users BY <1>3, PhonesAssumption DEF AcceptNext
  <2> QED BY <2>1 DEF ChannelMove
<1>4. ASSUME NEW p \in Phones, PhoneStep(p) PROVE Same \/ ChannelMove
  <2>1. CASE OpenScreen(p) BY <2>1, <1>0 DEF OpenScreen
  <2>2. CASE Connected(p) BY <2>2, <1>3 DEF Connected
  <2>3. CASE Lost(p) BY <2>3, <1>0 DEF Lost
  <2>4. CASE Arrive(p)
    <3>1. UNCHANGED <<manager, owner, at, broken, history>> BY <2>4 DEF Arrive
    <3> QED BY <3>1 DEF manager, history, Same, behindWire
  <2>5. CASE UNCHANGED channel BY <2>5, <1>0
  <2> QED BY <1>4, <2>1, <2>2, <2>3, <2>4, <2>5 DEF PhoneStep
<1>5. CASE Environment
  <2>1. CASE UNCHANGED channel BY <2>1, <1>0 DEF Same
  <2>2. CASE \E s \in Sockets : Break(s) BY <2>2 DEF ChannelMove
  <2>3. ASSUME NEW p \in Phones, OtherDevice(p) PROVE ChannelMove
    BY <2>3, <1>3 DEF OtherDevice
  <2> QED BY <1>5, <2>1, <2>2, <2>3 DEF Environment, ConnectEarlier, ConnectFails
<1> QED BY <1>1, <1>2, <1>4, <1>5 DEF Next, Same

LEMMA ChannelMoveKeeps ==
    ASSUME ChannelInv, ChannelMove
    PROVE  ChannelInv'
<1>1. CASE Loop
  BY <1>1, ScatterStep, StartForNobodyStep, StartStep, ContinueStep, FinishStep DEF Loop
<1> QED BY <1>1, AcceptStep, RegisterStep, EndStep, BreakStep, PublishStep DEF ChannelMove

LEMMA BehindWireKeeps ==
    ASSUME ChannelInv, UNCHANGED behindWire
    PROVE  ChannelInv'
BY DEF behindWire, ChannelInv, ChannelTypes, RegistryInv, NumberInv, NothingDropped,
       AloneInv, QueueInv, InOrder

LEMMA InitChannel == Init => ChannelInv
<1> SUFFICES ASSUME Init PROVE ChannelInv
    OBVIOUS
<1> USE DEF Init, ChannelInit
<1>1. <<>> \in Seq(Event) /\ <<>> \in Seq(Nat) /\ DOMAIN <<>> = {} OBVIOUS
<1>2. ChannelTypes BY <1>1 DEF ChannelTypes
<1>3. \A s \in Sockets : written[s] = <<>> /\ owed[s] = {} OBVIOUS
<1>4. RegistryInv /\ NumberInv BY <1>1, <1>3 DEF RegistryInv, NumberInv
<1>5. NothingDropped BY <1>3 DEF NothingDropped
<1>6. AloneInv /\ QueueInv BY <1>1, <1>3 DEF AloneInv, QueueInv
<1>7. InOrder BY <1>1, <1>3 DEF InOrder
<1> QED BY <1>2, <1>4, <1>5, <1>6, <1>7 DEF ChannelInv

\* The inductive invariant of the push channel: the registry holds every live
\* socket that is owed something, the queue is in the order of publication,
\* and a socket that waits for its turn in a send has had company.
THEOREM ChannelInvariant == Spec => []ChannelInv
<1>1. ChannelInv /\ [Next]_vars => ChannelInv'
  <2>1. ChannelInv /\ Next => ChannelInv'
    BY StepMovesChannel, ChannelMoveKeeps, BehindWireKeeps
  <2>2. UNCHANGED vars => UNCHANGED behindWire
    BY DEF vars, channel, manager, sockets, history, behindWire
  <2> QED BY <2>1, <2>2, BehindWireKeeps
<1> QED BY InitChannel, <1>1, PTL DEF Spec

\* Whatever other sockets of a user do, a live socket that was registered when
\* an event was published has it, or the loop is going to write it.
THEOREM NothingIsDropped == Spec => []NothingDropped
<1>1. ChannelInv => NothingDropped BY DEF ChannelInv
<1> QED BY <1>1, ChannelInvariant, PTL

\* The events for one user reach its only socket in the order of publication.
THEOREM EventsInOrder == Spec => []InOrder
<1>1. ChannelInv => InOrder BY DEF ChannelInv
<1> QED BY <1>1, ChannelInvariant, PTL

-----------------------------------------------------------------------------
(* The screens *)

\* What a screen does in one step, whoever causes it.
Move(p) ==
    \/ Open(p)
    \/ CloseTop(p)
    \/ Placed(p)
    \/ Timer(p)
    \/ \E added \in BOOLEAN : CallEvent(p, added)
    \/ \E a : HearDecision(p, a)
    \/ TapCancel(p)
    \/ \E done \in BOOLEAN : Cancelled(p, done)

DialTypes ==
    /\ shown \in [Phones -> {"not_yet", "mounted", "left"}]
    /\ placing \in [Phones -> Nat]
    /\ flag \in [Phones -> BOOLEAN]
    /\ dials \in [Phones -> Nat]
    /\ started \in [Phones -> BOOLEAN]
    /\ action = [p \in Phones |-> action[p]]

\* The screen asks for nothing before it is mounted, and then at most one
\* request to place a call has not returned, of which _isPlacingCall tells.
FlagTells(p) ==
    /\ shown[p] = "not_yet" => placing[p] = 0 /\ flag[p] = FALSE
    /\ shown[p] = "mounted" => \/ placing[p] = 0 /\ flag[p] = FALSE
                               \/ placing[p] = 1 /\ flag[p] = TRUE
    /\ placing[p] <= dials[p]

\* A screen that has heard PROCEED has asked for its call, or a call was there.
ProceedDialled(p) == action[p] = "PROCEED" => dials[p] > 0 \/ started[p]

DialInv == DialTypes /\ \A p \in Phones : FlagTells(p) /\ ProceedDialled(p)

-----------------------------------------------------------------------------

\* A step of the system moves one screen or none.
LEMMA StepMovesOne == Next => (UNCHANGED screen \/ \E p \in Phones : Move(p))
<1> SUFFICES ASSUME Next PROVE UNCHANGED screen \/ \E p \in Phones : Move(p)
    OBVIOUS
<1>1. CASE LoopStep BY <1>1 DEF LoopStep
<1>2. CASE HandlerStep BY <1>2 DEF HandlerStep, Detect, Tell
<1>3. ASSUME NEW p \in Phones, PhoneStep(p)
      PROVE  UNCHANGED screen \/ \E q \in Phones : Move(q)
  <2>1. CASE OpenScreen(p) BY <2>1 DEF OpenScreen, Move
  <2>2. CASE Connected(p) \/ Lost(p) BY <2>2 DEF Connected, Lost
  <2>3. CASE Arrive(p)
    <3>1. UNCHANGED screen \/ HearDecision(p, Head(wire[conn[p]])) BY <2>3 DEF Arrive
    <3> QED BY <3>1 DEF Move
  <2>4. CASE Timer(p) \/ Placed(p) \/ \E done \in BOOLEAN : Cancelled(p, done)
    BY <2>4 DEF Move
  <2> QED BY <1>3, <2>1, <2>2, <2>3, <2>4 DEF PhoneStep
<1>4. CASE Environment
  <2>1. CASE \E p \in Phones : CloseTop(p) \/ TapCancel(p) BY <2>1 DEF Move
  <2>2. CASE \E p \in Phones, added \in BOOLEAN : CallEvent(p, added) BY <2>2 DEF Move
  <2>3. CASE UNCHANGED screen BY <2>3
  <2> QED BY <1>4, <2>1, <2>2, <2>3
       DEF Environment, ConnectEarlier, ConnectFails, OtherDevice
<1> QED BY <1>1, <1>2, <1>3, <1>4 DEF Next

\* Showing and leaving a screen keeps what the other lemmas need.
LEMMA RouteMoves ==
    ASSUME DialTypes, NEW p \in Phones, shown[p] = "mounted", Pop(p) \/ Replace(p)
    PROVE  /\ shown' \in [Phones -> {"not_yet", "mounted", "left"}]
           /\ \A q \in Phones : shown'[q] = shown[q] \/ shown'[q] = "left"
BY DEF DialTypes, Pop, Replace

\* A move that asks for no call and sees none return.
LEMMA QuietMove ==
    ASSUME DialInv, NEW p \in Phones,
           UNCHANGED <<placing, flag, dials, action>>,
           started' \in [Phones -> BOOLEAN], \A q \in Phones : started[q] => started'[q],
           shown' \in [Phones -> {"not_yet", "mounted", "left"}],
           \A q \in Phones : shown'[q] = shown[q] \/ shown'[q] = "left" \/
                             (shown[q] = "not_yet" /\ shown'[q] = "mounted")
    PROVE  DialInv'
<1>1. DialTypes' BY DEF DialInv, DialTypes
<1>2. \A q \in Phones : FlagTells(q)' BY DEF DialInv, FlagTells
<1>3. \A q \in Phones : ProceedDialled(q)' BY DEF DialInv, ProceedDialled
<1> QED BY <1>1, <1>2, <1>3 DEF DialInv

\* A move that asks for a call, of a screen whose flag is down.
LEMMA PlacingMove ==
    ASSUME DialInv, NEW p \in Phones, Place(p), UNCHANGED <<shown, started>>,
           shown[p] = "mounted", flag[p] = FALSE,
           action' = [q \in Phones |-> action'[q]],
           \A q \in Phones \ {p} : action'[q] = action[q]
    PROVE  DialInv'
<1>1. placing[p] = 0 BY DEF DialInv, FlagTells
<1>2. dials[p] \in Nat /\ placing[p] + 1 = 1 /\ dials[p] + 1 >= 1 /\ dials[p] + 1 \in Nat
  <2>1. dials[p] \in Nat BY DEF DialInv, DialTypes
  <2> QED BY <1>1, <2>1
<1>3. /\ placing' = [placing EXCEPT ![p] = 1] /\ dials' = [dials EXCEPT ![p] = dials[p] + 1]
      /\ flag' = [flag EXCEPT ![p] = TRUE]
  BY <1>2 DEF Place
<1>4. DialTypes'
  BY <1>2, <1>3 DEF DialInv, DialTypes
<1>5. ASSUME NEW q \in Phones PROVE FlagTells(q)' /\ ProceedDialled(q)'
  <2>1. CASE q = p
    <3>1. placing'[p] = 1 /\ flag'[p] = TRUE /\ dials'[p] = dials[p] + 1
      BY <1>3 DEF DialInv, DialTypes
    <3> QED BY <1>2, <2>1, <3>1 DEF FlagTells, ProceedDialled
  <2>2. CASE q # p
    <3>1. /\ placing'[q] = placing[q] /\ flag'[q] = flag[q] /\ dials'[q] = dials[q]
          /\ action'[q] = action[q]
      BY <1>3, <2>2 DEF DialInv, DialTypes
    <3> QED BY <3>1 DEF DialInv, FlagTells, ProceedDialled
  <2> QED BY <2>1, <2>2
<1> QED BY <1>4, <1>5 DEF DialInv

\* Every move of a screen keeps the invariant.
LEMMA MoveKeeps ==
    ASSUME DialInv, NEW p \in Phones, Move(p)
    PROVE  DialInv'
<1>0. started \in [Phones -> BOOLEAN] /\ shown \in [Phones -> {"not_yet", "mounted", "left"}]
  BY DEF DialInv, DialTypes
<1>1. CASE Open(p)
  BY <1>0, <1>1, QuietMove DEF Open
<1>2. CASE CloseTop(p)
  BY <1>0, <1>2, RouteMoves, QuietMove DEF CloseTop, Mounted, DialInv, calling
<1>3. CASE Placed(p)
  <2>1. placing[p] \in Nat /\ placing[p] > 0 /\ dials[p] \in Nat /\ placing[p] <= dials[p]
    BY <1>3 DEF Placed, DialInv, DialTypes, FlagTells
  <2>2. placing[p] - 1 \in Nat /\ placing[p] - 1 <= dials[p] /\ (placing[p] = 1 => placing[p] - 1 = 0)
    BY <2>1
  <2>3. /\ placing' = [placing EXCEPT ![p] = placing[p] - 1]
        /\ flag' = [flag EXCEPT ![p] = IF Mounted(p) THEN FALSE ELSE flag[p]]
        /\ UNCHANGED <<shown, action, started, dials>>
    BY <1>3 DEF Placed, route
  <2>4. DialTypes'
    BY <2>2, <2>3 DEF DialInv, DialTypes
  <2>5. ASSUME NEW q \in Phones PROVE FlagTells(q)' /\ ProceedDialled(q)'
    <3>1. CASE q = p
      <4>1. placing'[p] = placing[p] - 1 /\ flag'[p] = IF Mounted(p) THEN FALSE ELSE flag[p]
        BY <2>3 DEF DialInv, DialTypes
      <4>2. shown[p] # "not_yet" /\ (shown[p] = "mounted" => placing[p] = 1)
        BY <2>1 DEF DialInv, FlagTells
      <4>3. shown'[p] = "mounted" => placing'[p] = 0 /\ flag'[p] = FALSE
        BY <2>2, <2>3, <4>1, <4>2 DEF Mounted
      <4>4. shown'[p] # "not_yet" /\ placing'[p] <= dials'[p]
        BY <2>2, <2>3, <4>1, <4>2
      <4> QED BY <2>3, <3>1, <4>3, <4>4 DEF FlagTells, ProceedDialled, DialInv
    <3>2. CASE q # p
      <4>1. placing'[q] = placing[q] /\ flag'[q] = flag[q]
        BY <2>3, <3>2 DEF DialInv, DialTypes
      <4> QED BY <2>3, <4>1 DEF FlagTells, ProceedDialled, DialInv
    <3> QED BY <3>1, <3>2
  <2> QED BY <2>4, <2>5 DEF DialInv
<1>4. CASE Timer(p)
  <2>1. CASE Mounted(p) /\ ~started[p] /\ ~flag[p] /\ action[p] # "STANDBY"
    <3>1. Place(p) /\ UNCHANGED <<shown, action, started>> BY <1>4, <2>1 DEF Timer, route
    <3>2. flag[p] = FALSE BY <2>1 DEF DialInv, DialTypes
    <3> QED BY <2>1, <3>1, <3>2, PlacingMove DEF Mounted, DialInv, DialTypes
  <2>2. CASE ~(Mounted(p) /\ ~started[p] /\ ~flag[p] /\ action[p] # "STANDBY")
    BY <1>0, <1>4, <2>2, QuietMove DEF Timer, route, DoNotPlace
  <2> QED BY <2>1, <2>2
<1>5. ASSUME NEW added \in BOOLEAN, CallEvent(p, added)
      PROVE  DialInv'
  <2>1. UNCHANGED <<placing, flag, dials, action>> BY <1>5 DEF CallEvent
  <2>2. started' \in [Phones -> BOOLEAN] /\ \A q \in Phones : started[q] => started'[q]
    BY <1>0, <1>5 DEF CallEvent
  <2>3. CASE added
    BY <1>5, <2>1, <2>2, <2>3, RouteMoves, QuietMove DEF CallEvent, Mounted, DialInv
  <2>4. CASE ~added
    BY <1>0, <1>5, <2>1, <2>2, <2>4, QuietMove DEF CallEvent, route
  <2> QED BY <2>3, <2>4
<1>6. ASSUME NEW a, HearDecision(p, a)
      PROVE  DialInv'
  <2>1. UNCHANGED <<shown, started>> BY <1>6 DEF HearDecision
  <2>2. /\ action' = [q \in Phones |-> action'[q]]
        /\ \A q \in Phones \ {p} : action'[q] = action[q]
        /\ action'[p] = IF Mounted(p) THEN a ELSE action[p]
    BY <1>6 DEF HearDecision, DialInv, DialTypes
  <2>3. CASE Mounted(p) /\ a = "PROCEED" /\ ~started[p] /\ ~flag[p]
    <3>1. Place(p) BY <1>6, <2>3 DEF HearDecision, Proceed
    <3>2. flag[p] = FALSE BY <2>3 DEF DialInv, DialTypes
    <3> QED BY <2>1, <2>2, <2>3, <3>1, <3>2, PlacingMove DEF Mounted
  <2>4. CASE ~(Mounted(p) /\ a = "PROCEED" /\ ~started[p] /\ ~flag[p])
    <3>1. UNCHANGED <<placing, flag, dials>>
      BY <1>6, <2>4 DEF HearDecision, Proceed, DoNotPlace
    <3>2. DialTypes' /\ \A q \in Phones : FlagTells(q)'
      BY <2>1, <2>2, <3>1 DEF DialInv, DialTypes, FlagTells
    <3>3. Mounted(p) /\ flag[p] => dials[p] > 0
      <4>1. SUFFICES ASSUME Mounted(p), flag[p] PROVE dials[p] > 0
        OBVIOUS
      <4>2. placing[p] = 1 /\ dials[p] \in Nat /\ placing[p] <= dials[p]
        BY <4>1 DEF DialInv, DialTypes, FlagTells, Mounted
      <4> QED BY <4>2
    <3>4. \A q \in Phones : ProceedDialled(q)'
      BY <2>1, <2>2, <2>4, <3>1, <3>3 DEF DialInv, ProceedDialled
    <3> QED BY <3>2, <3>4 DEF DialInv
  <2> QED BY <2>3, <2>4
<1>7. CASE TapCancel(p)
  BY <1>0, <1>7, QuietMove DEF TapCancel, route, calling
<1>8. ASSUME NEW done \in BOOLEAN, Cancelled(p, done)
      PROVE  DialInv'
  <2>1. UNCHANGED <<placing, flag, dials, action, started>> BY <1>8 DEF Cancelled, calling
  <2>2. CASE Mounted(p)
    BY <1>0, <1>8, <2>1, <2>2, RouteMoves, QuietMove DEF Cancelled, Mounted, DialInv
  <2>3. CASE ~Mounted(p) BY <1>0, <1>8, <2>1, <2>3, QuietMove DEF Cancelled, route
  <2> QED BY <2>2, <2>3
<1> QED BY <1>1, <1>2, <1>3, <1>4, <1>5, <1>6, <1>7, <1>8 DEF Move

\* Steps that move no screen, stuttering included.
LEMMA IdleKeeps ==
    ASSUME DialInv, UNCHANGED screen
    PROVE  DialInv'
BY DEF screen, route, calling, DialInv, DialTypes, FlagTells, ProceedDialled

LEMMA InitDials == Init => DialInv
BY DEF Init, ScreenInit, DialInv, DialTypes, FlagTells, ProceedDialled

-----------------------------------------------------------------------------

\* _isPlacingCall of a mounted screen is raised exactly while one request to
\* place a call has not returned, in every state of the system, although it is
\* lowered by whichever request returns; and a screen whose last instruction is
\* PROCEED has asked for a call, unless the telephone has reported one.
THEOREM FlagIsRight == Spec => []DialInv
<1>1. DialInv /\ [Next]_vars => DialInv'
  BY StepMovesOne, MoveKeeps, IdleKeeps DEF vars
<1> QED BY InitDials, <1>1, PTL DEF Spec

=============================================================================
