---------------------------- MODULE Delivery_proofs ----------------------------
(***************************************************************************)
(* From the server's queue to the calling screen: TypeOK of the whole      *)
(* system and InstructionHeard, for any users, phones, sockets and bounds. *)
(*                                                                         *)
(* The argument follows one instruction.  Nothing drops it on its way to   *)
(* the line of the phone, nothing older is written after it                *)
(* (PushChannel_proofs), and on the line it is the last instruction until  *)
(* the screen has it; what carries the number of a user's last instruction *)
(* says what that instruction says.                                        *)
(* What the screen has heard then decides which calls it asks for.         *)
(***************************************************************************)
EXTENDS Coordination_proofs

Overlays == {"sheet", "incall"}

-----------------------------------------------------------------------------
(* Types *)

\* The screens.
ScreenTypes ==
    /\ ScreenTypeOK
    /\ above \in [Phones -> Seq(Overlays)]

\* Events are numbered from 1, and a connection belongs to a user.
NumberTypes ==
    /\ looping \in BOOLEAN
    /\ published \in 0 .. MaxEvents
    /\ \A i \in DOMAIN ready : ready[i].event >= 1
    /\ \A t \in sending : t.event >= 1
    /\ \A s \in Sockets : owed[s] \subseteq 1 .. published
    /\ \A s \in Sockets : at[s] \in {"accepted", "serving"} => owner[s] \in Users
    /\ wire \in [Sockets -> Seq(Bodies)]

Told == [event : 0 .. MaxEvents, says : Instructions \cup {"none"}, open : BOOLEAN]

\* The phones' connections and what their users were told.
PhoneTypes ==
    /\ conn \in [Phones -> Sockets \cup {NoSocket, Connecting}]
    /\ detected \in BOOLEAN
    /\ last \in [Phones -> Told]

\* A phone that believes to have a line has one that the server has accepted
\* for its user, unless the line is dead.
LineInv ==
    \A p \in Phones : conn[p] \in Sockets \ broken =>
        owner[conn[p]] = p /\ at[conn[p]] # "unused"

TypesInv == ScreenTypes /\ NumberTypes /\ PhoneTypes /\ LineInv

-----------------------------------------------------------------------------
(* The way of an instruction *)

\* A message with number n and this body, bound for user u, when these numbers
\* are the ones of personal events: a detected pair is not personal, and an
\* instruction is the last one its user was told or an earlier one.
Carried(numbers, told, u, n, body) ==
    IF body = "DETECTED" THEN n \notin numbers
    ELSE /\ u \in Phones /\ n \in numbers
         /\ n <= told[u].event
         /\ n = told[u].event => body = told[u].says

\* Every message in the queue, for each of its receivers, and in a send.
QueuedSays == \A i \in DOMAIN ready : \A k \in DOMAIN ready[i].to :
                 Carried(personal, last, ready[i].to[k], ready[i].event, ready[i].body)
SentSays == \A t \in sending : Carried(personal, last, t.user, t.event, t.body)

CarriedInv == QueuedSays /\ SentSays

\* The last instruction has a number that was published, and a screen that was
\* open when that was is not waiting to be opened.
LastInv ==
    \A p \in Phones :
        /\ last[p].event <= published
        /\ last[p].open => last[p].event \in personal /\ shown[p] # "not_yet"

\* The messages of a line, oldest first: no instruction is among them, or the
\* last that is among them is this one.
NoneIn(w) == \A i \in DOMAIN w : w[i] = "DETECTED"
LastIn(w, instruction) ==
    /\ instruction # "DETECTED"
    /\ \E i \in DOMAIN w : /\ w[i] = instruction
                           /\ \A j \in DOMAIN w : i < j => w[j] = "DETECTED"

\* The screen of phone p has the instruction, or will when its line is empty.
Hears(p, w, instruction) ==
    LastIn(w, instruction) \/ (NoneIn(w) /\ action[p] = instruction)

\* Once an instruction a phone may rely on is written to its line, no other
\* instruction comes after it.
HeardInv ==
    \A p \in Phones :
        Entitled(p) /\ last[p].event \in Range(written[conn[p]])
            => Hears(p, wire[conn[p]], last[p].says)

WayInv == CarriedInv /\ LastInv /\ HeardInv

DeliveryInv == ChannelInv /\ TypesInv /\ WayInv

-----------------------------------------------------------------------------
(* The screens keep their types *)

LEMMA RouteTypes ==
    ASSUME ScreenTypes, NEW p \in Phones, Pop(p) \/ Replace(p)
    PROVE  /\ shown' \in [Phones -> {"not_yet", "mounted", "left"}]
           /\ above' \in [Phones -> Seq(Overlays)]
<1> USE DEF ScreenTypes, ScreenTypeOK
<1>1. shown' \in [Phones -> {"not_yet", "mounted", "left"}] BY DEF Pop, Replace
<1>2. above[p] \in Seq(Overlays) OBVIOUS
<1>3. ASSUME above[p] # <<>>
      PROVE  /\ SubSeq(above[p], 1, Len(above[p]) - 1) \in Seq(Overlays)
             /\ [above[p] EXCEPT ![Len(above[p])] = "incall"] \in Seq(Overlays)
  <2>1. "incall" \in Overlays BY DEF Overlays
  <2>2. Len(above[p]) \in Nat \ {0} BY <1>2, <1>3, EmptySeq
  <2>3. \A i \in 1 .. Len(above[p]) - 1 : above[p][i] \in Overlays
    BY <1>2, <2>2, ElementOfSeq
  <2>4. SubSeq(above[p], 1, Len(above[p]) - 1) \in Seq(Overlays)
    BY <2>2, <2>3, SubSeqProperties
  <2>5. [above[p] EXCEPT ![Len(above[p])] = "incall"] \in Seq(Overlays)
    BY <1>2, <2>1, <2>2, ExceptSeq
  <2> QED BY <2>4, <2>5
<1>4. above' \in [Phones -> Seq(Overlays)]
  <2>1. CASE UNCHANGED above BY <2>1
  <2>2. CASE /\ above[p] # <<>>
             /\ above' = [above EXCEPT ![p] = SubSeq(@, 1, Len(@) - 1)]
    BY <1>3, <2>2
  <2>3. CASE /\ above[p] # <<>>
             /\ above' = [above EXCEPT ![p] = [@ EXCEPT ![Len(@)] = "incall"]]
    BY <1>3, <2>3
  <2> QED BY <2>1, <2>2, <2>3 DEF Pop, Replace
<1> QED BY <1>1, <1>4

\* Types are left when all but the routes and one other part keep their value.
LEMMA ScreenParts ==
    ASSUME shown' \in [Phones -> {"not_yet", "mounted", "left"}],
           above' \in [Phones -> Seq(Overlays)],
           timer' \in [Phones -> BOOLEAN],
           action' \in [Phones -> Actions \cup {"none"}],
           started' \in [Phones -> BOOLEAN], listening' \in [Phones -> BOOLEAN],
           placing' \in [Phones -> Nat], flag' \in [Phones -> BOOLEAN],
           cancels' \in [Phones -> Nat], disabled' \in [Phones -> BOOLEAN],
           dials' \in [Phones -> Nat]
    PROVE  ScreenTypes'
<1>1. ASSUME NEW p \in Phones, NEW i \in DOMAIN above'[p] PROVE above'[p][i] \in {"sheet", "incall"}
  <2>1. above'[p] \in Seq(Overlays) OBVIOUS
  <2>2. i \in 1 .. Len(above'[p]) BY <1>1, <2>1, LenProperties
  <2> QED BY <2>1, <2>2, ElementOfSeq DEF Overlays
<1> QED BY <1>1 DEF ScreenTypes, ScreenTypeOK

\* Placing a call, or none.
LEMMA PlaceTypes ==
    ASSUME ScreenTypes, NEW p \in Phones, Place(p) \/ DoNotPlace
    PROVE  placing' \in [Phones -> Nat] /\ flag' \in [Phones -> BOOLEAN] /\ dials' \in [Phones -> Nat]
<1>1. placing[p] + 1 \in Nat /\ dials[p] + 1 \in Nat
  <2>1. placing[p] \in Nat /\ dials[p] \in Nat BY DEF ScreenTypes, ScreenTypeOK
  <2> QED BY <2>1
<1> QED BY <1>1 DEF ScreenTypes, ScreenTypeOK, Place, DoNotPlace

\* Asking the server to cancel, or not.
LEMMA CancelTypes ==
    ASSUME ScreenTypes, NEW p \in Phones, StartCancel(p) \/ UNCHANGED cancelling
    PROVE  cancels' \in [Phones -> Nat] /\ disabled' \in [Phones -> BOOLEAN]
<1>1. cancels[p] + 1 \in Nat
  <2>1. cancels[p] \in Nat BY DEF ScreenTypes, ScreenTypeOK
  <2> QED BY <2>1
<1> QED BY <1>1 DEF ScreenTypes, ScreenTypeOK, StartCancel, cancelling

\* An event that arrives covers the screen, or not.
LEMMA CoverTypes ==
    ASSUME ScreenTypes, NEW p \in Phones, Cover(p) \/ UNCHANGED above
    PROVE  above' \in [Phones -> Seq(Overlays)]
<1>1. Append(above[p], "sheet") \in Seq(Overlays)
  <2>1. above[p] \in Seq(Overlays) /\ "sheet" \in Overlays BY DEF ScreenTypes, Overlays
  <2> QED BY <2>1, AppendProperties
<1> QED BY <1>1 DEF ScreenTypes, Cover

\* The steps of a screen other than hearing a decision: they also leave
\* _decisionAction alone, and only initState makes a screen a mounted one.
LEMMA ScreenStep ==
    ASSUME ScreenTypes, NEW p \in Phones,
           \/ Open(p) \/ CloseTop(p) \/ TapCancel(p) \/ Timer(p) \/ Placed(p)
           \/ \E added \in BOOLEAN : CallEvent(p, added)
           \/ \E done \in BOOLEAN : Cancelled(p, done)
    PROVE  /\ ScreenTypes' /\ action' = action
           /\ \A q \in Phones : /\ shown'[q] = "mounted" => shown[q] \in {"mounted", "not_yet"}
                                /\ shown'[q] = "not_yet" => shown[q] = "not_yet"
<1> DEFINE Kept == \A q \in Phones : /\ shown'[q] = "mounted" => shown[q] \in {"mounted", "not_yet"}
                                     /\ shown'[q] = "not_yet" => shown[q] = "not_yet"
<1>0. ASSUME Pop(p) \/ Replace(p) PROVE Kept
  BY <1>0 DEF Pop, Replace, ScreenTypes, ScreenTypeOK
<1>1. CASE Open(p)
  BY <1>1, ScreenParts DEF Open, ScreenTypes, ScreenTypeOK, cancelling
<1>2. CASE CloseTop(p)
  <2>1. ScreenTypes'
    BY <1>2, RouteTypes, ScreenParts DEF CloseTop, ScreenTypes, ScreenTypeOK, cancelling, calling
  <2> QED BY <1>0, <1>2, <2>1 DEF CloseTop
<1>3. CASE TapCancel(p)
  BY <1>3, CancelTypes, ScreenParts DEF TapCancel, ScreenTypes, ScreenTypeOK, route, calling
<1>4. CASE Timer(p)
  <2>1. Place(p) \/ DoNotPlace BY <1>4 DEF Timer
  <2> QED BY <1>4, <2>1, PlaceTypes, ScreenParts DEF Timer, ScreenTypes, ScreenTypeOK, route, cancelling
<1>5. CASE Placed(p)
  <2>1. \A n \in Nat : n > 0 => n - 1 \in Nat OBVIOUS
  <2>2. placing[p] - 1 \in Nat BY <1>5, <2>1 DEF Placed, ScreenTypes, ScreenTypeOK
  <2>3. placing' \in [Phones -> Nat] BY <1>5, <2>2 DEF Placed, ScreenTypes, ScreenTypeOK
  <2>4. flag' \in [Phones -> BOOLEAN] BY <1>5 DEF Placed, ScreenTypes, ScreenTypeOK
  <2> QED BY <1>5, <2>3, <2>4, ScreenParts DEF Placed, ScreenTypes, ScreenTypeOK, route, cancelling
<1>6. ASSUME NEW added \in BOOLEAN, CallEvent(p, added)
      PROVE  ScreenTypes' /\ action' = action /\ Kept
  <2>1. CASE added
    <3>1. ScreenTypes'
      BY <1>6, <2>1, RouteTypes, ScreenParts DEF CallEvent, ScreenTypes, ScreenTypeOK, cancelling
    <3> QED BY <1>0, <1>6, <2>1, <3>1 DEF CallEvent
  <2>2. CASE ~added
    BY <1>6, <2>2, ScreenParts DEF CallEvent, ScreenTypes, ScreenTypeOK, cancelling, route
  <2> QED BY <2>1, <2>2
<1>7. ASSUME NEW done \in BOOLEAN, Cancelled(p, done)
      PROVE  ScreenTypes' /\ action' = action /\ Kept
  <2>1. \A n \in Nat : n > 0 => n - 1 \in Nat OBVIOUS
  <2>2. cancels[p] - 1 \in Nat BY <1>7, <2>1 DEF Cancelled, ScreenTypes, ScreenTypeOK
  <2>3. cancels' \in [Phones -> Nat] BY <1>7, <2>2 DEF Cancelled, ScreenTypes, ScreenTypeOK
  <2>4. CASE Mounted(p)
    <3>1. disabled' \in [Phones -> BOOLEAN] BY <1>7, <2>4 DEF Cancelled, ScreenTypes, ScreenTypeOK
    <3>2. Pop(p) BY <1>7, <2>4 DEF Cancelled
    <3>3. ScreenTypes'
      BY <1>7, <2>3, <3>1, <3>2, RouteTypes, ScreenParts DEF Cancelled, ScreenTypes, ScreenTypeOK, calling
    <3> QED BY <1>0, <1>7, <3>2, <3>3 DEF Cancelled
  <2>5. CASE ~Mounted(p)
    BY <1>7, <2>3, <2>5, ScreenParts DEF Cancelled, ScreenTypes, ScreenTypeOK, calling, route
  <2> QED BY <2>4, <2>5
<1> QED BY <1>1, <1>2, <1>3, <1>4, <1>5, <1>6, <1>7

\* The screen hears a decision: while it is mounted that is the one it keeps.
LEMMA HearStep ==
    ASSUME ScreenTypes, NEW p \in Phones, NEW a \in Actions, HearDecision(p, a)
    PROVE  /\ ScreenTypes' /\ shown' = shown
           /\ Mounted(p) => action'[p] = a
           /\ \A q \in Phones : q # p => action'[q] = action[q]
<1>1. shown' = shown BY DEF HearDecision
<1>2. /\ action' \in [Phones -> Actions \cup {"none"}]
      /\ Mounted(p) => action'[p] = a
      /\ \A q \in Phones : q # p => action'[q] = action[q]
  BY DEF HearDecision, ScreenTypes, ScreenTypeOK
<1>3. Place(p) \/ DoNotPlace BY DEF HearDecision, Proceed
<1>4. Cover(p) \/ UNCHANGED above BY DEF HearDecision
<1>5. StartCancel(p) \/ UNCHANGED cancelling BY DEF HearDecision
<1>6. ScreenTypes'
  BY <1>1, <1>2, <1>3, <1>4, <1>5, PlaceTypes, CoverTypes, CancelTypes, ScreenParts
  DEF HearDecision, ScreenTypes, ScreenTypeOK
<1> QED BY <1>1, <1>2, <1>6

-----------------------------------------------------------------------------
(* The messages of a line *)

\* An instruction that is written is the last one on the line.
LEMMA LastWritten ==
    ASSUME NEW w \in Seq(Bodies), NEW x \in Bodies, x # "DETECTED"
    PROVE  LastIn(Append(w, x), x)
<1>1. /\ DOMAIN Append(w, x) = 1 .. Len(w) + 1 /\ Len(w) \in Nat
      /\ Append(w, x)[Len(w) + 1] = x
  BY Appended
<1>2. Len(w) + 1 \in DOMAIN Append(w, x) BY <1>1
<1>3. \A j \in DOMAIN Append(w, x) : ~(Len(w) + 1 < j) BY <1>1
<1> QED BY <1>1, <1>2, <1>3 DEF LastIn

\* RECIPROCAL_DETECTED behind an instruction takes nothing from it.
LEMMA DetectedWritten ==
    ASSUME NEW p, NEW w \in Seq(Bodies), NEW x, Hears(p, w, x)
    PROVE  Hears(p, Append(w, "DETECTED"), x)
<1> DEFINE v == Append(w, "DETECTED")
<1>0. "DETECTED" \in Bodies BY DEF Bodies
<1>1. /\ DOMAIN v = 1 .. Len(w) + 1 /\ Len(w) \in Nat /\ DOMAIN w = 1 .. Len(w)
      /\ v[Len(w) + 1] = "DETECTED"
      /\ \A i \in 1 .. Len(w) : v[i] = w[i]
  BY <1>0, Appended
<1> HIDE DEF v
<1>2. \A j \in DOMAIN v : v[j] = "DETECTED" \/ (j \in DOMAIN w /\ v[j] = w[j])
  BY <1>1
<1>3. CASE LastIn(w, x)
  <2>1. PICK i \in DOMAIN w : w[i] = x /\ \A j \in DOMAIN w : i < j => w[j] = "DETECTED"
    BY <1>3 DEF LastIn
  <2>2. i \in DOMAIN v /\ v[i] = x BY <1>1, <2>1
  <2>3. \A j \in DOMAIN v : i < j => v[j] = "DETECTED" BY <1>2, <2>1
  <2> QED BY <1>3, <2>2, <2>3 DEF LastIn, Hears, v
<1>4. CASE NoneIn(w) /\ action[p] = x
  BY <1>2, <1>4 DEF NoneIn, Hears, v
<1> QED BY <1>3, <1>4 DEF Hears

\* What is left of a line when its first message is taken.
LEMMA FirstTaken ==
    ASSUME NEW w \in Seq(Bodies), w # <<>>, NEW x
    PROVE  /\ LastIn(w, x) => LastIn(Tail(w), x) \/ (NoneIn(Tail(w)) /\ Head(w) = x)
           /\ NoneIn(w) => NoneIn(Tail(w)) /\ Head(w) = "DETECTED"
<1> DEFINE v == Tail(w)
<1>1. /\ Head(w) = w[1] /\ Len(w) \in Nat \ {0} /\ DOMAIN w = 1 .. Len(w)
      /\ DOMAIN v = 1 .. Len(w) - 1
      /\ \A i \in 1 .. Len(w) - 1 : v[i] = w[i + 1]
  BY Shortened
<1> HIDE DEF v
<1>2. \A i \in DOMAIN v : i + 1 \in DOMAIN w /\ v[i] = w[i + 1] /\ 1 < i + 1
  BY <1>1
<1>3. ASSUME LastIn(w, x) PROVE LastIn(v, x) \/ (NoneIn(v) /\ Head(w) = x)
  <2>1. PICK i \in DOMAIN w : w[i] = x /\ \A j \in DOMAIN w : i < j => w[j] = "DETECTED"
    BY <1>3 DEF LastIn
  <2>2. CASE i = 1 BY <1>1, <1>2, <2>1, <2>2 DEF NoneIn
  <2>3. CASE i # 1
    <3>1. i - 1 \in DOMAIN v /\ v[i - 1] = x
      <4>1. i - 1 \in 1 .. Len(w) - 1 /\ (i - 1) + 1 = i BY <1>1, <2>3
      <4> QED BY <1>1, <2>1, <4>1
    <3>2. \A j \in DOMAIN v : i - 1 < j => v[j] = "DETECTED"
      <4>1. \A j \in DOMAIN v : i - 1 < j => i < j + 1 BY <1>1
      <4> QED BY <1>2, <2>1, <4>1
    <3> QED BY <1>3, <3>1, <3>2 DEF LastIn
  <2> QED BY <2>2, <2>3
<1>4. ASSUME NoneIn(w) PROVE NoneIn(v) /\ Head(w) = "DETECTED"
  BY <1>1, <1>2, <1>4 DEF NoneIn
<1> QED BY <1>3, <1>4 DEF v

\* What a send does to the lines.
LEMMA WireFacts ==
    ASSUME NumberTypes, NEW s \in Sockets, NEW e, NEW body \in Bodies, NEW fails,
           Write(s, e, body, fails)
    PROVE  /\ wire' \in [Sockets -> Seq(Bodies)]
           /\ \A r \in Sockets : r # s \/ s \in broken => wire'[r] = wire[r]
           /\ s \notin broken => wire'[s] = Append(wire[s], body)
<1>1. Append(wire[s], body) \in Seq(Bodies)
  <2>1. wire[s] \in Seq(Bodies) BY DEF NumberTypes
  <2> QED BY <2>1, Appended
<1> QED BY <1>1 DEF Write, NumberTypes

-----------------------------------------------------------------------------
(* The channel keeps its types *)

LEMMA ConnectionTypes ==
    ASSUME ChannelInv, NumberTypes, NEW s \in Sockets,
           (\E u \in Users : Accept(s, u)) \/ Register(s) \/ End(s) \/ Break(s)
    PROVE  NumberTypes'
<1> USE DEF NumberTypes, ChannelInv, ChannelTypes
<1>1. ASSUME NEW u \in Users, Accept(s, u) PROVE NumberTypes'
  BY <1>1 DEF Accept, manager, history
<1>2. CASE Register(s) BY <1>2 DEF Register
<1>3. CASE End(s) BY <1>3 DEF End, history
<1>4. CASE Break(s)
  <2>1. <<>> \in Seq(Bodies) OBVIOUS
  <2>2. wire' \in [Sockets -> Seq(Bodies)] BY <1>4, <2>1 DEF Break
  <2>3. \A r \in Sockets : owed'[r] \subseteq 1 .. published BY <1>4 DEF Break
  <2> QED BY <1>4, <2>2, <2>3 DEF Break, manager
<1> QED BY <1>1, <1>2, <1>3, <1>4

LEMMA PublishTypes ==
    ASSUME ChannelInv, NumberTypes, NEW to \in Seq(Users), NEW body \in Bodies,
           Publish(to, body), published < MaxEvents
    PROVE  NumberTypes'
<1>0. published \in Nat /\ published' = published + 1 /\ published' \in 0 .. MaxEvents
      /\ 1 .. published \subseteq 1 .. published'
      /\ published + 1 \in 1 .. published' /\ published + 1 >= 1
  BY BoundsAssumption DEF Publish, NumberTypes
<1>1. \A i \in DOMAIN ready' : ready'[i].event >= 1
  <2> DEFINE m == [event |-> published + 1, to |-> to, body |-> body]
  <2>1. CASE ~looping BY <2>1 DEF Publish, NumberTypes
  <2>2. CASE looping
    <3>1. m \in Event /\ ready \in Seq(Event) BY <1>0 DEF Event, ChannelInv, ChannelTypes
    <3>2. ready' = Append(ready, m) BY <2>2 DEF Publish
    <3>3. m.event >= 1 BY <1>0
    <3> HIDE DEF m
    <3>4. /\ DOMAIN ready' = 1 .. Len(ready) + 1 /\ DOMAIN ready = 1 .. Len(ready)
          /\ Len(ready) \in Nat
          /\ \A i \in 1 .. Len(ready) : ready'[i] = ready[i]
          /\ ready'[Len(ready) + 1] = m
      BY <3>1, <3>2, Appended
    <3> QED BY <3>3, <3>4 DEF NumberTypes
  <2> QED BY <2>1, <2>2
<1>2. \A s \in Sockets : owed'[s] \subseteq 1 .. published'
  <2>1. \A s \in Sockets : owed'[s] \subseteq owed[s] \cup {published + 1}
    BY DEF Publish, ChannelInv, ChannelTypes
  <2>2. \A s \in Sockets : owed[s] \subseteq 1 .. published'
    BY <1>0 DEF NumberTypes
  <2> QED BY <1>0, <2>1, <2>2
<1> QED BY <1>0, <1>1, <1>2 DEF Publish, NumberTypes, sockets

LEMMA LoopTypes ==
    ASSUME ChannelInv, NumberTypes, Loop
    PROVE  NumberTypes'
<1> DEFINE Rest == UNCHANGED <<looping, published, owed, at, owner>>
<1>1. CASE Scatter
  <2>1. Rest /\ UNCHANGED <<sending, wire>> BY <1>1 DEF Scatter, sockets, history
  <2>2. \A i \in DOMAIN ready' : ready'[i].event >= 1
    BY <1>1, Scattered DEF NumberTypes
  <2> QED BY <2>1, <2>2 DEF NumberTypes
<1>2. ASSUME ready # <<>>, ready' = Tail(ready)
      PROVE  /\ \A i \in DOMAIN ready' : ready'[i].event >= 1
             /\ Head(ready).event >= 1 /\ Head(ready) \in Event
  BY <1>2, TakeHead DEF NumberTypes
<1>3. CASE StartForNobody
  BY <1>2, <1>3 DEF StartForNobody, NumberTypes, sockets, history
<1>4. ASSUME NEW s \in Sockets, NEW fails \in BOOLEAN, Start(s, fails) PROVE NumberTypes'
  <2>1. Rest /\ ready # <<>> /\ ready' = Tail(ready)
        /\ Write(s, Head(ready).event, Head(ready).body, fails)
        /\ \A t \in sending' : t \in sending \/ t.event = Head(ready).event
    BY <1>4 DEF Start
  <2>2. Head(ready).body \in Bodies BY <1>2, <2>1 DEF Event
  <2>3. wire' \in [Sockets -> Seq(Bodies)] BY <2>1, <2>2, WireFacts
  <2> QED BY <1>2, <2>1, <2>3 DEF NumberTypes
<1>5. ASSUME NEW t \in sending, NEW s \in Sockets, NEW fails \in BOOLEAN, Continue(t, s, fails)
      PROVE  NumberTypes'
  <2>1. t \in Task BY DEF ChannelInv, ChannelTypes
  <2>2. Rest /\ UNCHANGED ready /\ Write(s, t.event, t.body, fails)
        /\ \A r \in sending' : r \in sending \/ r.event = t.event
    BY <1>5, <2>1 DEF Continue, Task
  <2>3. wire' \in [Sockets -> Seq(Bodies)] BY <2>1, <2>2, WireFacts DEF Task
  <2> QED BY <2>2, <2>3 DEF NumberTypes
<1>6. ASSUME NEW t \in sending, Finish(t) PROVE NumberTypes'
  BY <1>6 DEF Finish, NumberTypes, sockets, history
<1> QED BY <1>1, <1>3, <1>4, <1>5, <1>6 DEF Loop

-----------------------------------------------------------------------------
(* What the messages under way say *)

LEMMA CarriedKept ==
    ASSUME CarriedInv, UNCHANGED <<ready, sending, personal, last>>
    PROVE  CarriedInv'
BY DEF CarriedInv, QueuedSays, SentSays

LEMMA CarriedLoop ==
    ASSUME ChannelInv, CarriedInv, Loop, UNCHANGED last
    PROVE  CarriedInv'
<1> USE DEF CarriedInv, QueuedSays, SentSays
<1>1. UNCHANGED personal
  BY DEF Loop, Scatter, StartForNobody, Start, Continue, Finish, history
<1>2. ASSUME ready # <<>>, ready' = Tail(ready)
      PROVE  QueuedSays'
  BY <1>1, <1>2, TakeHead
<1>3. CASE Scatter
  <2>1. UNCHANGED sending BY <1>3 DEF Scatter
  <2>2. ASSUME NEW i \in DOMAIN ready', NEW k \in DOMAIN ready'[i].to
        PROVE  Carried(personal, last, ready'[i].to[k], ready'[i].event, ready'[i].body)
    <3>1. CASE i + 1 \in DOMAIN ready /\ ready'[i] = ready[i + 1]
      BY <2>2, <3>1
    <3>2. CASE /\ ready'[i].event = ready[1].event /\ ready'[i].body = ready[1].body
               /\ \E m \in DOMAIN ready[1].to : ready'[i].to = <<ready[1].to[m]>>
      <4>1. PICK m \in DOMAIN ready[1].to : ready'[i].to = <<ready[1].to[m]>>
        BY <3>2
      <4>2. ready'[i].to[k] = ready[1].to[m] BY <2>2, <4>1
      <4>3. 1 \in DOMAIN ready BY <1>3, Scattered
      <4> QED BY <3>2, <4>2, <4>3
    <3> QED BY <1>3, <3>1, <3>2, Scattered
  <2> QED BY <1>1, <2>1, <2>2
<1>4. CASE StartForNobody
  BY <1>1, <1>2, <1>4 DEF StartForNobody
<1>5. ASSUME NEW s \in Sockets, NEW fails \in BOOLEAN, Start(s, fails) PROVE CarriedInv'
  <2>1. ready # <<>> /\ ready' = Tail(ready) /\ Direct(Head(ready))
    BY <1>5 DEF Start
  <2>2. ASSUME NEW t \in sending', t \notin sending
        PROVE  t.event = Head(ready).event /\ t.body = Head(ready).body /\ t.user = Head(ready).to[1]
    BY <1>5, <2>2 DEF Start
  <2>3. Head(ready) = ready[1] /\ 1 \in DOMAIN ready /\ ready[1] \in Event
    BY <2>1, TakeHead
  <2>4. 1 \in DOMAIN ready[1].to
    <3>1. ready[1].to \in Seq(Users) /\ Len(ready[1].to) = 1 BY <2>1, <2>3 DEF Direct, Event
    <3> QED BY <3>1, LenProperties
  <2>5. Carried(personal, last, ready[1].to[1], ready[1].event, ready[1].body)
    BY <2>3, <2>4
  <2>6. SentSays' BY <1>1, <2>2, <2>3, <2>5
  <2> QED BY <1>2, <2>1, <2>6
<1>6. ASSUME NEW t \in sending, NEW s \in Sockets, NEW fails \in BOOLEAN, Continue(t, s, fails)
      PROVE  CarriedInv'
  <2> DEFINE failed == {d \in {s} : fails}
             rest == [t EXCEPT !.todo = @ \ {s}, !.dead = @ \cup failed]
  <2>1. UNCHANGED ready /\ sending' = (sending \ {t}) \cup {rest} BY <1>6 DEF Continue
  <2>2. t \in Task BY DEF ChannelInv, ChannelTypes
  <2> HIDE DEF failed
  <2>3. rest.event = t.event /\ rest.body = t.body /\ rest.user = t.user BY <2>2 DEF Task
  <2> HIDE DEF rest
  <2> QED BY <1>1, <2>1, <2>3
<1>7. ASSUME NEW t \in sending, Finish(t) PROVE CarriedInv'
  BY <1>1, <1>7 DEF Finish
<1> QED BY <1>3, <1>4, <1>5, <1>6, <1>7 DEF Loop

\* A message that is published joins the others.
LEMMA CarriedPublish ==
    ASSUME ChannelInv, CarriedInv, NEW to \in Seq(Users), NEW body \in Bodies,
           Publish(to, body),
           \A u, b : \A n \in Nat :
              (n <= published /\ Carried(personal, last, u, n, b)) => Carried(personal', last', u, n, b),
           \A k \in DOMAIN to : Carried(personal', last', to[k], published + 1, body)
    PROVE  CarriedInv'
<1> DEFINE m == [event |-> published + 1, to |-> to, body |-> body]
<1> USE DEF CarriedInv, QueuedSays, SentSays
<1>1. SentSays'
  <2>1. UNCHANGED sending BY DEF Publish
  <2>2. \A t \in sending : t.event \in Nat /\ t.event <= published
    BY DEF ChannelInv, ChannelTypes, NumberInv, Task
  <2> QED BY <2>1, <2>2
<1>2. \A i \in DOMAIN ready : \A k \in DOMAIN ready[i].to :
          Carried(personal', last', ready[i].to[k], ready[i].event, ready[i].body)
  <2>1. \A i \in DOMAIN ready : ready[i].event \in Nat /\ ready[i].event <= published
    <3>1. \A i \in DOMAIN ready : ready[i] \in Event
      BY LenProperties, ElementOfSeq DEF ChannelInv, ChannelTypes
    <3> QED BY <3>1 DEF ChannelInv, NumberInv, Event
  <2> QED BY <2>1
<1>3. CASE ~looping
  <2>1. ready' = ready BY <1>3 DEF Publish
  <2> QED BY <1>1, <1>2, <2>1
<1>4. CASE looping
  <2>1. m \in Event /\ ready \in Seq(Event) BY DEF Event, ChannelInv, ChannelTypes
  <2>2. ready' = Append(ready, m) BY <1>4 DEF Publish
  <2>3. m.to = to /\ m.event = published + 1 /\ m.body = body OBVIOUS
  <2> HIDE DEF m
  <2>4. /\ DOMAIN ready' = 1 .. Len(ready) + 1 /\ DOMAIN ready = 1 .. Len(ready)
        /\ Len(ready) \in Nat
        /\ \A i \in 1 .. Len(ready) : ready'[i] = ready[i]
        /\ ready'[Len(ready) + 1] = m
    BY <2>1, <2>2, Appended
  <2>5. \A i \in DOMAIN ready' : (i \in DOMAIN ready /\ ready'[i] = ready[i]) \/ ready'[i] = m
    BY <2>4
  <2> QED BY <1>1, <1>2, <2>3, <2>5
<1> QED BY <1>3, <1>4

-----------------------------------------------------------------------------
(* Steps that write to no line a phone may rely on, and take nothing from it *)

LEMMA LastKept ==
    ASSUME ChannelInv, ChannelInv', LastInv, UNCHANGED last,
           published <= published', personal \subseteq personal',
           \A p \in Phones : shown'[p] = "not_yet" => shown[p] = "not_yet",
           \A p \in Phones : last[p].event \in Nat
    PROVE  LastInv'
<1>1. published \in Nat /\ published' \in Nat BY DEF ChannelInv, ChannelTypes
<1> QED BY <1>1 DEF LastInv

LEMMA LineKept ==
    ASSUME LineInv,
           \A p \in Phones : conn'[p] \in Sockets \ broken' =>
              /\ conn[p] = conn'[p] /\ conn[p] \notin broken
              /\ owner'[conn[p]] = owner[conn[p]]
              /\ at[conn[p]] # "unused" => at'[conn[p]] # "unused"
    PROVE  LineInv'
BY DEF LineInv

LEMMA HeardKept ==
    ASSUME HeardInv,
           \A p \in Phones : Entitled(p)' /\ last'[p].event \in Range(written'[conn'[p]]) =>
              /\ Entitled(p) /\ conn'[p] = conn[p] /\ last'[p] = last[p]
              /\ written'[conn[p]] = written[conn[p]]
              /\ wire'[conn[p]] = wire[conn[p]] /\ action'[p] = action[p]
    PROVE  HeardInv'
BY DEF HeardInv, Hears

\* Only the screens and the phones' sides of the lines change.
LEMMA PhoneSideStep ==
    ASSUME DeliveryInv, ChannelInv', UNCHANGED <<channel, detected, last>>,
           ScreenTypes', action' = action,
           \A p \in Phones : /\ shown'[p] = "mounted" => shown[p] \in {"mounted", "not_yet"}
                             /\ shown'[p] = "not_yet" => shown[p] = "not_yet",
           conn' \in [Phones -> Sockets \cup {NoSocket, Connecting}],
           \A p \in Phones : conn'[p] = conn[p] \/ conn'[p] \in {NoSocket, Connecting}
    PROVE  TypesInv' /\ WayInv'
<1> USE DEF DeliveryInv, TypesInv, WayInv
<1>0. UNCHANGED <<owner, at, registered, looping, ready, sending, broken, wire,
                  published, personal, written, owed, shared>>
  BY DEF channel, manager, sockets, history
<1>1. \A p \in Phones : conn'[p] \in Sockets => conn'[p] = conn[p]
  BY SocketsAssumption
<1>2. NumberTypes' BY <1>0 DEF NumberTypes
<1>3. PhoneTypes' BY DEF PhoneTypes
<1>4. LineInv' BY <1>0, <1>1, LineKept
<1>5. CarriedInv' BY <1>0, CarriedKept
<1>6. LastInv'
  <2>1. published \in Nat BY DEF ChannelInv, ChannelTypes
  <2>2. published <= published' /\ personal \subseteq personal' BY <1>0, <2>1
  <2>3. \A p \in Phones : last[p].event \in Nat BY BoundsAssumption DEF PhoneTypes, Told
  <2> QED BY <2>2, <2>3, LastKept
<1>7. HeardInv'
  <2>1. ASSUME NEW p \in Phones, Entitled(p)'
        PROVE  Entitled(p) /\ conn'[p] = conn[p]
    <3>0. last' = last OBVIOUS
    <3>1. last[p].open /\ shown'[p] = "mounted" /\ conn'[p] \in Sockets
      <4>1. last'[p].open BY <2>1 DEF Entitled
      <4>2. shown'[p] = "mounted" BY <2>1 DEF Entitled, Mounted
      <4>3. conn'[p] \in Sockets BY <2>1 DEF Entitled
      <4> QED BY <3>0, <4>1, <4>2, <4>3
    <3>2. shown[p] = "mounted"
      <4>1. shown[p] \in {"mounted", "not_yet"} BY <3>1
      <4>2. LastInv OBVIOUS
      <4>3. shown[p] # "not_yet" BY <3>1, <4>2, Zenon DEF LastInv
      <4> QED BY <4>1, <4>3
    <3> QED BY <1>0, <1>1, <2>1, <3>1, <3>2 DEF Entitled, Mounted
  <2> QED BY <1>0, <2>1, HeardKept
<1> QED BY <1>2, <1>3, <1>4, <1>5, <1>6, <1>7

\* A connection is accepted, the phone's own or another device's.
LEMMA AcceptedStep ==
    ASSUME DeliveryInv, ChannelInv', NEW p \in Phones, NEW s \in Sockets, Accept(s, p),
           UNCHANGED <<screen, detected, last>>,
           conn' = conn \/ conn' = [conn EXCEPT ![p] = s]
    PROVE  TypesInv' /\ WayInv'
<1> USE DEF DeliveryInv, TypesInv, WayInv
<1>0. /\ UNCHANGED <<registered, looping, ready, sending, broken, wire,
                     published, personal, written, owed, shared>>
      /\ UNCHANGED <<shown, action>> /\ p \in Users
  BY PhonesAssumption DEF Accept, manager, history, screen, route
<1>1. /\ at[s] = "unused" /\ at'[s] = "accepted" /\ owner'[s] = p
      /\ \A r \in Sockets : r # s => at'[r] = at[r] /\ owner'[r] = owner[r]
  BY DEF Accept, ChannelInv, ChannelTypes
<1>2. s \notin broken => owed[s] = {}
  BY <1>1 DEF ChannelInv, RegistryInv
<1>3. NumberTypes' BY <1>0, ConnectionTypes
<1>4. PhoneTypes' BY DEF PhoneTypes
<1>5. ScreenTypes'
  BY DEF ScreenTypes, ScreenTypeOK, screen, route, calling, cancelling
<1>6. LineInv'
  <2>1. ASSUME NEW q \in Phones, conn'[q] \in Sockets \ broken'
        PROVE  owner'[conn'[q]] = q /\ at'[conn'[q]] # "unused"
    <3>1. CASE conn'[q] = conn[q]
      <4>1. owner[conn[q]] = q /\ at[conn[q]] # "unused" BY <1>0, <2>1, <3>1 DEF LineInv
      <4> QED BY <1>1, <2>1, <3>1, <4>1
    <3>2. CASE conn'[q] # conn[q]
      <4>1. q = p /\ conn'[q] = s BY <3>2 DEF PhoneTypes
      <4> QED BY <1>1, <4>1
    <3> QED BY <3>1, <3>2
  <2> QED BY <2>1 DEF LineInv
<1>7. CarriedInv' BY <1>0, CarriedKept
<1>8. LastInv' BY <1>0 DEF LastInv
<1>9. HeardInv'
  <2>1. ASSUME NEW q \in Phones, Entitled(q)'
        PROVE  Entitled(q) /\ conn'[q] = conn[q]
    <3>1. CASE conn'[q] = conn[q] BY <1>0, <2>1, <3>1 DEF Entitled, Mounted
    <3>2. CASE conn'[q] # conn[q]
      <4>1. conn'[q] = s BY <3>2 DEF PhoneTypes
      <4> QED BY <1>0, <1>2, <2>1, <4>1 DEF Entitled
    <3> QED BY <3>1, <3>2
  <2> QED BY <1>0, <2>1, HeardKept
<1> QED BY <1>3, <1>4, <1>5, <1>6, <1>7, <1>8, <1>9

\* A connection is registered, ends or breaks.
LEMMA ConnectionStep ==
    ASSUME DeliveryInv, ChannelInv', NEW s \in Sockets, Register(s) \/ End(s) \/ Break(s),
           UNCHANGED <<screen, conn, detected, last>>
    PROVE  TypesInv' /\ WayInv'
<1> USE DEF DeliveryInv, TypesInv, WayInv
<1>0. /\ UNCHANGED <<ready, sending, published, personal>>
      /\ UNCHANGED <<shown, action>>
  BY DEF Register, End, Break, manager, history, screen, route
<1>1. /\ broken \subseteq broken' /\ shared \ broken' \subseteq shared'
      /\ \A r \in Sockets \ broken' :
            /\ owner'[r] = owner[r] /\ (at[r] # "unused" => at'[r] # "unused")
            /\ owed'[r] = owed[r] /\ written'[r] = written[r] /\ wire'[r] = wire[r]
  <2>1. CASE Register(s) BY <2>1 DEF Register, ChannelInv, ChannelTypes
  <2>2. CASE End(s) BY <2>2 DEF End, history, ChannelInv, ChannelTypes
  <2>3. CASE Break(s) BY <2>3 DEF Break, manager, ChannelInv, ChannelTypes
  <2> QED BY <2>1, <2>2, <2>3
<1>3. NumberTypes' BY ConnectionTypes
<1>4. PhoneTypes' BY DEF PhoneTypes
<1>5. ScreenTypes'
  BY DEF ScreenTypes, ScreenTypeOK, screen, route, calling, cancelling
<1>6. LineInv' BY <1>1, LineKept
<1>7. CarriedInv' BY <1>0, CarriedKept
<1>8. LastInv' BY <1>0 DEF LastInv
<1>9. HeardInv'
  <2>1. ASSUME NEW q \in Phones, Entitled(q)'
        PROVE  /\ Entitled(q)
               /\ written'[conn[q]] = written[conn[q]] /\ wire'[conn[q]] = wire[conn[q]]
    <3>1. conn[q] \in Sockets \ broken' /\ conn[q] \notin shared'
      BY <2>1 DEF Entitled
    <3>2. conn[q] \notin broken \cup shared BY <1>1, <3>1
    <3> QED BY <1>0, <1>1, <2>1, <3>1, <3>2 DEF Entitled, Mounted
  <2> QED BY <1>0, <2>1, HeardKept
<1> QED BY <1>3, <1>4, <1>5, <1>6, <1>7, <1>8, <1>9

-----------------------------------------------------------------------------
(* Publishing *)

\* What an event that is published does not touch.
LEMMA PublishFacts ==
    ASSUME ChannelInv, NumberTypes, NEW to \in Seq(Users), NEW body \in Bodies, Publish(to, body)
    PROVE  /\ UNCHANGED <<sending, owner, at, wire, broken, written, shared>>
           /\ published \in Nat /\ published' = published + 1
           /\ personal' = IF Len(to) = 1 THEN personal \cup {published + 1} ELSE personal
           /\ published + 1 \notin personal
           /\ \A s \in Sockets : published + 1 \notin Range(written[s])
           /\ \A s \in Sockets : \A n \in Nat : n <= published /\ n \in owed'[s] => n \in owed[s]
<1>1. UNCHANGED <<sending, owner, at, wire, broken, written, shared>> /\ published' = published + 1
  BY DEF Publish, sockets
<1>2. published \in Nat /\ published + 1 \notin personal
  BY DEF ChannelInv, ChannelTypes
<1>3. personal' = IF Len(to) = 1 THEN personal \cup {published + 1} ELSE personal
  BY DEF Publish
<1>4. ASSUME NEW s \in Sockets PROVE published + 1 \notin Range(written[s])
  <2>1. written[s] \in Seq(Nat) BY DEF ChannelInv, ChannelTypes
  <2>2. \A i \in 1 .. Len(written[s]) : written[s][i] \in Nat /\ written[s][i] <= published
    BY <2>1, LenProperties, ElementOfSeq DEF ChannelInv, NumberInv
  <2> QED BY <1>2, <2>1, <2>2, InRange
<1>5. ASSUME NEW s \in Sockets, NEW n \in Nat, n <= published, n \in owed'[s]
      PROVE  n \in owed[s]
  <2>1. owed'[s] \subseteq owed[s] \cup {published + 1}
    BY DEF Publish, ChannelInv, ChannelTypes
  <2> QED BY <1>2, <1>5, <2>1
<1> QED BY <1>1, <1>2, <1>3, <1>4, <1>5

LEMMA DetectStep ==
    ASSUME DeliveryInv, ChannelInv', Detect
    PROVE  TypesInv' /\ WayInv'
<1> USE DEF DeliveryInv, TypesInv, WayInv
<1>1. PICK a \in Users, b \in Users : Publish(<<a, b>>, "DETECTED")
  BY DEF Detect
<1>2. /\ <<a, b>> \in Seq(Users) /\ Len(<<a, b>>) = 2 /\ "DETECTED" \in Bodies
      /\ published < MaxEvents /\ detected' = TRUE
      /\ UNCHANGED <<shown, action, conn, last>>
  BY DEF Bodies, Detect, screen, route
<1>3. /\ UNCHANGED <<sending, owner, at, wire, broken, written, shared, personal>>
      /\ published \in Nat /\ published' = published + 1
      /\ published + 1 \notin personal
      /\ \A s \in Sockets : \A n \in Nat : n <= published /\ n \in owed'[s] => n \in owed[s]
  <2> DEFINE to == <<a, b>>
  <2>1. to \in Seq(Users) /\ Len(to) # 1 /\ Publish(to, "DETECTED") /\ "DETECTED" \in Bodies
    BY <1>1, <1>2
  <2> HIDE DEF to, DeliveryInv, TypesInv, WayInv
  <2>2. ChannelInv /\ NumberTypes BY DEF DeliveryInv, TypesInv
  <2> QED BY <2>1, <2>2, PublishFacts
<1>4. NumberTypes' BY <1>1, <1>2, PublishTypes
<1>5. PhoneTypes' BY <1>2 DEF PhoneTypes
<1>6. ScreenTypes'
  BY DEF Detect, ScreenTypes, ScreenTypeOK, screen, route, calling, cancelling
<1>7. LineInv' BY <1>2, <1>3 DEF LineInv
<1>8. \A p \in Phones : last[p].event \in Nat BY BoundsAssumption DEF PhoneTypes, Told
<1>9. LastInv'
  <2>1. published <= published' BY <1>3
  <2> QED BY <1>2, <1>3, <1>8, <2>1, LastKept
<1>10. CarriedInv'
  <2>1. personal' = personal /\ last' = last BY <1>2, <1>3
  <2>2. \A k \in DOMAIN <<a, b>> : Carried(personal', last', <<a, b>>[k], published + 1, "DETECTED")
    BY <1>3, <2>1 DEF Carried
  <2> QED BY <1>1, <1>2, <2>1, <2>2, CarriedPublish
<1>11. HeardInv'
  <2>1. ASSUME NEW p \in Phones, Entitled(p)' PROVE Entitled(p)
    <3>1. last[p].event <= published BY DEF LastInv
    <3>2. conn[p] \in Sockets /\ last[p].event \in owed'[conn[p]] BY <1>2, <2>1 DEF Entitled
    <3>3. last[p].event \in owed[conn[p]] BY <1>3, <1>8, <3>1, <3>2
    <3> QED BY <1>2, <1>3, <2>1, <3>3 DEF Entitled, Mounted
  <2> QED BY <1>2, <1>3, <2>1, HeardKept
<1> QED BY <1>4, <1>5, <1>6, <1>7, <1>9, <1>10, <1>11

\* An instruction is published: for its user it is the last one, and no line
\* has it yet; for the others nothing changes.
LEMMA TellStep ==
    ASSUME DeliveryInv, ChannelInv', NEW u \in Phones, NEW i \in Instructions, Tell(u, i)
    PROVE  TypesInv' /\ WayInv'
<1> DEFINE new == [event |-> published', says |-> i, open |-> Mounted(u)]
<1> USE DEF DeliveryInv, TypesInv, WayInv
<1>1. Publish(<<u>>, i) /\ published < MaxEvents /\ UNCHANGED <<shown, action, conn, detected>>
  BY DEF Tell, screen, route
<1>2. /\ <<u>> \in Seq(Users) /\ Len(<<u>>) = 1 /\ <<u>>[1] = u /\ DOMAIN <<u>> = {1}
      /\ i \in Bodies /\ i # "DETECTED"
  BY PhonesAssumption DEF Instructions, Instruction, Bodies
<1>3. /\ UNCHANGED <<sending, owner, at, wire, broken, written, shared>>
      /\ published \in Nat /\ published' = published + 1
      /\ personal' = personal \cup {published + 1}
      /\ \A s \in Sockets : published + 1 \notin Range(written[s])
      /\ \A s \in Sockets : \A n \in Nat : n <= published /\ n \in owed'[s] => n \in owed[s]
  BY <1>1, <1>2, PublishFacts
<1>4. /\ new.event = published + 1 /\ new.says = i /\ (new.open => shown[u] # "not_yet")
      /\ new \in Told
  <2>1. published + 1 \in 0 .. MaxEvents BY <1>1, <1>3, BoundsAssumption
  <2>2. Mounted(u) \in BOOLEAN BY DEF Mounted
  <2>3. Mounted(u) => shown[u] # "not_yet" BY DEF Mounted
  <2> QED BY <1>3, <2>1, <2>2, <2>3 DEF Told
<1>5. last' = [p \in Phones |-> IF p = u THEN new ELSE last[p]]
  BY DEF Tell
<1> HIDE DEF new
<1>6. last'[u] = new /\ \A p \in Phones : p # u => last'[p] = last[p]
  BY <1>5
<1>7. \A p \in Phones : last[p].event \in Nat /\ last[p].event <= published
  BY BoundsAssumption DEF PhoneTypes, Told, LastInv
<1>8. NumberTypes' BY <1>1, <1>2, PublishTypes
<1>9. PhoneTypes' BY <1>1, <1>4, <1>5 DEF PhoneTypes
<1>10. ScreenTypes'
  BY DEF Tell, ScreenTypes, ScreenTypeOK, screen, route, calling, cancelling
<1>11. LineInv' BY <1>1, <1>3 DEF LineInv
<1>12. LastInv'
  <2>1. ASSUME NEW p \in Phones
        PROVE  /\ last'[p].event <= published'
               /\ last'[p].open => last'[p].event \in personal' /\ shown'[p] # "not_yet"
    <3>1. CASE p = u BY <1>1, <1>3, <1>4, <1>6, <3>1
    <3>2. CASE p # u
      <4>1. last'[p] = last[p] BY <1>6, <3>2
      <4>2. last[p].event <= published' BY <1>3, <1>7
      <4>3. last[p].open => last[p].event \in personal /\ shown[p] # "not_yet" BY DEF LastInv
      <4> QED BY <1>1, <1>3, <4>1, <4>2, <4>3
    <3> QED BY <3>1, <3>2
  <2> QED BY <2>1 DEF LastInv
<1>13. CarriedInv'
  <2>1. ASSUME NEW v, NEW b, NEW n \in Nat, n <= published, Carried(personal, last, v, n, b)
        PROVE  Carried(personal', last', v, n, b)
    <3>1. n # published + 1 /\ n <= published + 1 BY <1>3, <2>1
    <3>2. n \in personal' <=> n \in personal BY <1>3, <3>1
    <3>3. CASE b = "DETECTED" BY <2>1, <3>2, <3>3 DEF Carried
    <3>4. CASE b # "DETECTED" /\ v = u BY <1>4, <1>6, <2>1, <3>1, <3>2, <3>4 DEF Carried
    <3>5. CASE b # "DETECTED" /\ v # u BY <1>6, <2>1, <3>2, <3>5 DEF Carried
    <3> QED BY <3>3, <3>4, <3>5
  <2>2. Carried(personal', last', u, published + 1, i)
    BY <1>2, <1>3, <1>4, <1>6 DEF Carried
  <2> QED BY <1>1, <1>2, <2>1, <2>2, CarriedPublish
<1>14. HeardInv'
  <2>1. ASSUME NEW p \in Phones, Entitled(p)', last'[p].event \in Range(written'[conn'[p]])
        PROVE  Entitled(p) /\ last'[p] = last[p]
    <3>1. conn[p] \in Sockets /\ last'[p].event \in owed'[conn[p]] BY <1>1, <2>1 DEF Entitled
    <3>2. p # u BY <1>1, <1>3, <1>4, <1>6, <2>1, <3>1
    <3>3. last'[p] = last[p] BY <1>6, <3>2
    <3>4. last[p].event \in owed[conn[p]] BY <1>3, <1>7, <3>1, <3>3
    <3> QED BY <1>1, <1>3, <2>1, <3>3, <3>4 DEF Entitled, Mounted
  <2> QED BY <1>1, <1>3, <2>1, HeardKept
<1> QED BY <1>8, <1>9, <1>10, <1>11, <1>12, <1>13, <1>14

-----------------------------------------------------------------------------
(* The event loop *)

\* A message is written to a line its user relies on: an instruction that is
\* not the last one can only come before the last one.
LEMMA WriteStep ==
    ASSUME DeliveryInv, ChannelInv', NEW s \in Sockets, NEW e \in Nat, NEW body \in Bodies,
           NEW fails \in BOOLEAN, Write(s, e, body, fails),
           s \notin broken => Carried(personal, last, owner[s], e, body),
           UNCHANGED <<shown, action, conn, last, broken, owed, shared, personal>>
    PROVE  HeardInv'
<1> USE DEF DeliveryInv, TypesInv, WayInv
<1>1. /\ \A r \in Sockets : r # s \/ s \in broken => wire'[r] = wire[r] /\ written'[r] = written[r]
      /\ s \notin broken =>
            /\ wire'[s] = Append(wire[s], body)
            /\ Len(written[s]) \in Nat /\ written'[s] \in Seq(Nat) /\ written[s] \in Seq(Nat)
            /\ DOMAIN written[s] = 1 .. Len(written[s])
            /\ DOMAIN written'[s] = 1 .. Len(written[s]) + 1
            /\ \A k \in 1 .. Len(written[s]) : written'[s][k] = written[s][k]
            /\ written'[s][Len(written[s]) + 1] = e
  <2>1. /\ wire' \in [Sockets -> Seq(Bodies)]
        /\ \A r \in Sockets : r # s \/ s \in broken => wire'[r] = wire[r]
        /\ s \notin broken => wire'[s] = Append(wire[s], body)
    BY WireFacts
  <2>2. ChannelTypes /\ written \in [Sockets -> Seq(Nat)] BY DEF ChannelInv, ChannelTypes
  <2> QED BY <2>1, <2>2, WriteFacts
<1>2. SUFFICES ASSUME NEW p \in Phones, Entitled(p)', last'[p].event \in Range(written'[conn'[p]])
               PROVE  Hears(p, wire[conn[p]], last[p].says)'
  BY DEF HeardInv
<1> DEFINE n == last[p].event
           x == last[p].says
<1>3. Entitled(p) /\ conn[p] \in Sockets \ (broken \cup shared) /\ n \in personal
      /\ owner[conn[p]] = p
  <2>1. Entitled(p) BY <1>2 DEF Entitled, Mounted
  <2>2. conn[p] \in Sockets \ (broken \cup shared) /\ last[p].open BY <2>1 DEF Entitled
  <2> QED BY <2>1, <2>2 DEF LastInv, LineInv
<1>4. n \in Range(written'[conn[p]]) BY <1>2
<1>5. CASE conn[p] # s
  <2>1. wire'[conn[p]] = wire[conn[p]] /\ written'[conn[p]] = written[conn[p]]
    BY <1>1, <1>3, <1>5
  <2>2. Hears(p, wire[conn[p]], x) BY <1>3, <1>4, <2>1 DEF HeardInv
  <2> QED BY <2>1, <2>2 DEF Hears
<1>6. CASE conn[p] = s
  <2>1. s \notin broken /\ s \notin shared /\ owner[s] = p BY <1>3, <1>6
  <2>2. Carried(personal, last, p, e, body) BY <2>1
  <2>3. wire[s] \in Seq(Bodies) /\ wire'[s] = Append(wire[s], body)
    BY <1>1, <2>1 DEF NumberTypes
  <2>4. PICK k \in 1 .. Len(written[s]) + 1 : written'[s][k] = n
    <3>1. written'[s] \in Seq(Nat) /\ DOMAIN written'[s] = 1 .. Len(written[s]) + 1 BY <1>1, <2>1
    <3>2. DOMAIN written'[s] = 1 .. Len(written'[s]) BY <3>1, LenProperties
    <3> QED BY <1>4, <1>6, <3>1, <3>2, InRange
  <2>5. CASE body = "DETECTED"
    <3>1. n # e BY <1>3, <2>2, <2>5 DEF Carried
    <3>2. k \in 1 .. Len(written[s]) BY <1>1, <2>1, <2>4, <3>1
    <3>3. n \in Range(written[s]) BY <1>1, <2>1, <2>4, <3>2, InRange
    <3>4. Hears(p, wire[s], x) BY <1>3, <1>6, <3>3 DEF HeardInv
    <3>5. Hears(p, wire'[s], x) BY <2>3, <2>5, <3>4, DetectedWritten
    <3> QED BY <1>6, <3>5 DEF Hears
  <2>6. CASE body # "DETECTED" /\ e = n
    <3>1. body = x BY <2>2, <2>6 DEF Carried
    <3>2. LastIn(wire'[s], x) BY <2>3, <2>6, <3>1, LastWritten
    <3> QED BY <1>6, <3>2 DEF Hears
  <2>7. CASE body # "DETECTED" /\ e # n
    <3>1. e <= n /\ e \in personal BY <2>2, <2>7 DEF Carried
    <3>2. k \in 1 .. Len(written[s]) BY <1>1, <2>1, <2>4, <2>7
    <3>3. /\ k \in DOMAIN written'[s] /\ Len(written[s]) + 1 \in DOMAIN written'[s]
          /\ k < Len(written[s]) + 1
      BY <1>1, <2>1, <3>2
    <3>4. written'[s][k] < written'[s][Len(written[s]) + 1]
      <4>1. InOrder' BY DEF ChannelInv
      <4>2. s \in Sockets \ shared' BY <2>1
      <4>3. {written'[s][k], written'[s][Len(written[s]) + 1]} \subseteq personal'
        BY <1>1, <1>3, <2>1, <2>4, <3>1
      <4> QED BY <3>3, <4>1, <4>2, <4>3 DEF InOrder
    <3>5. n < e BY <1>1, <2>1, <2>4, <3>4
    <3>6. n \in Nat BY BoundsAssumption DEF PhoneTypes, Told
    <3> QED BY <3>1, <3>5, <3>6
  <2> QED BY <2>5, <2>6, <2>7
<1> QED BY <1>5, <1>6

LEMMA EventLoopStep ==
    ASSUME DeliveryInv, ChannelInv', Loop, UNCHANGED <<screen, conn, detected, last>>
    PROVE  TypesInv' /\ WayInv'
<1> USE DEF DeliveryInv, TypesInv, WayInv
<1>1. UNCHANGED <<owner, at, broken, published, personal, owed, shared, shown, action>>
  <2>1. UNCHANGED <<shown, action>> BY DEF screen, route
  <2>2. UNCHANGED <<owner, at, broken, published, personal, owed, shared>>
    BY DEF Loop, Scatter, StartForNobody, Start, Continue, Finish, sockets, history
  <2> QED BY <2>1, <2>2
<1>2. NumberTypes' BY LoopTypes
<1>3. PhoneTypes' BY DEF PhoneTypes
<1>4. ScreenTypes'
  BY DEF ScreenTypes, ScreenTypeOK, screen, route, calling, cancelling
<1>5. LineInv' BY <1>1 DEF LineInv
<1>6. CarriedInv' BY CarriedLoop
<1>7. LastInv' BY <1>1 DEF LastInv
<1>8. HeardInv'
  <2>1. ASSUME \A r \in Sockets \ (broken \cup shared) :
                  written'[r] = written[r] /\ wire'[r] = wire[r]
        PROVE  HeardInv'
    <3>1. ASSUME NEW p \in Phones, Entitled(p)'
          PROVE  Entitled(p) /\ conn[p] \in Sockets \ (broken \cup shared)
      <4>1. Entitled(p) BY <1>1, <3>1 DEF Entitled, Mounted
      <4> QED BY <4>1 DEF Entitled
    <3> QED BY <1>1, <2>1, <3>1, HeardKept
  <2>2. CASE Scatter \/ StartForNobody
    BY <2>1, <2>2 DEF Scatter, StartForNobody, sockets, history
  <2>3. ASSUME NEW t \in sending, Finish(t) PROVE HeardInv'
    BY <2>1, <2>3 DEF Finish, sockets, history
  <2>4. ASSUME NEW t \in sending, NEW s \in Sockets, NEW fails \in BOOLEAN, Continue(t, s, fails)
        PROVE  HeardInv'
    <3>1. s \in t.todo /\ t \in Task /\ s \in broken \cup shared
      BY <2>4 DEF Continue, ChannelInv, ChannelTypes, AloneInv
    <3>2. Write(s, t.event, t.body, fails) BY <2>4 DEF Continue
    <3>3. \A r \in Sockets : r # s \/ s \in broken => wire'[r] = wire[r] /\ written'[r] = written[r]
      BY <3>1, <3>2, WireFacts, WriteFacts DEF Task, ChannelInv
    <3> QED BY <2>1, <3>1, <3>3
  <2>5. ASSUME NEW s \in Sockets, NEW fails \in BOOLEAN, Start(s, fails)
        PROVE  HeardInv'
    <3>1. /\ ready # <<>> /\ ready' = Tail(ready) /\ Direct(Head(ready))
          /\ s \in SocketsOf(Head(ready).to[1])
          /\ Write(s, Head(ready).event, Head(ready).body, fails)
      BY <2>5 DEF Start
    <3>2. Head(ready) = ready[1] /\ 1 \in DOMAIN ready /\ ready[1] \in Event
      BY <3>1, TakeHead
    <3>3. 1 \in DOMAIN ready[1].to
      <4>1. ready[1].to \in Seq(Users) /\ Len(ready[1].to) = 1 BY <3>1, <3>2 DEF Direct, Event
      <4> QED BY <4>1, LenProperties
    <3>4. Carried(personal, last, ready[1].to[1], ready[1].event, ready[1].body)
      BY <3>2, <3>3 DEF CarriedInv, QueuedSays
    <3>5. owner[s] = ready[1].to[1] BY <3>1, <3>2 DEF SocketsOf
    <3>6. ready[1].event \in Nat /\ ready[1].body \in Bodies BY <3>2 DEF Event
    <3>7. Write(s, ready[1].event, ready[1].body, fails) BY <3>1, <3>2
    <3>8. Carried(personal, last, owner[s], ready[1].event, ready[1].body) BY <3>4, <3>5
    <3> HIDE DEF DeliveryInv, TypesInv, WayInv
    <3> QED BY <1>1, <3>6, <3>7, <3>8, WriteStep
  <2> QED BY <2>2, <2>3, <2>4, <2>5 DEF Loop
<1> QED BY <1>2, <1>3, <1>4, <1>5, <1>6, <1>7, <1>8

-----------------------------------------------------------------------------
(* The phone *)

\* A message arrives: the screen hears the instruction it says, and the line
\* is left with the ones behind it.
LEMMA ArriveStep ==
    ASSUME DeliveryInv, ChannelInv', NEW p \in Phones, Arrive(p)
    PROVE  TypesInv' /\ WayInv'
<1> DEFINE s == conn[p]
           w == wire[s]
<1> USE DEF DeliveryInv, TypesInv, WayInv
<1>1. /\ s \in Sockets /\ w # <<>> /\ w \in Seq(Bodies)
      /\ wire' = [wire EXCEPT ![s] = Tail(w)]
      /\ IF Head(w) = "DETECTED" THEN UNCHANGED screen ELSE HearDecision(p, Head(w))
      /\ UNCHANGED <<owner, at, broken, conn, detected, last>>
      /\ UNCHANGED <<registered, looping, ready, sending, published, personal, written, owed, shared>>
  BY DEF Arrive, NumberTypes, manager, history
<1>2. Head(w) \in Bodies /\ Tail(w) \in Seq(Bodies)
  BY <1>1, Shortened
<1>3. /\ wire' \in [Sockets -> Seq(Bodies)] /\ wire'[s] = Tail(w)
      /\ \A r \in Sockets : r # s => wire'[r] = wire[r]
  <2> HIDE DEF w
  <2> QED BY <1>1, <1>2 DEF NumberTypes
<1>4. /\ ScreenTypes' /\ shown' = shown
      /\ Head(w) = "DETECTED" => action'[p] = action[p]
      /\ Head(w) # "DETECTED" /\ Mounted(p) => action'[p] = Head(w)
      /\ \A q \in Phones : q # p => action'[q] = action[q]
  <2>1. CASE Head(w) = "DETECTED"
    <3>1. UNCHANGED screen BY <1>1, <2>1
    <3>2. ScreenTypes'
      BY <3>1 DEF ScreenTypes, ScreenTypeOK, screen, route, calling, cancelling
    <3> QED BY <2>1, <3>1, <3>2 DEF screen, route
  <2>2. CASE Head(w) # "DETECTED"
    <3>1. Head(w) \in Actions BY <1>2, <2>2 DEF Bodies, Actions
    <3>2. HearDecision(p, Head(w)) BY <1>1, <2>2
    <3> QED BY <2>2, <3>1, <3>2, HearStep
  <2> QED BY <2>1, <2>2
<1> HIDE DEF w
<1>5. NumberTypes' BY <1>1, <1>3 DEF NumberTypes
<1>6. PhoneTypes' BY <1>1 DEF PhoneTypes
<1>7. LineInv' BY <1>1 DEF LineInv
<1>8. CarriedInv' BY <1>1, CarriedKept
<1>9. LastInv' BY <1>1, <1>4 DEF LastInv
<1>10. HeardInv'
  <2> SUFFICES ASSUME NEW q \in Phones, Entitled(q)', last'[q].event \in Range(written'[conn'[q]])
               PROVE  Hears(q, wire[conn[q]], last[q].says)'
    BY DEF HeardInv
  <2> DEFINE x == last[q].says
  <2>1. Entitled(q) BY <1>1, <1>4 DEF Entitled, Mounted
  <2>2. last[q].event \in Range(written[conn[q]]) BY <1>1
  <2>3. Hears(q, wire[conn[q]], x) BY <2>1, <2>2 DEF HeardInv
  <2>4. CASE q = p
    <3>1. Mounted(p) BY <2>1, <2>4 DEF Entitled
    <3>2. LastIn(w, x) \/ (NoneIn(w) /\ action[p] = x) BY <2>3, <2>4 DEF Hears, w
    <3>3. /\ LastIn(w, x) => LastIn(Tail(w), x) \/ (NoneIn(Tail(w)) /\ Head(w) = x)
          /\ NoneIn(w) => NoneIn(Tail(w)) /\ Head(w) = "DETECTED"
      BY <1>1, FirstTaken
    <3>4. LastIn(w, x) => x # "DETECTED" BY DEF LastIn
    <3>5. LastIn(Tail(w), x) \/ (NoneIn(Tail(w)) /\ action'[p] = x)
      BY <1>4, <3>1, <3>2, <3>3, <3>4
    <3> QED BY <1>1, <1>3, <2>4, <3>5 DEF Hears
  <2>5. CASE q # p
    <3>1. conn[q] \in Sockets \ broken BY <2>1 DEF Entitled
    <3>2. conn[q] # s BY <2>5, <3>1 DEF LineInv
    <3>3. wire'[conn[q]] = wire[conn[q]] /\ action'[q] = action[q]
      BY <1>3, <1>4, <2>5, <3>1, <3>2
    <3> QED BY <1>1, <2>3, <3>3 DEF Hears
  <2> QED BY <2>4, <2>5
<1> QED BY <1>4, <1>5, <1>6, <1>7, <1>8, <1>9, <1>10

-----------------------------------------------------------------------------
(* The whole system *)

LEMMA InitDelivery == Init => DeliveryInv
<1> SUFFICES ASSUME Init PROVE DeliveryInv
    OBVIOUS
<1> USE DEF Init, ChannelInit, ScreenInit
<1>1. ChannelInv BY InitChannel
<1>2. \A p \in Phones : above[p] = <<>> /\ DOMAIN above[p] = {} OBVIOUS
<1>3. <<>> \in Seq(Overlays) /\ <<>> \in Seq(Bodies) OBVIOUS
<1>4. ScreenTypes
  <2>1. above \in [Phones -> Seq(Overlays)] BY <1>3
  <2>2. \A p \in Phones : \A i \in DOMAIN above[p] : above[p][i] \in {"sheet", "incall"}
    BY <1>2
  <2>3. shown \in [Phones -> {"not_yet", "mounted", "left"}] /\ action \in [Phones -> Actions \cup {"none"}]
    OBVIOUS
  <2>4. /\ timer \in [Phones -> BOOLEAN] /\ started \in [Phones -> BOOLEAN]
        /\ listening \in [Phones -> BOOLEAN] /\ flag \in [Phones -> BOOLEAN]
        /\ disabled \in [Phones -> BOOLEAN]
    OBVIOUS
  <2>5. placing \in [Phones -> Nat] /\ cancels \in [Phones -> Nat] /\ dials \in [Phones -> Nat]
    OBVIOUS
  <2> QED BY <2>1, <2>2, <2>3, <2>4, <2>5 DEF ScreenTypes, ScreenTypeOK
<1>5. NumberTypes
  <2>1. looping \in BOOLEAN /\ published \in 0 .. MaxEvents
    <3>1. MaxEvents \in Nat /\ published = 0 BY BoundsAssumption
    <3>2. 0 \in 0 .. MaxEvents BY <3>1
    <3>3. looping \in BOOLEAN OBVIOUS
    <3> QED BY <3>1, <3>2, <3>3
  <2>2. \A i \in DOMAIN ready : ready[i].event >= 1
    <3>1. DOMAIN ready = {} OBVIOUS
    <3> QED BY <3>1
  <2>3. \A t \in sending : t.event >= 1 OBVIOUS
  <2>4. \A s \in Sockets : owed[s] \subseteq 1 .. published OBVIOUS
  <2>5. \A s \in Sockets : at[s] \in {"accepted", "serving"} => owner[s] \in Users
    OBVIOUS
  <2>6. wire \in [Sockets -> Seq(Bodies)] BY <1>3
  <2> QED BY <2>1, <2>2, <2>3, <2>4, <2>5, <2>6 DEF NumberTypes
<1>6. PhoneTypes
  <2>1. NoInstruction \in Told BY BoundsAssumption DEF NoInstruction, Told
  <2> QED BY <2>1 DEF PhoneTypes
<1>7. LineInv BY SocketsAssumption DEF LineInv
<1>8. CarriedInv BY DEF CarriedInv, QueuedSays, SentSays
<1>9. LastInv BY DEF LastInv, NoInstruction
<1>10. HeardInv BY DEF HeardInv, Entitled, Mounted
<1> QED BY <1>1, <1>4, <1>5, <1>6, <1>7, <1>8, <1>9, <1>10 DEF DeliveryInv, TypesInv, WayInv

\* What the phone or its environment does at the phone's end.
LEMMA PhoneEndStep ==
    ASSUME DeliveryInv, ChannelInv', NEW p \in Phones,
           \/ OpenScreen(p) \/ Lost(p) \/ ConnectEarlier(p) \/ ConnectFails(p)
           \/ /\ \/ CloseTop(p) \/ TapCancel(p) \/ Timer(p) \/ Placed(p)
                 \/ \E added \in BOOLEAN : CallEvent(p, added)
                 \/ \E done \in BOOLEAN : Cancelled(p, done)
              /\ UNCHANGED <<channel, conn, detected, last>>
    PROVE  TypesInv' /\ WayInv'
<1> DEFINE Kept == \A q \in Phones :
                     /\ shown'[q] = "mounted" => shown[q] \in {"mounted", "not_yet"}
                     /\ shown'[q] = "not_yet" => shown[q] = "not_yet"
           Links == /\ conn' \in [Phones -> Sockets \cup {NoSocket, Connecting}]
                    /\ \A q \in Phones : conn'[q] = conn[q] \/ conn'[q] \in {NoSocket, Connecting}
<1>0. ScreenTypes /\ conn \in [Phones -> Sockets \cup {NoSocket, Connecting}]
  BY DEF DeliveryInv, TypesInv, PhoneTypes
<1>1. UNCHANGED <<channel, detected, last>>
  BY DEF OpenScreen, Lost, ConnectEarlier, ConnectFails
<1>2. ScreenTypes' /\ action' = action /\ Kept
  <2>1. CASE UNCHANGED screen
    <3>1. UNCHANGED <<shown, action>> BY <2>1 DEF screen, route
    <3>2. ScreenTypes'
      BY <1>0, <2>1 DEF ScreenTypes, ScreenTypeOK, screen, route, calling, cancelling
    <3> QED BY <3>1, <3>2
  <2>2. CASE \/ Open(p) \/ CloseTop(p) \/ TapCancel(p) \/ Timer(p) \/ Placed(p)
             \/ \E added \in BOOLEAN : CallEvent(p, added)
             \/ \E done \in BOOLEAN : Cancelled(p, done)
    <3> HIDE DEF Kept
    <3>1. ScreenTypes BY <1>0
    <3> QED BY <2>2, <3>1, ScreenStep DEF Kept
  <2> QED BY <2>1, <2>2 DEF OpenScreen, Lost, ConnectEarlier, ConnectFails
<1>3. Links
  <2>1. CASE Connect(p) BY <1>0, <2>1 DEF Connect
  <2>2. CASE conn' = [conn EXCEPT ![p] = NoSocket] BY <1>0, <2>2
  <2>3. CASE conn' = conn BY <1>0, <2>3
  <2> QED BY <2>1, <2>2, <2>3 DEF OpenScreen, Lost, ConnectEarlier, ConnectFails
<1> QED BY <1>1, <1>2, <1>3, PhoneSideStep

LEMMA NextDelivery ==
    ASSUME DeliveryInv, [Next]_vars
    PROVE  DeliveryInv'
<1>0. ChannelInv'
  <2>1. ChannelInv BY DEF DeliveryInv
  <2>2. UNCHANGED vars => UNCHANGED behindWire
    BY DEF vars, channel, manager, sockets, history, behindWire
  <2> QED BY <2>1, <2>2, StepMovesChannel, ChannelMoveKeeps, BehindWireKeeps
<1> SUFFICES TypesInv' /\ WayInv'
  BY <1>0 DEF DeliveryInv
<1>1. CASE UNCHANGED vars
  <2>1. UNCHANGED <<channel, screen, conn, detected, last>> BY <1>1 DEF vars
  <2>2. ScreenTypes'
    BY <2>1 DEF DeliveryInv, TypesInv, ScreenTypes, ScreenTypeOK, screen, route, calling, cancelling
  <2>3. UNCHANGED <<shown, action>> BY <2>1 DEF screen, route
  <2>4. conn' \in [Phones -> Sockets \cup {NoSocket, Connecting}]
    BY <2>1 DEF DeliveryInv, TypesInv, PhoneTypes
  <2> QED BY <1>0, <2>1, <2>2, <2>3, <2>4, PhoneSideStep
<1>2. CASE LoopStep
  BY <1>0, <1>2, EventLoopStep, ConnectionStep DEF LoopStep
<1>3. CASE HandlerStep
  BY <1>0, <1>3, DetectStep, TellStep DEF HandlerStep
<1>4. ASSUME NEW p \in Phones, NEW s \in Sockets, AcceptNext(p, s),
             conn' = conn \/ conn' = [conn EXCEPT ![p] = s],
             UNCHANGED <<screen, detected, last>>
      PROVE  TypesInv' /\ WayInv'
  BY <1>0, <1>4, AcceptedStep DEF AcceptNext
<1>5. ASSUME NEW p \in Phones, PhoneStep(p) PROVE TypesInv' /\ WayInv'
  <2>1. CASE Connected(p) BY <1>4, <2>1 DEF Connected
  <2>2. CASE Arrive(p) BY <1>0, <2>2, ArriveStep
  <2>3. CASE \/ OpenScreen(p) \/ Lost(p)
             \/ /\ Timer(p) \/ Placed(p) \/ \E done \in BOOLEAN : Cancelled(p, done)
                /\ UNCHANGED <<channel, conn, detected, last>>
    BY <1>0, <2>3, PhoneEndStep
  <2> QED BY <1>5, <2>1, <2>2, <2>3 DEF PhoneStep
<1>6. CASE Environment
  <2>1. CASE /\ \/ \E p \in Phones : CloseTop(p) \/ TapCancel(p)
                \/ \E p \in Phones, added \in BOOLEAN : CallEvent(p, added)
             /\ UNCHANGED <<channel, conn, detected, last>>
    BY <1>0, <2>1, PhoneEndStep
  <2>2. CASE (\E s \in Sockets : Break(s)) /\ UNCHANGED <<screen, conn, detected, last>>
    BY <1>0, <2>2, ConnectionStep
  <2>3. ASSUME NEW p \in Phones, ConnectEarlier(p) \/ ConnectFails(p) \/ OtherDevice(p)
        PROVE  TypesInv' /\ WayInv'
    <3>1. CASE ConnectEarlier(p) \/ ConnectFails(p) BY <1>0, <3>1, PhoneEndStep
    <3>2. CASE OtherDevice(p) BY <1>4, <3>2 DEF OtherDevice
    <3> QED BY <2>3, <3>1, <3>2
  <2> QED BY <1>6, <2>1, <2>2, <2>3 DEF Environment
<1> QED BY <1>1, <1>2, <1>3, <1>5, <1>6 DEF Next

\* DeliveryInv holds in every reachable state.
THEOREM DeliveryInvariant == Spec => []DeliveryInv
<1>1. DeliveryInv /\ [Next]_vars => DeliveryInv'
  BY NextDelivery
<1> QED BY <1>1, InitDelivery, PTL DEF Spec

-----------------------------------------------------------------------------
(* What a reader should know *)

\* What the environment does is counted.
LEMMA TurnsCounted == Spec => [](turns \in 0 .. MaxTurns)
<1> DEFINE Counted == turns \in 0 .. MaxTurns
<1>1. Init => Counted
  BY BoundsAssumption DEF Init
<1>2. Counted /\ [Next]_vars => Counted'
  <2>1. [Next]_vars => turns' = turns \/ (turns < MaxTurns /\ turns' = turns + 1)
    BY DEF Next, vars
  <2>2. SUFFICES ASSUME turns \in 0 .. MaxTurns,
                        turns' = turns \/ (turns < MaxTurns /\ turns' = turns + 1)
                 PROVE  turns' \in 0 .. MaxTurns
    BY <2>1
  <2>3. MaxTurns \in Nat BY BoundsAssumption
  <2>4. CASE turns' = turns BY <2>2, <2>4
  <2>5. CASE turns < MaxTurns /\ turns' = turns + 1 BY <2>2, <2>3, <2>5
  <2> QED BY <2>2, <2>4, <2>5
<1> HIDE DEF Counted
<1>3. Spec => []Counted
  BY <1>1, <1>2, PTL DEF Spec
<1> QED BY <1>3 DEF Counted

\* Every variable of the channel, the screens and the phones keeps its type.
THEOREM SystemTypeCorrect == Spec => []TypeOK
<1>1. DeliveryInv /\ turns \in 0 .. MaxTurns => TypeOK
  <2> SUFFICES ASSUME DeliveryInv, turns \in 0 .. MaxTurns PROVE TypeOK
    OBVIOUS
  <2> USE DEF DeliveryInv, TypesInv
  <2>1. ChannelTypeOK
    <3>1. registered \subseteq {s \in Sockets : owner[s] # Nobody}
      BY NobodyAssumption DEF ChannelInv, ChannelTypes, RegistryInv, NumberTypes
    <3>2. \A i \in DOMAIN ready : ready[i].event \in 1 .. published
      <4>1. \A i \in DOMAIN ready : ready[i] \in Event
        BY LenProperties, ElementOfSeq DEF ChannelInv, ChannelTypes
      <4> QED BY <4>1 DEF ChannelInv, ChannelTypes, NumberInv, NumberTypes, Event
    <3>3. \A t \in sending : t \in Task /\ t.event \in 1 .. published
      BY DEF ChannelInv, ChannelTypes, NumberInv, NumberTypes, Task
    <3> QED BY <3>1, <3>2, <3>3 DEF ChannelTypeOK, ChannelInv, ChannelTypes, NumberTypes
  <2>2. ScreenTypeOK BY DEF ScreenTypes
  <2> QED BY <2>1, <2>2 DEF TypeOK, PhoneTypes, LineInv, Told
<1> QED BY <1>1, DeliveryInvariant, TurnsCounted, PTL

\* What the screen of a phone that may rely on it has heard, in one state.
LEMMA HeardWhenSettled ==
    ASSUME DeliveryInv, NEW p \in Phones, Entitled(p), Settled(p)
    PROVE  action[p] = last[p].says
<1>1. conn[p] \in Sockets \ broken /\ last[p].event \in owed[conn[p]]
  BY DEF Entitled
<1>2. DOMAIN ready = {} /\ sending = {} /\ wire[conn[p]] = <<>>
  BY DEF Settled
<1>3. last[p].event \in Range(written[conn[p]])
  BY <1>1, <1>2 DEF DeliveryInv, ChannelInv, NothingDropped
<1>4. Hears(p, wire[conn[p]], last[p].says)
  BY <1>3 DEF DeliveryInv, WayInv, HeardInv
<1>5. ~LastIn(<<>>, last[p].says) BY DEF LastIn
<1> QED BY <1>2, <1>4, <1>5 DEF Hears

\* Whatever events are published, whatever other devices of the same user open,
\* close or fail, a phone that may rely on its line is left with the last
\* instruction its user was sent: no instruction is lost on the way, and no
\* earlier one arrives after it.
THEOREM LastInstructionIsHeard == Spec => []InstructionHeard
<1>1. DeliveryInv => InstructionHeard
  BY HeardWhenSettled DEF InstructionHeard
<1> QED BY <1>1, DeliveryInvariant, PTL

\* Such a phone has asked for its call if that instruction is PROCEED, whatever
\* it was told before and whether or not its timer has run out, unless the
\* telephone has reported a call.
THEOREM ProceedIsFollowed == Spec => []ProceedPlacesCall
<1>1. DeliveryInv /\ DialInv => ProceedPlacesCall
  BY HeardWhenSettled DEF ProceedPlacesCall, DialInv, ProceedDialled
<1> QED BY <1>1, DeliveryInvariant, FlagIsRight, PTL

\* A request to place a call is made by the timer or by what arrives.
LEMMA WhoDials ==
    ASSUME Next
    PROVE  \/ UNCHANGED dials
           \/ \E q \in Phones : Timer(q) \/ Arrive(q)
<1>1. CASE LoopStep BY <1>1 DEF LoopStep, screen, calling
<1>2. CASE HandlerStep BY <1>2 DEF HandlerStep, Detect, Tell, screen, calling
<1>3. ASSUME NEW q \in Phones, PhoneStep(q), ~Timer(q), ~Arrive(q) PROVE UNCHANGED dials
  BY <1>3 DEF PhoneStep, OpenScreen, Open, Connected, Lost, Placed, Cancelled, screen, calling
<1>4. CASE Environment
  BY <1>4 DEF Environment, CloseTop, TapCancel, CallEvent, ConnectEarlier, ConnectFails,
              OtherDevice, screen, calling
<1> QED BY <1>1, <1>2, <1>3, <1>4 DEF Next

\* What StandbyIsKept asks of one step.
Kept ==
    \A p \in Phones :
        Entitled(p) /\ Settled(p) /\ last[p].says = "STANDBY" => dials'[p] = dials[p]

LEMMA KeptStep ==
    ASSUME DeliveryInv, [Next]_vars
    PROVE  Kept
<1> SUFFICES ASSUME NEW p \in Phones, Entitled(p), Settled(p), last[p].says = "STANDBY"
             PROVE  dials'[p] = dials[p]
  BY DEF Kept
<1>1. action[p] = "STANDBY"
  BY HeardWhenSettled
<1>2. dials \in [Phones -> Nat]
  BY DEF DeliveryInv, TypesInv, ScreenTypes, ScreenTypeOK
<1>3. CASE UNCHANGED dials
  BY <1>3
<1>4. ASSUME NEW q \in Phones, Timer(q) PROVE dials'[p] = dials[p]
  BY <1>1, <1>2, <1>4 DEF Timer, Place, DoNotPlace
<1>5. ASSUME NEW q \in Phones, Arrive(q) PROVE dials'[p] = dials[p]
  <2>1. q # p
    BY <1>5 DEF Arrive, Settled
  <2> QED BY <1>2, <1>5, <2>1 DEF Arrive, HearDecision, Proceed, Place, DoNotPlace, screen, calling
<1>6. CASE UNCHANGED vars
  BY <1>3, <1>6 DEF vars, screen, calling
<1> QED BY <1>3, <1>4, <1>5, <1>6, WhoDials

\* A phone that may rely on its line, and was last told to stand by, asks for no
\* call from the moment nothing is on its way to it: its timer asks what it has
\* heard, and what it has heard is the last it was told.
THEOREM StandbyIsFollowed == Spec => StandbyIsKept
<1>1. DeliveryInv /\ [Next]_vars => [Kept]_vars
  BY KeptStep
<1>2. [][Kept]_vars => StandbyIsKept
  BY PTL DEF StandbyIsKept, Kept
<1> QED BY <1>1, <1>2, DeliveryInvariant, PTL DEF Spec

=============================================================================
