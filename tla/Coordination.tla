----------------------------- MODULE Coordination -----------------------------
(***************************************************************************)
(* What the server pushes (PushChannel) on its way to the calling screen   *)
(* (CallingScreen) of a phone: the phone's WebSocketService connects when  *)
(* a screen opens, hands on what arrives, and does not connect again when  *)
(* it loses its line.  Meanwhile the screen's timer runs, the telephone    *)
(* reports calls, and other devices of the same users come and go.         *)
(*                                                                         *)
(* The handlers that push (Decisions has those of a decision and of the    *)
(* explicit answers that replace it) are reduced to what they push.        *)
(***************************************************************************)
EXTENDS PushChannel, CallingScreen, Resolution

CONSTANTS
    MaxEvents,  \* bound: events published
    MaxTurns    \* bound: what the network, the telephone and the users do

ASSUME PhonesAssumption == Phones \subseteq Users
ASSUME BoundsAssumption == MaxEvents \in Nat /\ MaxTurns \in Nat

VARIABLES
    conn,       \* _socket and _isConnecting of each phone
    detected,   \* TRUE: RECIPROCAL_DETECTED has been published
    last,       \* the last instruction published to each phone's user
    turns       \* what the environment has done so far, counted

vars == <<channel, screen, conn, detected, last, turns>>

NoSocket == "none"
Connecting == "connecting"

ASSUME SocketsAssumption == {NoSocket, Connecting} \cap Sockets = {}

\* What the engine's decisions and the users' answers make the server push.
Instructions ==
    LET decided == {Resolve(a, b).type : a, b \in Profiles}
    IN  {Instruction(t, s) : t \in decided, s \in Sides}

\* An instruction: its event's number, what it says, and whether the screen
\* was open when it was published.
NoInstruction == [event |-> 0, says |-> "none", open |-> FALSE]

TypeOK ==
    /\ ChannelTypeOK
    /\ ScreenTypeOK
    /\ conn \in [Phones -> Sockets \cup {NoSocket, Connecting}]
    /\ \A p \in Phones : conn[p] \in Sockets \ broken => owner[conn[p]] = p
    /\ detected \in BOOLEAN
    /\ last \in [Phones -> [event : 0 .. MaxEvents, says : Instructions \cup {"none"},
                            open : BOOLEAN]]
    /\ turns \in 0 .. MaxTurns

Init ==
    /\ ChannelInit
    /\ ScreenInit
    /\ conn = [p \in Phones |-> NoSocket]
    /\ detected = FALSE
    /\ last = [p \in Phones |-> NoInstruction]
    /\ turns = 0

-----------------------------------------------------------------------------
(* The phone's WebSocketService *)

\* connect: nothing is done when there is a connection or one is being made.
Connect(p) ==
    conn' = IF conn[p] = NoSocket THEN [conn EXCEPT ![p] = Connecting] ELSE conn

\* The screen of an earlier call has connected.
ConnectEarlier(p) ==
    /\ shown[p] = "not_yet"
    /\ conn[p] = NoSocket
    /\ Connect(p)
    /\ UNCHANGED <<channel, screen, detected, last>>

\* initState with its call of connect.
OpenScreen(p) ==
    /\ Open(p)
    /\ Connect(p)
    /\ UNCHANGED <<channel, detected, last>>

\* Which of the connections not yet used is the next makes no difference.
AcceptNext(u, s) ==
    /\ at[s] = "unused"
    /\ s = CHOOSE r \in Sockets : at[r] = "unused"
    /\ Accept(s, u)

Connected(p) ==
    /\ conn[p] = Connecting
    /\ \E s \in Sockets : AcceptNext(p, s) /\ conn' = [conn EXCEPT ![p] = s]
    /\ UNCHANGED <<screen, detected, last>>

ConnectFails(p) ==
    /\ conn[p] = Connecting
    /\ conn' = [conn EXCEPT ![p] = NoSocket]
    /\ UNCHANGED <<channel, screen, detected, last>>

\* _onDisconnect: the phone finds its line dead, and does not connect again.
Lost(p) ==
    /\ conn[p] \in broken
    /\ conn' = [conn EXCEPT ![p] = NoSocket]
    /\ UNCHANGED <<channel, screen, detected, last>>

\* _onMessage and the listeners of the two streams.  The one of
\* RECIPROCAL_DETECTED only marks the request the screen shows.
Arrive(p) ==
    /\ conn[p] \in Sockets
    /\ wire[conn[p]] # <<>>
    /\ wire' = [wire EXCEPT ![conn[p]] = Tail(@)]
    /\ LET body == Head(wire[conn[p]])
       IN  IF body = "DETECTED" THEN UNCHANGED screen ELSE HearDecision(p, body)
    /\ UNCHANGED <<manager, owner, at, broken, history, conn, detected, last>>

-----------------------------------------------------------------------------
(* The server *)

\* Another device of the phone's user connects; what it does with events is
\* left out.
OtherDevice(p) ==
    /\ \E s \in Sockets : AcceptNext(p, s)
    /\ UNCHANGED <<screen, conn, detected, last>>

\* _broadcast_pair_detected
Detect ==
    /\ ~detected
    /\ published < MaxEvents
    /\ detected' = TRUE
    /\ \E a, b \in Users : a # b /\ Publish(<<a, b>>, "DETECTED")
    /\ UNCHANGED <<screen, conn, last>>

\* _broadcast_decision_resolved, to the phone's user.  What it pushes to the
\* other caller passes through the loop and touches nothing here.
Tell(u, instruction) ==
    /\ published < MaxEvents
    /\ Publish(<<u>>, instruction)
    /\ last' = [p \in Phones |->
                  IF p = u THEN [event |-> published', says |-> instruction, open |-> Mounted(p)]
                  ELSE last[p]]
    /\ UNCHANGED <<screen, conn, detected>>

-----------------------------------------------------------------------------
(* The whole system *)

\* What the network, the telephone and the users may do.
Environment ==
    \/ /\ \/ \E p \in Phones : CloseTop(p) \/ TapCancel(p)
          \/ \E p \in Phones, added \in BOOLEAN : CallEvent(p, added)
       /\ UNCHANGED <<channel, conn, detected, last>>
    \/ /\ \E s \in Sockets : Break(s)
       /\ UNCHANGED <<screen, conn, detected, last>>
    \/ \E p \in Phones : ConnectEarlier(p) \/ ConnectFails(p) \/ OtherDevice(p)

\* What a phone does by itself, or because a request of its own returns.
PhoneStep(p) ==
    \/ OpenScreen(p) \/ Connected(p) \/ Lost(p) \/ Arrive(p)
    \/ /\ Timer(p) \/ Placed(p) \/ \E done \in BOOLEAN : Cancelled(p, done)
       /\ UNCHANGED <<channel, conn, detected, last>>

LoopStep ==
    /\ Loop \/ \E s \in Sockets : Register(s) \/ End(s)
    /\ UNCHANGED <<screen, conn, detected, last>>

HandlerStep ==
    \/ Detect
    \/ \E p \in Phones, i \in Instructions : Tell(p, i)

Next ==
    \/ /\ LoopStep \/ HandlerStep \/ \E p \in Phones : PhoneStep(p)
       /\ UNCHANGED turns
    \/ /\ turns < MaxTurns
       /\ turns' = turns + 1
       /\ Environment

Spec == Init /\ [][Next]_vars

-----------------------------------------------------------------------------
(* Properties *)

\* Nothing the server has published is still on its way to the phone.
Settled(p) == ready = <<>> /\ sending = {} /\ wire[conn[p]] = <<>>

\* The phone may rely on the last instruction its user was sent: its screen was
\* open and its line registered when that was published, both still are, and no
\* other socket of its user was open beside that line.
Entitled(p) ==
    /\ Mounted(p)
    /\ last[p].open
    /\ conn[p] \in Sockets \ (broken \cup shared)
    /\ last[p].event \in owed[conn[p]]

\* Once nothing is on its way, the screen of a phone that may rely on it is
\* left with the last instruction its user was sent, not with none and not
\* with an earlier one.
InstructionHeard ==
    \A p \in Phones : Entitled(p) /\ Settled(p) => action[p] = last[p].says

\* Such a phone, if the last its user was told is STANDBY, asks the telephone
\* for no call: neither its timer nor an instruction that is late makes it
\* (calling_screen.dart:54, 98).  What it has asked for before is another
\* matter.
StandbyIsKept ==
    [][\A p \in Phones :
           Entitled(p) /\ Settled(p) /\ last[p].says = "STANDBY" => dials'[p] = dials[p]]_vars

\* And if it is PROCEED the phone has asked for its call, unless the telephone
\* has reported one: also when another instruction came first, the timer has
\* been kept from dialling, or a cancellation is under way.
ProceedPlacesCall ==
    \A p \in Phones :
        Entitled(p) /\ Settled(p) /\ last[p].says = "PROCEED" => dials[p] > 0 \/ started[p]

=============================================================================
