------------------------------ MODULE PushChannel ------------------------------
(***************************************************************************)
(* The push channel: ConnectionManager and the endpoint /ws/calls.         *)
(*                                                                         *)
(* Sockets live on one event loop; handlers of HTTP requests publish from  *)
(* threads of their own, by putting a coroutine in the loop's queue.  The  *)
(* loop runs a coroutine up to the point where a send has to wait: an      *)
(* action below is such a stretch.  The manager's lock is never held while *)
(* something waits, so it makes no difference here.  Heartbeats (PING,     *)
(* PONG) and the greeting of a new socket are left out: they touch nothing *)
(* but the socket they go to.                                              *)
(***************************************************************************)
EXTENDS Integers, Sequences, FiniteSets, SequencesExt

CONSTANTS
    Users,      \* users with an account
    Sockets     \* connections that are ever opened

VARIABLES
    owner,      \* the user whose token a socket was opened with, Nobody before
    at,         \* where the endpoint's handler of each socket is
    registered, \* _active_connections: the sockets the manager knows
    looping,    \* TRUE: ConnectionManager.loop is set
    ready,      \* the loop's queue: coroutines that have not begun
    sending,    \* send_to_user coroutines that wait in the midst of their sends
    wire,       \* what was written to each socket and has not arrived
    broken,     \* sockets whose line is dead, noticed or not
    published,  \* events published so far
    personal,   \* numbers of the events published for one user
    written,    \* numbers of the events written to each socket
    owed,       \* numbers of the events published while a socket was registered
    shared      \* sockets registered at one time with another of their user

manager == <<registered, looping, ready, sending>>
sockets == <<owner, at, wire, broken>>
history == <<published, personal, written, owed, shared>>
channel == <<manager, sockets, history>>

Nobody == "nobody"

ASSUME NobodyAssumption == Nobody \notin Users

\* A coroutine that has not begun: the event's number, its receivers in order,
\* and what it says.
Direct(e) == Len(e.to) = 1

\* What the services publish: a detected pair, or the action a decision means
\* for a user.
Bodies == {"DETECTED", "PROCEED", "STANDBY", "ASK_USER", "BLOCK"}

\* A send_to_user coroutine: the event, the user, the sockets still to be
\* served and those that failed.
Task == [event : Nat, user : Users, body : Bodies, todo : SUBSET Sockets, dead : SUBSET Sockets]

ChannelTypeOK ==
    /\ owner \in [Sockets -> Users \cup {Nobody}]
    /\ at \in [Sockets -> {"unused", "accepted", "serving", "gone"}]
    /\ registered \subseteq {s \in Sockets : owner[s] # Nobody}
    /\ looping \in BOOLEAN
    /\ \A i \in DOMAIN ready : ready[i].event \in 1 .. published
    /\ \A t \in sending : t \in Task /\ t.event \in 1 .. published
    /\ broken \subseteq Sockets
    /\ \A s \in Sockets : owed[s] \subseteq 1 .. published
    /\ shared \subseteq Sockets

ChannelInit ==
    /\ owner = [s \in Sockets |-> Nobody]
    /\ at = [s \in Sockets |-> "unused"]
    /\ registered = {}
    /\ looping = FALSE
    /\ ready = <<>>
    /\ sending = {}
    /\ wire = [s \in Sockets |-> <<>>]
    /\ broken = {}
    /\ published = 0
    /\ personal = {}
    /\ written = [s \in Sockets |-> <<>>]
    /\ owed = [s \in Sockets |-> {}]
    /\ shared = {}

SocketsOf(u) == {s \in registered : owner[s] = u}

-----------------------------------------------------------------------------
(* The endpoint /ws/calls *)

\* The token is checked and the connection accepted: the client sees it open.
Accept(s, u) ==
    /\ at[s] = "unused"
    /\ at' = [at EXCEPT ![s] = "accepted"]
    /\ owner' = [owner EXCEPT ![s] = u]
    /\ UNCHANGED <<manager, wire, broken, history>>

\* The rest of connect.
Register(s) ==
    /\ at[s] = "accepted"
    /\ at' = [at EXCEPT ![s] = "serving"]
    /\ registered' = registered \cup {s}
    /\ looping' = TRUE
    /\ shared' = IF SocketsOf(owner[s]) = {} THEN shared
                 ELSE shared \cup ((SocketsOf(owner[s]) \cup {s}) \ broken)
    /\ UNCHANGED <<ready, sending, owner, wire, broken, published, personal, written, owed>>

\* (mutant) only a closing handshake ends the registration, not an error
EndUnregistered(s) ==
    /\ at[s] = "serving"
    /\ s \in broken
    /\ at' = [at EXCEPT ![s] = "gone"]
    /\ owner' = [owner EXCEPT ![s] = Nobody]
    /\ UNCHANGED <<manager, wire, broken, history>>

\* receive_text raises: the client has closed, or the line is found dead.
End(s) ==
    /\ at[s] = "serving"
    /\ s \in broken
    /\ at' = [at EXCEPT ![s] = "gone"]
    /\ owner' = [owner EXCEPT ![s] = Nobody]
    /\ registered' = registered \ {s}
    /\ UNCHANGED <<looping, ready, sending, wire, broken, history>>

\* The line dies: what was on the way is lost, and nothing more is asked of it.
Break(s) ==
    /\ at[s] \in {"accepted", "serving"}
    /\ s \notin broken
    /\ broken' = broken \cup {s}
    /\ wire' = [wire EXCEPT ![s] = <<>>]
    /\ written' = [written EXCEPT ![s] = <<>>]
    /\ owed' = [owed EXCEPT ![s] = {}]
    /\ shared' = shared \ {s}
    /\ UNCHANGED <<manager, owner, at, published, personal>>

-----------------------------------------------------------------------------
(* Publishing, from any thread *)

\* publish_to_user_threadsafe with one receiver, publish_to_users_threadsafe
\* with several.  Before the first connection there is
\* no loop, and the event is dropped.
Publish(to, body) ==
    /\ published' = published + 1
    /\ personal' = personal \cup {n \in {published + 1} : Len(to) = 1}
    /\ IF looping
         THEN /\ ready' = Append(ready, [event |-> published + 1, to |-> to, body |-> body])
              /\ owed' = [s \in Sockets |->
                            IF s \in registered /\ owner[s] \in Range(to)
                            THEN owed[s] \cup {published + 1} ELSE owed[s]]
         ELSE UNCHANGED <<ready, owed>>
    /\ UNCHANGED <<registered, looping, sending, sockets, written, shared>>

-----------------------------------------------------------------------------
(* The event loop *)

\* broadcast_to_users makes a coroutine for each receiver.
Scatter ==
    /\ ready # <<>>
    /\ ~Direct(Head(ready))
    /\ LET e == Head(ready)
       IN  ready' = Tail(ready) \o
               [i \in DOMAIN e.to |-> [e EXCEPT !.to = <<e.to[i]>>]]
    /\ UNCHANGED <<registered, looping, sending, sockets, history>>

\* One send: it reaches the wire of a live socket; on a dead line it is lost
\* or raises (fails).
Write(s, e, body, fails) ==
    /\ fails => s \in broken
    /\ IF s \in broken
         THEN UNCHANGED <<wire, written>>
         ELSE /\ wire' = [wire EXCEPT ![s] = Append(@, body)]
              /\ written' = [written EXCEPT ![s] = Append(@, e)]

\* (mutant) a send that raises ends the sending
StartGivingUp(s, fails) ==
    /\ ready # <<>>
    /\ Direct(Head(ready))
    /\ LET e == Head(ready)
           u == e.to[1]
       IN  /\ s \in SocketsOf(u)
           /\ Write(s, e.event, e.body, fails)
           /\ sending' = sending \cup
                {[event |-> e.event, user |-> u, body |-> e.body,
                  todo |-> IF fails THEN {} ELSE SocketsOf(u) \ {s},
                  dead |-> {d \in {s} : fails}]}
    /\ ready' = Tail(ready)
    /\ UNCHANGED <<registered, looping, owner, at, broken, published, personal, owed, shared>>

\* (mutant) the sends of an event are left to a task of their own
StartLater(s, fails) ==
    /\ ready # <<>>
    /\ Direct(Head(ready))
    /\ ~fails
    /\ LET e == Head(ready)
           u == e.to[1]
       IN  /\ s \in SocketsOf(u)
           /\ sending' = sending \cup
                {[event |-> e.event, user |-> u, body |-> e.body,
                  todo |-> SocketsOf(u), dead |-> {}]}
    /\ ready' = Tail(ready)
    /\ UNCHANGED <<registered, looping, sockets, history>>

\* send_to_user copies the user's sockets and writes to the first.
Start(s, fails) ==
    /\ ready # <<>>
    /\ Direct(Head(ready))
    /\ LET e == Head(ready)
           u == e.to[1]
       IN  /\ s \in SocketsOf(u)
           /\ Write(s, e.event, e.body, fails)
           /\ sending' = sending \cup
                {[event |-> e.event, user |-> u, body |-> e.body,
                  todo |-> SocketsOf(u) \ {s}, dead |-> {d \in {s} : fails}]}
    /\ ready' = Tail(ready)
    /\ UNCHANGED <<registered, looping, owner, at, broken, published, personal, owed, shared>>

\* A user without a socket misses the event.
StartForNobody ==
    /\ ready # <<>>
    /\ Direct(Head(ready))
    /\ SocketsOf(Head(ready).to[1]) = {}
    /\ ready' = Tail(ready)
    /\ UNCHANGED <<registered, looping, sending, sockets, history>>

Continue(t, s, fails) ==
    /\ s \in t.todo
    /\ Write(s, t.event, t.body, fails)
    /\ sending' = (sending \ {t}) \cup
         {[t EXCEPT !.todo = @ \ {s}, !.dead = @ \cup {d \in {s} : fails}]}
    /\ UNCHANGED <<registered, looping, ready, owner, at, broken, published, personal, owed, shared>>

\* The sockets that failed are forgotten.
Finish(t) ==
    /\ t.todo = {}
    /\ sending' = sending \ {t}
    /\ registered' = registered \ t.dead
    /\ UNCHANGED <<looping, ready, sockets, history>>

\* What the loop runs by itself.
Loop ==
    \/ Scatter
    \/ StartForNobody
    \/ \E s \in Sockets, fails \in BOOLEAN : Start(s, fails)
    \/ \E t \in sending, s \in Sockets, fails \in BOOLEAN : Continue(t, s, fails)
    \/ \E t \in sending : Finish(t)

-----------------------------------------------------------------------------
(* Properties *)

\* An event is written to every live socket that was registered when it was
\* published, or the loop still has it to do: that another socket of the user
\* opens, closes or fails meanwhile takes nothing away.
NothingDropped ==
    \A s \in Sockets \ broken : \A n \in owed[s] :
        \/ n \in Range(written[s])
        \/ \E i \in DOMAIN ready : ready[i].event = n /\ owner[s] \in Range(ready[i].to)
        \/ \E t \in sending : t.event = n /\ s \in t.todo

\* The events for one user are written once, and in the order they were
\* published, to a socket that never was one of several of its user.  (With
\* several, a send that waits for one of them lets later events overtake it; an
\* event for several users takes one more turn of the loop than the others.)
InOrder ==
    \A s \in Sockets \ shared : \A i, j \in DOMAIN written[s] :
        i < j /\ {written[s][i], written[s][j]} \subseteq personal
            => written[s][i] < written[s][j]

=============================================================================
