-------------------------- MODULE PushChannel_proofs --------------------------
(***************************************************************************)
(* What one step of the push channel does to its two properties, for any   *)
(* users and sockets and any number of events.  Coordination_proofs puts   *)
(* the steps together.                                                     *)
(***************************************************************************)
EXTENDS PushChannel, SequenceTheorems, TLAPS

Event == [event : Nat, to : Seq(Users), body : Bodies]

ChannelTypes ==
    /\ owner \in [Sockets -> Users \cup {Nobody}]
    /\ at \in [Sockets -> {"unused", "accepted", "serving", "gone"}]
    /\ registered \subseteq Sockets
    /\ ready \in Seq(Event)
    /\ sending \subseteq Task
    /\ broken \subseteq Sockets
    /\ published \in Nat
    /\ personal \subseteq 1 .. published
    /\ written \in [Sockets -> Seq(Nat)]
    /\ owed \in [Sockets -> SUBSET Nat]
    /\ shared \subseteq Sockets

\* A socket is registered while its handler serves it, and whoever is owed
\* something and alive is registered: only the dead are forgotten.
RegistryInv ==
    /\ \A s \in registered : at[s] = "serving"
    /\ \A s \in Sockets \ broken : owed[s] # {} => s \in registered
    /\ \A t \in sending : t.dead \subseteq broken

\* No event comes from the future, and what is written to a line goes with it.
NumberInv ==
    /\ \A i \in DOMAIN ready : ready[i].event <= published
    /\ \A t \in sending : t.event <= published
    /\ \A s \in Sockets : \A i \in DOMAIN written[s] : written[s][i] <= published
    /\ \A s \in broken : written[s] = <<>>

\* A live socket that never had company is alone, and no send waits for its turn.
AloneInv ==
    /\ \A r \in registered, s \in registered \ (broken \cup shared) :
          owner[r] = owner[s] => r = s
    /\ \A t \in sending : \A s \in t.todo : s \in broken \cup shared

\* In the queue the events for one user are in the order they were published,
\* and later than whatever has been written.
QueueInv ==
    /\ \A i \in DOMAIN ready : Len(ready[i].to) # 1 => ready[i].event \notin personal
    /\ \A i, j \in DOMAIN ready :
          i < j /\ {ready[i].event, ready[j].event} \subseteq personal
              => ready[i].event < ready[j].event
    /\ \A s \in Sockets \ shared : \A i \in DOMAIN written[s], j \in DOMAIN ready :
          {written[s][i], ready[j].event} \subseteq personal
              => written[s][i] < ready[j].event

ChannelInv ==
    /\ ChannelTypes
    /\ RegistryInv /\ NumberInv
    /\ NothingDropped
    /\ AloneInv /\ QueueInv
    /\ InOrder

-----------------------------------------------------------------------------
(* Sequences *)

LEMMA InRange ==
    ASSUME NEW S, NEW s \in Seq(S), NEW x
    PROVE  x \in Range(s) <=> \E i \in 1 .. Len(s) : x = s[i]
<1>1. DOMAIN s = 1 .. Len(s) BY LenProperties
<1>2. x \in Range(s) <=> \E i \in DOMAIN s : x = s[i] BY DEF Range
<1> QED BY <1>1, <1>2

LEMMA Appended ==
    ASSUME NEW S, NEW s \in Seq(S), NEW x \in S
    PROVE  /\ Append(s, x) \in Seq(S)
           /\ DOMAIN Append(s, x) = 1 .. Len(s) + 1 /\ Len(s) \in Nat
           /\ DOMAIN s = 1 .. Len(s)
           /\ \A i \in 1 .. Len(s) : Append(s, x)[i] = s[i]
           /\ Append(s, x)[Len(s) + 1] = x
BY AppendProperties, LenProperties

LEMMA Shortened ==
    ASSUME NEW S, NEW s \in Seq(S), s # <<>>
    PROVE  /\ Head(s) = s[1] /\ Head(s) \in S
           /\ Tail(s) \in Seq(S)
           /\ Len(s) \in Nat \ {0} /\ DOMAIN s = 1 .. Len(s)
           /\ DOMAIN Tail(s) = 1 .. Len(s) - 1
           /\ \A i \in 1 .. Len(s) - 1 : Tail(s)[i] = s[i + 1]
<1>1. Head(s) \in S /\ Tail(s) \in Seq(S) /\ Len(Tail(s)) = Len(s) - 1
  BY HeadTailProperties
<1>2. Len(s) \in Nat \ {0} BY EmptySeq
<1>3. DOMAIN s = 1 .. Len(s) /\ DOMAIN Tail(s) = 1 .. Len(s) - 1 BY <1>1, LenProperties
<1>4. Tail(s) = SubSeq(s, 2, Len(s)) BY TailIsSubSeq
<1>5. \A i \in 1 .. Len(s) - 1 : Tail(s)[i] = s[i + 1]
  <2>1. \A i \in 2 .. Len(s) : s[i] \in S BY <1>2, ElementOfSeq
  <2>2. 2 \in Int /\ Len(s) \in Int BY <1>2
  <2>3. \A i \in 1 .. Len(s) - 2 + 1 : SubSeq(s, 2, Len(s))[i] = s[2 + i - 1]
    BY <2>1, <2>2, SubSeqProperties
  <2> QED BY <2>3, <1>2, <1>4
<1>6. Head(s) = s[1] OBVIOUS
<1> QED BY <1>1, <1>2, <1>3, <1>5, <1>6

-----------------------------------------------------------------------------
(* Connections *)

LEMMA AcceptStep ==
    ASSUME ChannelInv, NEW s \in Sockets, NEW u \in Users, Accept(s, u)
    PROVE  ChannelInv'
<1> USE DEF Accept, manager, history, ChannelInv
<1>1. ChannelTypes' BY DEF ChannelTypes
<1>2. RegistryInv' BY DEF ChannelTypes, RegistryInv
<1>3. NumberInv' BY DEF NumberInv
<1>4. NothingDropped'
  <2>1. s \notin broken => owed[s] = {} BY DEF RegistryInv
  <2>2. \A r \in Sockets : r # s => owner'[r] = owner[r] BY DEF ChannelTypes
  <2> QED BY <2>1, <2>2 DEF NothingDropped
<1>5. AloneInv'
  <2>1. s \notin registered BY DEF RegistryInv
  <2>2. \A r \in registered : owner'[r] = owner[r] BY <2>1 DEF ChannelTypes
  <2> QED BY <2>2 DEF AloneInv
<1>6. QueueInv' BY DEF QueueInv
<1>7. InOrder' BY DEF InOrder
<1> QED BY <1>1, <1>2, <1>3, <1>4, <1>5, <1>6, <1>7

LEMMA RegisterStep ==
    ASSUME ChannelInv, NEW s \in Sockets, Register(s)
    PROVE  ChannelInv'
<1> USE DEF Register, ChannelInv
<1>0. shared \subseteq shared' /\ shared' \subseteq Sockets
  BY DEF ChannelTypes, SocketsOf
<1>1. ChannelTypes' BY <1>0 DEF ChannelTypes
<1>2. RegistryInv' BY DEF ChannelTypes, RegistryInv
<1>3. NumberInv' BY DEF NumberInv
<1>4. NothingDropped' BY DEF NothingDropped
<1>5. AloneInv'
  <2>1. ASSUME NEW r \in registered', NEW q \in registered' \ (broken' \cup shared'),
               owner'[r] = owner'[q]
        PROVE  r = q
    <3>1. CASE r \in registered /\ q \in registered BY <2>1, <3>1, <1>0 DEF AloneInv
    <3>2. CASE r = s /\ q # s
      <4>1. q \in SocketsOf(owner[s]) BY <2>1, <3>2 DEF SocketsOf
      <4>2. q \in shared' BY <2>1, <4>1
      <4> QED BY <2>1, <4>2
    <3>3. CASE q = s /\ r # s
      <4>1. r \in SocketsOf(owner[s]) BY <2>1, <3>3 DEF SocketsOf
      <4>2. q \in shared' BY <2>1, <3>3, <4>1
      <4> QED BY <2>1, <4>2
    <3> QED BY <3>1, <3>2, <3>3
  <2>2. \A k \in sending' : \A r \in k.todo : r \in broken' \cup shared'
    BY <1>0 DEF AloneInv
  <2> QED BY <2>1, <2>2 DEF AloneInv
<1>6. QueueInv' BY <1>0 DEF QueueInv
<1>7. InOrder' BY <1>0 DEF InOrder
<1> QED BY <1>1, <1>2, <1>3, <1>4, <1>5, <1>6, <1>7

LEMMA EndStep ==
    ASSUME ChannelInv, NEW s \in Sockets, End(s)
    PROVE  ChannelInv'
<1> USE DEF End, history, ChannelInv
<1>1. ChannelTypes' BY DEF ChannelTypes
<1>2. RegistryInv' BY DEF ChannelTypes, RegistryInv
<1>3. NumberInv' BY DEF NumberInv
<1>4. NothingDropped'
  <2>1. \A r \in Sockets \ broken : owner'[r] = owner[r] BY DEF ChannelTypes
  <2> QED BY <2>1 DEF NothingDropped
<1>5. AloneInv'
  <2>1. \A r \in registered' : r \in registered /\ owner'[r] = owner[r] BY DEF ChannelTypes
  <2> QED BY <2>1 DEF AloneInv
<1>6. QueueInv' BY DEF QueueInv
<1>7. InOrder' BY DEF InOrder
<1> QED BY <1>1, <1>2, <1>3, <1>4, <1>5, <1>6, <1>7

LEMMA BreakStep ==
    ASSUME ChannelInv, NEW s \in Sockets, Break(s)
    PROVE  ChannelInv'
<1> USE DEF Break, manager, ChannelInv
<1>0. /\ <<>> \in Seq(Nat) /\ DOMAIN <<>> = {} /\ written'[s] = <<>>
      /\ \A r \in Sockets : r # s => written'[r] = written[r] /\ owed'[r] = owed[r]
  BY DEF ChannelTypes
<1>1. ChannelTypes' BY <1>0 DEF ChannelTypes
<1>2. RegistryInv' BY <1>0 DEF ChannelTypes, RegistryInv
<1>3. NumberInv' BY <1>0 DEF ChannelTypes, NumberInv
<1>4. NothingDropped' BY <1>0 DEF NothingDropped
<1>5. AloneInv' BY DEF AloneInv
<1>6. QueueInv' BY <1>0 DEF QueueInv
<1>7. InOrder' BY <1>0 DEF InOrder
<1> QED BY <1>1, <1>2, <1>3, <1>4, <1>5, <1>6, <1>7

-----------------------------------------------------------------------------
(* Publishing *)

LEMMA PublishStep ==
    ASSUME ChannelInv, NEW to \in Seq(Users), NEW body \in Bodies, Publish(to, body)
    PROVE  ChannelInv'
<1> DEFINE e == [event |-> published + 1, to |-> to, body |-> body]
<1> USE DEF ChannelInv
<1>0. /\ UNCHANGED <<registered, sending, owner, at, broken, written, shared>>
      /\ published' = published + 1
      /\ personal' = personal \cup {n \in {published + 1} : Len(to) = 1}
      /\ published \in Nat
  BY DEF Publish, sockets, ChannelTypes
<1>1. e \in Event BY <1>0 DEF Event
<1>2. looping => ready' = Append(ready, e) BY DEF Publish
<1>3. ~looping => ready' = ready /\ owed' = owed BY DEF Publish
<1>4. looping => owed' = [s \in Sockets |->
                            IF s \in registered /\ owner[s] \in Range(to)
                            THEN owed[s] \cup {published + 1} ELSE owed[s]]
  BY DEF Publish
<1>5. /\ Len(ready) \in Nat /\ DOMAIN ready = 1 .. Len(ready)
      /\ looping => /\ ready' \in Seq(Event) /\ DOMAIN ready' = 1 .. Len(ready) + 1
                    /\ \A i \in 1 .. Len(ready) : ready'[i] = ready[i]
                    /\ ready'[Len(ready) + 1] = e
  <2> HIDE DEF e
  <2>1. ready \in Seq(Event) BY DEF ChannelTypes
  <2>2. /\ Append(ready, e) \in Seq(Event)
        /\ DOMAIN Append(ready, e) = 1 .. Len(ready) + 1 /\ Len(ready) \in Nat
        /\ DOMAIN ready = 1 .. Len(ready)
        /\ \A i \in 1 .. Len(ready) : Append(ready, e)[i] = ready[i]
        /\ Append(ready, e)[Len(ready) + 1] = e
    BY <2>1, <1>1, Appended, Zenon
  <2> QED BY <2>2, <1>2, Zenon
<1>6. \A i \in DOMAIN ready : /\ i \in DOMAIN ready' /\ ready'[i] = ready[i]
                              /\ ready[i].event \in Nat /\ ready[i].event <= published
  <2>1. \A i \in DOMAIN ready : ready[i] \in Event BY <1>5, ElementOfSeq DEF ChannelTypes
  <2> QED BY <2>1, <1>3, <1>5 DEF NumberInv, Event
<1>7. \A i \in DOMAIN ready' : i \in DOMAIN ready \/ (ready'[i] = e /\ \A j \in DOMAIN ready : j < i)
  BY <1>3, <1>5
<1>8. \A s \in Sockets : \A i \in DOMAIN written[s] :
          written[s][i] \in Nat /\ written[s][i] <= published
  <2>1. ASSUME NEW s \in Sockets, NEW i \in DOMAIN written[s]
        PROVE  written[s][i] \in Nat
    <3>1. written[s] \in Seq(Nat) BY DEF ChannelTypes
    <3> QED BY <3>1, <2>1, LenProperties, ElementOfSeq
  <2> QED BY <2>1 DEF NumberInv
<1>9. \A n \in Nat : n <= published => (n \in personal' <=> n \in personal)
  BY <1>0
<1>10. ChannelTypes'
  <2>1. ready' \in Seq(Event) BY <1>3, <1>5 DEF ChannelTypes
  <2>2. owed' \in [Sockets -> SUBSET Nat]
    <3>1. published + 1 \in Nat BY <1>0
    <3>2. CASE looping
      <4>1. \A s \in Sockets : owed[s] \subseteq Nat BY DEF ChannelTypes
      <4>2. \A s \in Sockets : owed'[s] \subseteq owed[s] \cup {published + 1}
        BY <1>4, <3>2
      <4>3. \A s \in Sockets : owed'[s] \in SUBSET Nat BY <3>1, <4>1, <4>2, Zenon
      <4> QED BY <4>3, <1>4, <3>2, Zenon
    <3> QED BY <3>2, <1>3 DEF ChannelTypes
  <2>3. published' \in Nat /\ personal' \subseteq 1 .. published'
    <3>1. 1 .. published \subseteq 1 .. published + 1 /\ published + 1 \in 1 .. published + 1
      BY <1>0
    <3>2. personal \subseteq 1 .. published BY DEF ChannelTypes
    <3>3. \A n \in personal' : n \in personal \/ n = published + 1 BY <1>0, Zenon
    <3>4. personal' \subseteq 1 .. published + 1 BY <3>1, <3>2, <3>3, Zenon
    <3> QED BY <1>0, <3>4
  <2> QED BY <1>0, <2>1, <2>2, <2>3 DEF ChannelTypes
<1>11. RegistryInv'
  <2>1. \A s \in Sockets : owed'[s] # {} => owed[s] # {} \/ s \in registered
    BY <1>3, <1>4
  <2> QED BY <1>0, <2>1 DEF RegistryInv
<1>12. NumberInv'
  <2>1. \A i \in DOMAIN ready' : ready'[i].event <= published'
    BY <1>0, <1>6, <1>7
  <2>2. \A k \in sending : k.event \in Nat /\ k.event <= published
    BY DEF NumberInv, ChannelTypes, Task
  <2> QED BY <1>0, <1>8, <2>1, <2>2 DEF NumberInv
<1>13. NothingDropped'
  <2>1. ASSUME NEW s \in Sockets \ broken, NEW n \in owed[s]
        PROVE  \/ n \in Range(written[s])
               \/ \E i \in DOMAIN ready' : ready'[i].event = n /\ owner[s] \in Range(ready'[i].to)
               \/ \E k \in sending : k.event = n /\ s \in k.todo
    BY <1>6 DEF NothingDropped
  <2>2. ASSUME NEW s \in Sockets \ broken, NEW n \in owed'[s], n \notin owed[s]
        PROVE  \E i \in DOMAIN ready' : ready'[i].event = n /\ owner[s] \in Range(ready'[i].to)
    <3>1. looping /\ n = published + 1 /\ owner[s] \in Range(to) BY <2>2, <1>3, <1>4
    <3>2. Len(ready) + 1 \in DOMAIN ready' /\ ready'[Len(ready) + 1] = e BY <3>1, <1>5
    <3> QED BY <3>1, <3>2
  <2> QED BY <1>0, <2>1, <2>2 DEF NothingDropped
<1>14. AloneInv' BY <1>0 DEF AloneInv
<1>15. QueueInv'
  <2>1. \A i \in DOMAIN ready' : Len(ready'[i].to) # 1 => ready'[i].event \notin personal'
    <3>1. published + 1 \notin personal BY <1>0 DEF ChannelTypes
    <3> QED BY <1>0, <1>6, <1>7, <1>9, <3>1 DEF QueueInv
  <2>2. ASSUME NEW i \in DOMAIN ready', NEW j \in DOMAIN ready', i < j,
               {ready'[i].event, ready'[j].event} \subseteq personal'
        PROVE  ready'[i].event < ready'[j].event
    <3>1. i \in DOMAIN ready BY <1>5, <1>3, <2>2
    <3>2. CASE j \in DOMAIN ready BY <2>2, <3>1, <3>2, <1>6, <1>9 DEF QueueInv
    <3>3. CASE j \notin DOMAIN ready
      <4>1. ready'[j].event = published + 1 BY <3>3, <1>7
      <4> QED BY <4>1, <3>1, <1>6, <1>0
    <3> QED BY <3>2, <3>3
  <2>3. ASSUME NEW s \in Sockets \ shared, NEW i \in DOMAIN written[s], NEW j \in DOMAIN ready',
               {written[s][i], ready'[j].event} \subseteq personal'
        PROVE  written[s][i] < ready'[j].event
    <3>1. CASE j \in DOMAIN ready BY <2>3, <3>1, <1>6, <1>8, <1>9 DEF QueueInv
    <3>2. CASE j \notin DOMAIN ready
      <4>1. ready'[j].event = published + 1 BY <3>2, <1>7
      <4> QED BY <4>1, <1>8, <1>0
    <3> QED BY <3>1, <3>2
  <2> QED BY <1>0, <2>1, <2>2, <2>3 DEF QueueInv
<1>16. InOrder' BY <1>0, <1>8, <1>9 DEF InOrder
<1> QED BY <1>10, <1>11, <1>12, <1>13, <1>14, <1>15, <1>16

-----------------------------------------------------------------------------
(* The event loop *)

\* What is left of the queue when its head is taken.
LEMMA TakeHead ==
    ASSUME ChannelInv, ready # <<>>, ready' = Tail(ready)
    PROVE  /\ Head(ready) \in Event /\ ready' \in Seq(Event)
           /\ Head(ready) = ready[1] /\ 1 \in DOMAIN ready
           /\ \A i \in DOMAIN ready : i # 1 => i - 1 \in DOMAIN ready' /\ ready'[i - 1] = ready[i]
           /\ \A i \in DOMAIN ready' : /\ i + 1 \in DOMAIN ready /\ ready'[i] = ready[i + 1]
                                       /\ 1 < i + 1 /\ \A j \in DOMAIN ready' : i < j => i + 1 < j + 1
BY Shortened DEF ChannelInv, ChannelTypes

\* The rest of the queue is still in order, and still later than what was
\* written.
LEMMA QueueRest ==
    ASSUME ChannelInv, ready # <<>>, ready' = Tail(ready),
           UNCHANGED <<personal, written, shared, published>>
    PROVE  /\ \A i \in DOMAIN ready' : ready'[i].event <= published
           /\ QueueInv'
<1> USE TakeHead DEF ChannelInv
<1>1. \A i \in DOMAIN ready' : ready'[i].event <= published BY DEF NumberInv
<1>2. \A i \in DOMAIN ready' : Len(ready'[i].to) # 1 => ready'[i].event \notin personal
  BY DEF QueueInv
<1>3. \A i, j \in DOMAIN ready' :
          i < j /\ {ready'[i].event, ready'[j].event} \subseteq personal
              => ready'[i].event < ready'[j].event
  BY DEF QueueInv
<1>4. \A s \in Sockets \ shared : \A i \in DOMAIN written[s], j \in DOMAIN ready' :
          {written[s][i], ready'[j].event} \subseteq personal
              => written[s][i] < ready'[j].event
  BY DEF QueueInv
<1> QED BY <1>1, <1>2, <1>3, <1>4 DEF QueueInv

LEMMA StartForNobodyStep ==
    ASSUME ChannelInv, StartForNobody
    PROVE  ChannelInv'
<1> USE DEF StartForNobody, sockets, history, ChannelInv
<1>1. ChannelTypes' BY TakeHead DEF ChannelTypes
<1>2. RegistryInv' BY DEF RegistryInv
<1>3. NumberInv' /\ QueueInv' BY QueueRest DEF NumberInv
<1>4. NothingDropped'
  <2> SUFFICES ASSUME NEW s \in Sockets \ broken, NEW n \in owed[s],
                      NEW i \in DOMAIN ready, ready[i].event = n, owner[s] \in Range(ready[i].to)
               PROVE  \E j \in DOMAIN ready' : ready'[j].event = n /\ owner[s] \in Range(ready'[j].to)
    BY DEF NothingDropped
  <2>1. s \in registered BY DEF RegistryInv
  <2>2. CASE i # 1 BY <2>2, TakeHead
  <2>3. CASE i = 1
    <3>1. ready[1] \in Event /\ Len(ready[1].to) = 1 BY TakeHead DEF Direct
    <3>2. owner[s] = ready[1].to[1] BY <3>1, <2>3, InRange DEF Event
    <3>3. s \in SocketsOf(Head(ready).to[1]) BY <3>2, <2>1, TakeHead DEF SocketsOf
    <3> QED BY <3>3
  <2> QED BY <2>2, <2>3
<1>5. AloneInv' BY DEF AloneInv
<1>6. InOrder' BY DEF InOrder
<1> QED BY <1>1, <1>2, <1>3, <1>4, <1>5, <1>6

\* What one send does to the record of what was written.
LEMMA WriteFacts ==
    ASSUME ChannelTypes, NEW s \in Sockets, NEW e \in Nat, NEW body, NEW fails \in BOOLEAN,
           Write(s, e, body, fails)
    PROVE  /\ written' \in [Sockets -> Seq(Nat)]
           /\ \A r \in Sockets : r # s \/ s \in broken => written'[r] = written[r]
           /\ s \notin broken =>
                /\ Len(written[s]) \in Nat
                /\ DOMAIN written[s] = 1 .. Len(written[s])
                /\ DOMAIN written'[s] = 1 .. Len(written[s]) + 1
                /\ \A i \in 1 .. Len(written[s]) : written'[s][i] = written[s][i]
                /\ written'[s][Len(written[s]) + 1] = e
           /\ fails => s \in broken
<1>0. written \in [Sockets -> Seq(Nat)] /\ written[s] \in Seq(Nat) BY DEF ChannelTypes
<1>1. CASE s \in broken BY <1>0, <1>1 DEF Write
<1>2. CASE s \notin broken
  <2>1. written' = [written EXCEPT ![s] = Append(written[s], e)] /\ ~fails BY <1>2 DEF Write
  <2>2. /\ Append(written[s], e) \in Seq(Nat)
        /\ DOMAIN Append(written[s], e) = 1 .. Len(written[s]) + 1 /\ Len(written[s]) \in Nat
        /\ DOMAIN written[s] = 1 .. Len(written[s])
        /\ \A i \in 1 .. Len(written[s]) : Append(written[s], e)[i] = written[s][i]
        /\ Append(written[s], e)[Len(written[s]) + 1] = e
    <3> DEFINE w == written[s]
    <3>1. w \in Seq(Nat) BY <1>0
    <3> HIDE DEF w
    <3>2. /\ Append(w, e) \in Seq(Nat)
          /\ DOMAIN Append(w, e) = 1 .. Len(w) + 1 /\ Len(w) \in Nat
          /\ DOMAIN w = 1 .. Len(w)
          /\ \A i \in 1 .. Len(w) : Append(w, e)[i] = w[i]
          /\ Append(w, e)[Len(w) + 1] = e
      BY <3>1, Appended
    <3> QED BY <3>2 DEF w
  <2>3. written'[s] = Append(written[s], e) BY <1>0, <2>1
  <2>4. written' \in [Sockets -> Seq(Nat)] BY <1>0, <2>1, <2>2
  <2>5. \A r \in Sockets : r # s => written'[r] = written[r] BY <1>0, <2>1
  <2> QED BY <1>2, <2>1, <2>2, <2>3, <2>4, <2>5, Zenon
<1> QED BY <1>1, <1>2

\* Nothing written is ever taken back by a send, and a live socket gets it.
LEMMA WriteKeeps ==
    ASSUME ChannelTypes, NEW s \in Sockets, NEW e \in Nat, NEW body, NEW fails \in BOOLEAN,
           Write(s, e, body, fails)
    PROVE  /\ \A r \in Sockets : Range(written[r]) \subseteq Range(written'[r])
           /\ s \notin broken => e \in Range(written'[s])
<1>1. \A r \in Sockets : r # s \/ s \in broken => Range(written[r]) \subseteq Range(written'[r])
  BY WriteFacts, Zenon
<1>2. CASE s \notin broken
  <2>1. /\ Len(written[s]) \in Nat
        /\ DOMAIN written[s] = 1 .. Len(written[s])
        /\ DOMAIN written'[s] = 1 .. Len(written[s]) + 1
        /\ \A i \in 1 .. Len(written[s]) : written'[s][i] = written[s][i]
        /\ written'[s][Len(written[s]) + 1] = e
    BY <1>2, WriteFacts
  <2>2. Range(written[s]) \subseteq Range(written'[s]) BY <2>1 DEF Range
  <2>3. e \in Range(written'[s]) BY <2>1 DEF Range
  <2> QED BY <1>1, <2>2, <2>3
<1> QED BY <1>1, <1>2

\* An event that a socket is owed, stands first in the queue and is for one
\* user, is for this socket's.
LEMMA HeadIsFor ==
    ASSUME ChannelInv, ready # <<>>, Direct(Head(ready)), ready' = Tail(ready),
           NEW s \in Sockets \ broken, owed[s] # {},
           owner[s] \in Range(ready[1].to)
    PROVE  s \in SocketsOf(Head(ready).to[1])
<1>1. ready[1] \in Event /\ Len(ready[1].to) = 1 BY TakeHead DEF Direct
<1>2. owner[s] = ready[1].to[1] BY <1>1, InRange DEF Event
<1>3. s \in registered BY DEF ChannelInv, RegistryInv
<1> QED BY <1>2, <1>3, TakeHead DEF SocketsOf

LEMMA StartStep ==
    ASSUME ChannelInv, NEW s \in Sockets, NEW fails \in BOOLEAN, Start(s, fails)
    PROVE  ChannelInv'
<1> DEFINE e == Head(ready)
           u == e.to[1]
           task == [event |-> e.event, user |-> u, body |-> e.body,
                    todo |-> SocketsOf(u) \ {s}, dead |-> {d \in {s} : fails}]
<1> USE DEF ChannelInv
<1>0. /\ ready # <<>> /\ Direct(e) /\ ready' = Tail(ready)
      /\ s \in SocketsOf(u) /\ s \in registered /\ owner[s] = u
      /\ Write(s, e.event, e.body, fails)
      /\ sending' = sending \cup {task}
      /\ UNCHANGED <<registered, owner, at, broken, published, personal, owed, shared>>
  BY DEF Start, SocketsOf
<1>1. /\ e \in Event /\ ready' \in Seq(Event) /\ e = ready[1] /\ 1 \in DOMAIN ready
      /\ \A i \in DOMAIN ready : i # 1 => i - 1 \in DOMAIN ready' /\ ready'[i - 1] = ready[i]
      /\ \A i \in DOMAIN ready' : i + 1 \in DOMAIN ready /\ ready'[i] = ready[i + 1] /\ 1 < i + 1
  BY <1>0, TakeHead
<1>2. e.event \in Nat /\ e.body \in Bodies /\ u \in Users
  <2>1. e.to \in Seq(Users) /\ Len(e.to) = 1 BY <1>0, <1>1 DEF Event, Direct
  <2> QED BY <1>1, <2>1, ElementOfSeq DEF Event
<1>3. task \in Task BY <1>2 DEF Task, SocketsOf, ChannelTypes
<1>4. /\ written' \in [Sockets -> Seq(Nat)]
      /\ \A r \in Sockets : r # s \/ s \in broken => written'[r] = written[r]
      /\ s \notin broken =>
                /\ Len(written[s]) \in Nat
                /\ DOMAIN written[s] = 1 .. Len(written[s])
                /\ DOMAIN written'[s] = 1 .. Len(written[s]) + 1
                /\ \A i \in 1 .. Len(written[s]) : written'[s][i] = written[s][i]
                /\ written'[s][Len(written[s]) + 1] = e.event
      /\ fails => s \in broken
  BY <1>0, <1>2, WriteFacts
<1>4a. /\ \A r \in Sockets : Range(written[r]) \subseteq Range(written'[r])
       /\ s \notin broken => e.event \in Range(written'[s])
  BY <1>0, <1>2, WriteKeeps
<1> HIDE DEF e, u
\* what is written to a socket is what was written before, or this event
<1>5. \A r \in Sockets : \A i \in DOMAIN written'[r] :
          \/ i \in DOMAIN written[r] /\ written'[r][i] = written[r][i]
          \/ r = s /\ s \notin broken /\ written'[r][i] = e.event
                   /\ \A j \in DOMAIN written'[r] : ~(i < j)
  BY <1>4
<1>6. ChannelTypes' BY <1>0, <1>1, <1>3, <1>4 DEF ChannelTypes
<1>7. RegistryInv' BY <1>0, <1>4 DEF RegistryInv
<1>8. NumberInv'
  <2>1. \A i \in DOMAIN ready' : ready'[i].event <= published BY <1>1 DEF NumberInv
  <2>2. \A r \in Sockets : \A i \in DOMAIN written'[r] : written'[r][i] <= published
    BY <1>1, <1>5 DEF NumberInv
  <2>3. \A r \in broken : written'[r] = <<>> BY <1>4 DEF NumberInv, ChannelTypes
  <2>4. \A k \in sending' : k.event <= published BY <1>0, <1>1 DEF NumberInv
  <2> QED BY <1>0, <2>1, <2>2, <2>3, <2>4 DEF NumberInv
<1>9. NothingDropped'
  <2>0. UNCHANGED <<owner, broken, owed>> BY <1>0
  <2> SUFFICES ASSUME NEW r \in Sockets \ broken, NEW n \in owed[r]
               PROVE  \/ n \in Range(written'[r])
                      \/ \E i \in DOMAIN ready' : ready'[i].event = n /\ owner[r] \in Range(ready'[i].to)
                      \/ \E t \in sending' : t.event = n /\ r \in t.todo
    BY <2>0 DEF NothingDropped
  <2>1. CASE n \in Range(written[r]) BY <2>1, <1>4a
  <2>2. CASE \E t \in sending : t.event = n /\ r \in t.todo BY <2>2, <1>0
  <2>3. ASSUME NEW i \in DOMAIN ready, ready[i].event = n, owner[r] \in Range(ready[i].to)
        PROVE  \/ n \in Range(written'[r])
               \/ \E j \in DOMAIN ready' : ready'[j].event = n /\ owner[r] \in Range(ready'[j].to)
               \/ \E t \in sending' : t.event = n /\ r \in t.todo
    <3>1. CASE i # 1 BY <2>3, <3>1, <1>1
    <3>2. CASE i = 1
      <4>1. n = e.event /\ r \in SocketsOf(u) BY <2>3, <3>2, <1>0, <1>1, HeadIsFor DEF e, u
      <4>2. CASE r = s BY <4>1, <4>2, <1>4a
      <4>3. CASE r # s
        <5>1. task \in sending' /\ task.event = n /\ r \in task.todo BY <1>0, <4>1, <4>3
        <5> QED BY <5>1
      <4> QED BY <4>2, <4>3
    <3> QED BY <3>1, <3>2
  <2> QED BY <2>1, <2>2, <2>3 DEF NothingDropped
<1>10. AloneInv'
  <2>1. ASSUME NEW r \in SocketsOf(u) \ {s} PROVE r \in broken \cup shared
    BY <2>1, <1>0 DEF AloneInv, SocketsOf, ChannelTypes
  <2>2. \A t \in sending' : \A r \in t.todo : r \in broken \cup shared
    BY <2>1, <1>0 DEF AloneInv
  <2> QED BY <1>0, <2>2 DEF AloneInv
<1>11. QueueInv'
  <2>1. /\ \A i \in DOMAIN ready' : Len(ready'[i].to) # 1 => ready'[i].event \notin personal
        /\ \A i, j \in DOMAIN ready' :
             i < j /\ {ready'[i].event, ready'[j].event} \subseteq personal
                 => ready'[i].event < ready'[j].event
    <3>1. \A i, j \in DOMAIN ready' : i < j => i + 1 < j + 1 BY <1>0, TakeHead
    <3> QED BY <1>1, <3>1 DEF QueueInv
  <2>2. ASSUME NEW r \in Sockets \ shared, NEW i \in DOMAIN written'[r], NEW j \in DOMAIN ready',
               {written'[r][i], ready'[j].event} \subseteq personal
        PROVE  written'[r][i] < ready'[j].event
    <3>1. CASE i \in DOMAIN written[r] /\ written'[r][i] = written[r][i]
      BY <2>2, <3>1, <1>1 DEF QueueInv
    <3>2. CASE written'[r][i] = e.event BY <2>2, <3>2, <1>1 DEF QueueInv
    <3> QED BY <1>5, <3>1, <3>2
  <2> QED BY <1>0, <2>1, <2>2 DEF QueueInv
<1>12. InOrder'
  <2> SUFFICES ASSUME NEW r \in Sockets \ shared,
                      NEW i \in DOMAIN written'[r], NEW j \in DOMAIN written'[r], i < j,
                      {written'[r][i], written'[r][j]} \subseteq personal
               PROVE  written'[r][i] < written'[r][j]
    BY <1>0 DEF InOrder
  <2>1. i \in DOMAIN written[r] /\ written'[r][i] = written[r][i] BY <1>5
  <2>2. CASE j \in DOMAIN written[r] /\ written'[r][j] = written[r][j]
    BY <2>1, <2>2 DEF InOrder
  <2>3. CASE written'[r][j] = e.event BY <2>1, <2>3, <1>1 DEF QueueInv
  <2> QED BY <1>5, <2>2, <2>3
<1> QED BY <1>6, <1>7, <1>8, <1>9, <1>10, <1>11, <1>12

LEMMA ContinueStep ==
    ASSUME ChannelInv, NEW t \in sending, NEW s \in Sockets, NEW fails \in BOOLEAN,
           Continue(t, s, fails)
    PROVE  ChannelInv'
<1> DEFINE rest == [t EXCEPT !.todo = @ \ {s}, !.dead = @ \cup {d \in {s} : fails}]
<1> USE DEF ChannelInv
<1>0. /\ s \in t.todo
      /\ Write(s, t.event, t.body, fails)
      /\ sending' = (sending \ {t}) \cup {rest}
      /\ UNCHANGED <<registered, ready, owner, at, broken, published, personal, owed, shared>>
  BY DEF Continue
<1>1. /\ t \in Task /\ t.event \in Nat /\ t.event <= published /\ t.dead \subseteq broken
      /\ s \in broken \cup shared
  BY <1>0 DEF ChannelTypes, NumberInv, RegistryInv, AloneInv, Task
<1>2. /\ written' \in [Sockets -> Seq(Nat)]
      /\ \A r \in Sockets : r # s \/ s \in broken => written'[r] = written[r]
      /\ s \notin broken =>
                /\ Len(written[s]) \in Nat
                /\ DOMAIN written[s] = 1 .. Len(written[s])
                /\ DOMAIN written'[s] = 1 .. Len(written[s]) + 1
                /\ \A i \in 1 .. Len(written[s]) : written'[s][i] = written[s][i]
                /\ written'[s][Len(written[s]) + 1] = t.event
      /\ fails => s \in broken
  BY <1>0, <1>1, WriteFacts
<1>3. /\ \A r \in Sockets : Range(written[r]) \subseteq Range(written'[r])
      /\ s \notin broken => t.event \in Range(written'[s])
  BY <1>0, <1>1, WriteKeeps
<1>4. /\ rest \in Task /\ rest.event = t.event /\ rest.todo = t.todo \ {s}
      /\ rest.dead \subseteq broken
  BY <1>1, <1>2 DEF Task
<1> HIDE DEF rest
\* nothing changes for a socket that never had company
<1>5. \A r \in Sockets \ shared : written'[r] = written[r] BY <1>1, <1>2
<1>6. ChannelTypes' BY <1>0, <1>2, <1>4 DEF ChannelTypes
<1>7. RegistryInv' BY <1>0, <1>4 DEF RegistryInv
<1>8. NumberInv'
  <2>1. \A r \in Sockets : \A i \in DOMAIN written'[r] : written'[r][i] <= published
    BY <1>1, <1>2 DEF NumberInv
  <2>2. \A r \in broken : written'[r] = <<>> BY <1>2 DEF NumberInv, ChannelTypes
  <2>3. \A k \in sending' : k.event <= published BY <1>0, <1>1, <1>4 DEF NumberInv
  <2> QED BY <1>0, <2>1, <2>2, <2>3 DEF NumberInv
<1>9. NothingDropped'
  <2>0. UNCHANGED <<owner, broken, owed, ready>> BY <1>0
  <2> SUFFICES ASSUME NEW r \in Sockets \ broken, NEW n \in owed[r]
               PROVE  \/ n \in Range(written'[r])
                      \/ \E i \in DOMAIN ready : ready[i].event = n /\ owner[r] \in Range(ready[i].to)
                      \/ \E k \in sending' : k.event = n /\ r \in k.todo
    BY <2>0 DEF NothingDropped
  <2>1. CASE n \in Range(written[r]) BY <2>1, <1>3
  <2>2. ASSUME NEW k \in sending, k.event = n, r \in k.todo
        PROVE  \/ n \in Range(written'[r])
               \/ \E l \in sending' : l.event = n /\ r \in l.todo
    <3>1. CASE k # t BY <2>2, <3>1, <1>0
    <3>2. CASE k = t /\ r = s BY <2>2, <3>2, <1>3
    <3>3. CASE k = t /\ r # s BY <2>2, <3>3, <1>0, <1>4
    <3> QED BY <3>1, <3>2, <3>3
  <2> QED BY <2>1, <2>2 DEF NothingDropped
<1>10. AloneInv' BY <1>0, <1>4 DEF AloneInv
<1>11. QueueInv' BY <1>0, <1>5 DEF QueueInv
<1>12. InOrder' BY <1>0, <1>5 DEF InOrder
<1> QED BY <1>6, <1>7, <1>8, <1>9, <1>10, <1>11, <1>12

LEMMA FinishStep ==
    ASSUME ChannelInv, NEW t \in sending, Finish(t)
    PROVE  ChannelInv'
<1> USE DEF Finish, sockets, history, ChannelInv
<1>1. ChannelTypes' BY DEF ChannelTypes
<1>2. RegistryInv' BY DEF RegistryInv
<1>3. NumberInv' BY DEF NumberInv
<1>4. NothingDropped' BY DEF NothingDropped
<1>5. AloneInv' BY DEF AloneInv
<1>6. QueueInv' BY DEF QueueInv
<1>7. InOrder' BY DEF InOrder
<1> QED BY <1>1, <1>2, <1>3, <1>4, <1>5, <1>6, <1>7

\* The head of the queue is taken apart, one copy for each receiver.
LEMMA Scattered ==
    ASSUME ChannelInv, Scatter
    PROVE  /\ ready' \in Seq(Event)
           /\ \A i \in DOMAIN ready : i # 1 => i - 1 \in DOMAIN ready' /\ ready'[i - 1] = ready[i]
           /\ \A u \in Range(ready[1].to) : \E i \in DOMAIN ready' :
                 ready'[i].event = ready[1].event /\ u \in Range(ready'[i].to)
           /\ \A i \in DOMAIN ready' :
                 \/ i + 1 \in DOMAIN ready /\ ready'[i] = ready[i + 1]
                 \/ /\ ready'[i].event = ready[1].event /\ Len(ready'[i].to) = 1
                    /\ ready'[i].body = ready[1].body
                    /\ \E k \in DOMAIN ready[1].to : ready'[i].to = <<ready[1].to[k]>>
           /\ 1 \in DOMAIN ready /\ Len(ready[1].to) # 1 /\ ready[1].event \in Nat
           /\ \A i \in DOMAIN ready' : i \in Nat \ {0}
<1> DEFINE e == ready[1]
           n == Len(e.to)
           copies == [i \in DOMAIN e.to |-> [e EXCEPT !.to = <<e.to[i]>>]]
           rest == Tail(ready)
           m == Len(rest)
<1>1. /\ ready # <<>> /\ ready \in Seq(Event) BY DEF Scatter, ChannelInv, ChannelTypes
<1>2. /\ Head(ready) = e /\ e \in Event /\ rest \in Seq(Event)
      /\ Len(ready) \in Nat \ {0} /\ DOMAIN ready = 1 .. Len(ready)
      /\ DOMAIN rest = 1 .. Len(ready) - 1
      /\ \A i \in 1 .. Len(ready) - 1 : rest[i] = ready[i + 1]
  BY <1>1, Shortened
<1>3. n # 1 /\ ready' = rest \o copies BY <1>2 DEF Scatter, Direct
<1>4. e.to \in Seq(Users) /\ n \in Nat /\ DOMAIN e.to = 1 .. n /\ e.event \in Nat /\ e.body \in Bodies
  BY <1>2, LenProperties DEF Event
<1>5. \A i \in 1 .. n : /\ copies[i] \in Event /\ copies[i].event = e.event
                        /\ copies[i].to = <<e.to[i]>> /\ copies[i].body = e.body
  <2> SUFFICES ASSUME NEW i \in 1 .. n
               PROVE  /\ copies[i] \in Event /\ copies[i].event = e.event
                      /\ copies[i].to = <<e.to[i]>> /\ copies[i].body = e.body
    OBVIOUS
  <2>1. e.to[i] \in Users BY <1>4, ElementOfSeq
  <2>2. <<e.to[i]>> \in Seq(Users) BY <2>1
  <2>3. copies[i] = [e EXCEPT !.to = <<e.to[i]>>] BY <1>4
  <2> QED BY <1>2, <2>2, <2>3 DEF Event
<1>6. copies \in [1 .. n -> Event] /\ copies \in Seq(Event) /\ Len(copies) = n
  <2>1. copies \in [1 .. n -> Event] BY <1>4, <1>5
  <2> QED BY <2>1, <1>4
<1>7. /\ ready' \in Seq(Event) /\ Len(ready') = m + n
      /\ \A i \in 1 .. m + n : ready'[i] = IF i <= m THEN rest[i] ELSE copies[i - m]
  <2> HIDE DEF copies, rest
  <2>1. /\ rest \o copies \in Seq(Event)
        /\ Len(rest \o copies) = m + Len(copies)
        /\ \A i \in 1 .. m + Len(copies) :
              (rest \o copies)[i] = IF i <= m THEN rest[i] ELSE copies[i - m]
    BY <1>2, <1>6, ConcatProperties, Zenon
  <2>2. Len(copies) = n BY <1>6
  <2> QED BY <1>3, <2>1, <2>2, Zenon
<1>8. m \in Nat /\ m = Len(ready) - 1 /\ DOMAIN ready' = 1 .. m + n
  BY <1>2, <1>7, LenProperties
<1> HIDE DEF copies, rest, m, n, e
<1>9. \A i \in DOMAIN ready : i # 1 => i - 1 \in DOMAIN ready' /\ ready'[i - 1] = ready[i]
  BY <1>2, <1>4, <1>7, <1>8
<1>10. ASSUME NEW u \in Range(e.to)
       PROVE  \E i \in DOMAIN ready' : ready'[i].event = e.event /\ u \in Range(ready'[i].to)
  <2>1. PICK k \in 1 .. n : u = e.to[k] BY <1>4, InRange DEF n
  <2>2. m + k \in DOMAIN ready' /\ ready'[m + k] = copies[k]
    <3>1. m + k \in 1 .. m + n /\ ~(m + k <= m) /\ (m + k) - m = k BY <1>4, <1>8
    <3>2. ready'[m + k] = copies[(m + k) - m] BY <1>7, <3>1, Zenon
    <3> QED BY <1>8, <3>1, <3>2, Zenon
  <2>3. ready'[m + k].event = e.event /\ ready'[m + k].to = <<u>> BY <2>1, <2>2, <1>5
  <2>4. u \in Range(<<u>>) BY DEF Range
  <2> QED BY <2>2, <2>3, <2>4
<1>11. ASSUME NEW i \in DOMAIN ready'
       PROVE  \/ i + 1 \in DOMAIN ready /\ ready'[i] = ready[i + 1]
              \/ /\ ready'[i].event = e.event /\ Len(ready'[i].to) = 1 /\ ready'[i].body = e.body
                 /\ \E k \in DOMAIN e.to : ready'[i].to = <<e.to[k]>>
  <2>1. CASE i <= m BY <2>1, <1>2, <1>4, <1>7, <1>8
  <2>2. CASE ~(i <= m)
    <3>1. i - m \in 1 .. n /\ ready'[i] = copies[i - m] BY <2>2, <1>4, <1>7, <1>8
    <3>2. /\ ready'[i].event = e.event /\ ready'[i].to = <<e.to[i - m]>>
          /\ ready'[i].body = e.body /\ i - m \in DOMAIN e.to
      BY <3>1, <1>4, <1>5
    <3> QED BY <3>2
  <2> QED BY <2>1, <2>2
<1>12. 1 \in DOMAIN ready /\ \A i \in DOMAIN ready' : i \in Nat \ {0} BY <1>2, <1>4, <1>8
<1> QED BY <1>3, <1>4, <1>7, <1>9, <1>10, <1>11, <1>12, Zenon DEF e, n

LEMMA ScatterStep ==
    ASSUME ChannelInv, Scatter
    PROVE  ChannelInv'
<1> USE DEF ChannelInv
<1>0. UNCHANGED <<registered, looping, sending, sockets, history>> BY DEF Scatter
<1>1. /\ ready' \in Seq(Event)
      /\ \A i \in DOMAIN ready : i # 1 => i - 1 \in DOMAIN ready' /\ ready'[i - 1] = ready[i]
      /\ \A u \in Range(ready[1].to) : \E i \in DOMAIN ready' :
            ready'[i].event = ready[1].event /\ u \in Range(ready'[i].to)
      /\ \A i \in DOMAIN ready' :
            \/ i + 1 \in DOMAIN ready /\ ready'[i] = ready[i + 1]
            \/ ready'[i].event = ready[1].event /\ Len(ready'[i].to) = 1
      /\ 1 \in DOMAIN ready /\ Len(ready[1].to) # 1
      /\ \A i \in DOMAIN ready' : i \in Nat \ {0}
  BY Scattered
<1> USE <1>0 DEF sockets, history
<1>2. ready[1].event \notin personal BY <1>1 DEF QueueInv
<1>3. ChannelTypes' BY <1>1 DEF ChannelTypes
<1>4. RegistryInv' BY DEF RegistryInv
<1>5. NumberInv'
  <2>1. \A i \in DOMAIN ready' : ready'[i].event <= published BY <1>1 DEF NumberInv
  <2> QED BY <2>1 DEF NumberInv
<1>6. NothingDropped'
  <2>0. UNCHANGED <<owner, broken, owed, written, sending>> OBVIOUS
  <2> SUFFICES ASSUME NEW s \in Sockets \ broken, NEW n \in owed[s],
                      NEW i \in DOMAIN ready, ready[i].event = n, owner[s] \in Range(ready[i].to)
               PROVE  \E j \in DOMAIN ready' : ready'[j].event = n /\ owner[s] \in Range(ready'[j].to)
    BY <2>0 DEF NothingDropped
  <2>1. CASE i = 1 BY <2>1, <1>1
  <2>2. CASE i # 1 BY <2>2, <1>1
  <2> QED BY <2>1, <2>2
<1>7. AloneInv' BY DEF AloneInv
<1>8. QueueInv'
  <2>1. \A i \in DOMAIN ready' : Len(ready'[i].to) # 1 => ready'[i].event \notin personal
    BY <1>1 DEF QueueInv
  <2>2. \A i \in DOMAIN ready' : ready'[i].event \in personal =>
            i + 1 \in DOMAIN ready /\ ready'[i] = ready[i + 1]
    BY <1>1, <1>2
  <2>3. \A i, j \in DOMAIN ready' : i < j => i + 1 < j + 1 BY <1>1
  <2>4. \A i, j \in DOMAIN ready' :
            i < j /\ {ready'[i].event, ready'[j].event} \subseteq personal
                => ready'[i].event < ready'[j].event
    BY <2>2, <2>3 DEF QueueInv
  <2>5. \A s \in Sockets \ shared : \A i \in DOMAIN written[s], j \in DOMAIN ready' :
            {written[s][i], ready'[j].event} \subseteq personal
                => written[s][i] < ready'[j].event
    BY <2>2 DEF QueueInv
  <2> QED BY <2>1, <2>4, <2>5 DEF QueueInv
<1>9. InOrder' BY DEF InOrder
<1> QED BY <1>3, <1>4, <1>5, <1>6, <1>7, <1>8, <1>9

=============================================================================
