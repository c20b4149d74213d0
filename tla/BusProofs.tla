------------------------------ MODULE BusProofs ------------------------------
(***************************************************************************)
(* Delivery of the event bus, for every set of subscribers and topics,     *)
(* every buffer size and both kinds of channel.                            *)
(***************************************************************************)
EXTENDS EventBus, TLAPS

Event == [seq : 1..MaxEvents, topic : Topic]

LEMMA TypeParts ==
    TypeOK <=> /\ eventSeq \in 0..MaxEvents
               /\ chain \in Seq(Event)
               /\ subs \subseteq Sub
               /\ queue \in [Sub -> Seq(Event)]
               /\ \A s \in Sub : Len(queue[s]) <= Buffer
               /\ got \in [Sub -> Seq(Event)]
               /\ reader \in [Sub -> {"none", "open", "gone", "ended"}]
               /\ since \in [Sub -> 0..MaxEvents]
BY DEF TypeOK, Event

LEMMA TypePartsNext ==
    TypeOK' <=> /\ eventSeq' \in 0..MaxEvents
                /\ chain' \in Seq(Event)
                /\ subs' \subseteq Sub
                /\ queue' \in [Sub -> Seq(Event)]
                /\ \A s \in Sub : Len(queue'[s]) <= Buffer
                /\ got' \in [Sub -> Seq(Event)]
                /\ reader' \in [Sub -> {"none", "open", "gone", "ended"}]
                /\ since' \in [Sub -> 0..MaxEvents]
BY DEF TypeOK, Event

\* The record Publish makes.
NewEvent(topic) == [seq |-> eventSeq + 1, topic |-> topic]
Takers(topic) == {s \in {t \in subs : topic \in Topics[t]} : Takes(s)}

LEMMA Published ==
    ASSUME NEW topic \in Topic, Publish(topic)
    PROVE  /\ eventSeq < MaxEvents /\ eventSeq' = eventSeq + 1
           /\ queue' = [s \in Sub |-> IF s \in Takers(topic) THEN Append(queue[s], NewEvent(topic))
                                      ELSE queue[s]]
           /\ subs' = (subs \ {s \in subs : topic \in Topics[s]}) \cup Takers(topic)
           /\ chain' = Append(chain, NewEvent(topic))
           /\ UNCHANGED <<reader, since, got>>
BY DEF Publish, Takers, NewEvent

LEMMA NextTyped == TypeOK /\ [Next]_vars => TypeOK'
<1> SUFFICES ASSUME TypeOK, [Next]_vars PROVE TypeOK'
  OBVIOUS
<1>0. /\ eventSeq \in 0..MaxEvents /\ chain \in Seq(Event) /\ subs \subseteq Sub
      /\ queue \in [Sub -> Seq(Event)] /\ \A s \in Sub : Len(queue[s]) <= Buffer
      /\ got \in [Sub -> Seq(Event)]
      /\ reader \in [Sub -> {"none", "open", "gone", "ended"}] /\ since \in [Sub -> 0..MaxEvents]
  BY TypeParts
<1>1. ASSUME NEW topic \in Topic, Publish(topic) PROVE TypeOK'
  <2>1. /\ eventSeq < MaxEvents /\ eventSeq' = eventSeq + 1
        /\ queue' = [s \in Sub |-> IF s \in Takers(topic) THEN Append(queue[s], NewEvent(topic))
                                   ELSE queue[s]]
        /\ subs' \subseteq Sub
        /\ chain' = Append(chain, NewEvent(topic))
        /\ UNCHANGED <<reader, since, got>>
    BY <1>0, <1>1, Published DEF Takers
  <2>2. NewEvent(topic) \in Event /\ eventSeq' \in 0..MaxEvents
    BY <1>0, <2>1, BusAssumption DEF NewEvent, Event
  <2>3. \A s \in Takers(topic) : Len(queue[s]) < Buffer
    BY DEF Takers, Takes
  <2>4. queue' \in [Sub -> Seq(Event)] /\ chain' \in Seq(Event)
    BY <1>0, <2>1, <2>2
  <2>5. ASSUME NEW s \in Sub PROVE Len(queue'[s]) <= Buffer
    <3>1. queue[s] \in Seq(Event) /\ Len(queue[s]) <= Buffer
      BY <1>0
    <3>2. CASE s \in Takers(topic)
      <4>1. queue'[s] = Append(queue[s], NewEvent(topic))
        BY <2>1, <3>2
      <4>2. Len(queue'[s]) = Len(queue[s]) + 1
        BY <2>2, <3>1, <4>1
      <4> QED BY <2>3, <3>1, <3>2, <4>2, BusAssumption
    <3>3. CASE s \notin Takers(topic)
      BY <2>1, <3>1, <3>3
    <3> QED BY <3>2, <3>3
  <2> QED BY <1>0, <2>1, <2>2, <2>4, <2>5, TypePartsNext
<1>2. ASSUME NEW s \in Sub, Receive(s) PROVE TypeOK'
  <2>1. /\ queue[s] # << >>
        /\ got' = [got EXCEPT ![s] = Append(@, Head(queue[s]))]
        /\ queue' = [queue EXCEPT ![s] = Tail(@)]
        /\ UNCHANGED <<eventSeq, chain, subs, reader, since>>
    BY <1>2 DEF Receive
  <2>2. /\ queue[s] \in Seq(Event) /\ got[s] \in Seq(Event)
        /\ Tail(queue[s]) \in Seq(Event) /\ Len(Tail(queue[s])) = Len(queue[s]) - 1
        /\ Head(queue[s]) \in Event
    BY <1>0, <2>1
  <2>3. Append(got[s], Head(queue[s])) \in Seq(Event)
    BY <2>2
  <2>4. \A t \in Sub : Len(queue'[t]) <= Buffer
    BY <1>0, <2>1, <2>2, BusAssumption
  <2>5. queue' \in [Sub -> Seq(Event)] /\ got' \in [Sub -> Seq(Event)]
    BY <1>0, <2>1, <2>2, <2>3
  <2> QED BY <1>0, <2>1, <2>4, <2>5, TypePartsNext
<1>3. ASSUME NEW s \in Sub, Subscribe(s) \/ EndOfStream(s) \/ DropReceiver(s) PROVE TypeOK'
  BY <1>0, <1>3, TypePartsNext DEF Subscribe, EndOfStream, DropReceiver
<1>4. CASE UNCHANGED vars
  BY <1>0, <1>4, TypePartsNext DEF vars
<1> QED BY <1>1, <1>2, <1>3, <1>4 DEF Next

LEMMA InitTyped == Init => TypeOK
<1> SUFFICES ASSUME Init PROVE TypeOK
  OBVIOUS
<1>1. << >> \in Seq(Event) /\ Len(<< >>) = 0
  OBVIOUS
<1> QED BY <1>1, BusAssumption, TypeParts DEF Init

\* The bus keeps its shapes, and a reader that never reads costs the kernel at most one
\* full buffer, however many events are published.
THEOREM BusTypeCorrect == Spec => []TypeOK
BY InitTyped, NextTyped, PTL DEF Spec
-----------------------------------------------------------------------------
(* Delivery. *)

\* What DeliveredInOrder rests on: the ledger numbers events without gaps, nobody
\* subscribed in the future, and who has not subscribed was sent nothing.
Numbered ==
    /\ Len(chain) = eventSeq
    /\ \A i \in DOMAIN chain : chain[i].seq = i
    /\ \A s \in Sub : since[s] <= eventSeq
Unsubscribed ==
    \A s \in Sub : reader[s] = "none" => s \notin subs /\ got[s] = << >> /\ queue[s] = << >>

\* One subscriber's share of DeliveredInOrder.
Delivered(s) ==
    /\ \A j, k \in DOMAIN Sent(s) : j < k => Sent(s)[j].seq < Sent(s)[k].seq
    /\ \A k \in DOMAIN Sent(s) :
         Owes(s, Sent(s)[k]) /\ \E i \in DOMAIN chain : chain[i] = Sent(s)[k]
    /\ \A i \in DOMAIN chain :
         (Owes(s, chain[i]) /\ (s \in subs \/ \E k \in DOMAIN Sent(s) : Sent(s)[k].seq > chain[i].seq))
            => \E k \in DOMAIN Sent(s) : Sent(s)[k] = chain[i]

Delivery == Numbered /\ Unsubscribed /\ \A s \in Sub : Delivered(s)

\* Reading moves an event from one end of the stream to the other.
LEMMA ReadKeeps ==
    ASSUME NEW S, NEW g \in Seq(S), NEW q \in Seq(S), q # << >>
    PROVE  Append(g, Head(q)) \o Tail(q) = g \o q
<1>1. /\ Head(q) \in S /\ Tail(q) \in Seq(S) /\ Len(Tail(q)) = Len(q) - 1
      /\ Len(q) \in Nat \ {0} /\ Len(g) \in Nat
      /\ \A i \in 1..(Len(q) - 1) : Tail(q)[i] = q[i + 1]
      /\ Head(q) = q[1]
  OBVIOUS
<1> DEFINE h == Append(g, Head(q))
<1>2. /\ h \in Seq(S) /\ Len(h) = Len(g) + 1 /\ h[Len(g) + 1] = Head(q)
      /\ \A i \in 1..Len(g) : h[i] = g[i]
  BY <1>1
<1> HIDE DEF h
<1>3. h \o Tail(q) \in Seq(S) /\ g \o q \in Seq(S) /\ Len(h \o Tail(q)) = Len(g \o q)
      /\ Len(g \o q) = Len(g) + Len(q)
  BY <1>1, <1>2
<1>4. ASSUME NEW i \in 1..(Len(g) + Len(q)) PROVE (h \o Tail(q))[i] = (g \o q)[i]
  <2>1. CASE i \in 1..Len(g)
    BY <1>1, <1>2, <2>1
  <2>2. CASE i = Len(g) + 1
    BY <1>1, <1>2, <2>2
  <2>3. CASE i \in (Len(g) + 2)..(Len(g) + Len(q))
    <3>1. (h \o Tail(q))[i] = Tail(q)[i - (Len(g) + 1)]
      BY <1>1, <1>2, <2>3
    <3>2. Tail(q)[i - (Len(g) + 1)] = q[i - Len(g)]
      BY <1>1, <2>3
    <3>3. (g \o q)[i] = q[i - Len(g)]
      BY <1>1, <2>3
    <3> QED BY <3>1, <3>2, <3>3
  <2>4. i \in 1..Len(g) \/ i = Len(g) + 1 \/ i \in (Len(g) + 2)..(Len(g) + Len(q))
    <3> HIDE DEF h
    <3>1. Len(g) \in Nat /\ Len(q) \in Nat
      BY <1>1
    <3> QED BY <3>1
  <2> QED BY <2>1, <2>2, <2>3, <2>4
<1> QED BY <1>1, <1>3, <1>4 DEF h

\* Appending to the buffer appends to the stream.
LEMMA SendExtends ==
    ASSUME NEW S, NEW g \in Seq(S), NEW q \in Seq(S), NEW e \in S
    PROVE  g \o Append(q, e) = Append(g \o q, e)
<1>1. /\ Len(q) \in Nat /\ Len(g) \in Nat
      /\ g \o q \in Seq(S) /\ Len(g \o q) = Len(g) + Len(q)
  OBVIOUS
<1>2. /\ Append(q, e) \in Seq(S) /\ Len(Append(q, e)) = Len(q) + 1
      /\ Append(q, e)[Len(q) + 1] = e
      /\ \A i \in 1..Len(q) : Append(q, e)[i] = q[i]
  OBVIOUS
<1>3. /\ g \o Append(q, e) \in Seq(S) /\ Len(g \o Append(q, e)) = Len(g) + Len(q) + 1
      /\ Append(g \o q, e) \in Seq(S) /\ Len(Append(g \o q, e)) = Len(g) + Len(q) + 1
  BY <1>1, <1>2
<1>4. ASSUME NEW i \in 1..(Len(g) + Len(q) + 1)
      PROVE  (g \o Append(q, e))[i] = Append(g \o q, e)[i]
  <2>1. CASE i \in 1..Len(g)
    BY <1>1, <1>2, <2>1
  <2>2. CASE i \in (Len(g) + 1)..(Len(g) + Len(q))
    BY <1>1, <1>2, <2>2
  <2>3. CASE i = Len(g) + Len(q) + 1
    BY <1>1, <1>2, <2>3
  <2> QED BY <1>1, <2>1, <2>2, <2>3
<1> QED BY <1>1, <1>3, <1>4

\* A stream that is what it was, against a ledger that is what it was.
LEMMA SameStream ==
    ASSUME NEW s \in Sub, Delivered(s), Sent(s)' = Sent(s), chain' = chain,
           since'[s] = since[s], s \in subs' => s \in subs
    PROVE  Delivered(s)'
BY DEF Delivered, Owes

LEMMA SentIs ==
    ASSUME NEW s \in Sub
    PROVE  Sent(s) = got[s] \o queue[s] /\ Sent(s)' = got'[s] \o queue'[s]
<1>1. Sent(s) = got[s] \o queue[s]
  BY Zenon DEF Sent
<1>2. Sent(s)' = got'[s] \o queue'[s]
  BY Zenon DEF Sent
<1> QED BY <1>1, <1>2, Zenon

LEMMA NothingSent ==
    ASSUME NEW s \in Sub, got[s] = << >>, queue[s] = << >>
    PROVE  Sent(s) = << >>
<1>1. << >> \o << >> = << >>
  OBVIOUS
<1> QED BY <1>1, SentIs, Zenon

LEMMA SentTyped ==
    ASSUME TypeOK, NEW s \in Sub
    PROVE  /\ got[s] \in Seq(Event) /\ queue[s] \in Seq(Event) /\ Sent(s) \in Seq(Event)
           /\ DOMAIN Sent(s) = 1..Len(Sent(s)) /\ Len(Sent(s)) \in Nat
<1>1. got[s] \in Seq(Event) /\ queue[s] \in Seq(Event)
  BY TypeParts
<1>2. got[s] \o queue[s] \in Seq(Event)
  BY <1>1
<1>3. Sent(s) \in Seq(Event)
  BY <1>2, SentIs, Zenon
<1> QED BY <1>1, <1>3

LEMMA DeliveryStep == TypeOK /\ Delivery /\ [Next]_vars => Delivery'
<1> SUFFICES ASSUME TypeOK, Delivery, [Next]_vars PROVE Delivery'
  OBVIOUS
<1>0. /\ eventSeq \in Nat /\ chain \in Seq(Event) /\ subs \subseteq Sub
      /\ queue \in [Sub -> Seq(Event)] /\ got \in [Sub -> Seq(Event)]
      /\ reader \in [Sub -> {"none", "open", "gone", "ended"}] /\ since \in [Sub -> 0..MaxEvents]
  BY TypeParts, BusAssumption
<1>a. DOMAIN chain = 1..eventSeq /\ Len(chain) = eventSeq /\ \A i \in DOMAIN chain : chain[i].seq = i
  BY <1>0 DEF Delivery, Numbered
<1>1. ASSUME NEW topic \in Topic, Publish(topic) PROVE Delivery'
  <2> DEFINE e == NewEvent(topic)
  <2>1. /\ eventSeq < MaxEvents /\ eventSeq' = eventSeq + 1
        /\ queue' = [s \in Sub |-> IF s \in Takers(topic) THEN Append(queue[s], e) ELSE queue[s]]
        /\ subs' = (subs \ {s \in subs : topic \in Topics[s]}) \cup Takers(topic)
        /\ chain' = Append(chain, e)
        /\ UNCHANGED <<reader, since, got>>
    BY <1>1, Published
  <2>2. e \in Event /\ e.seq = eventSeq + 1 /\ e.topic = topic
    BY <1>0, <2>1, BusAssumption DEF NewEvent, Event
  <2>3. \A s \in Takers(topic) : s \in subs /\ topic \in Topics[s]
    BY DEF Takers
  <2> HIDE DEF e
  <2>4. /\ DOMAIN chain' = 1..(eventSeq + 1) /\ Len(chain') = eventSeq + 1
        /\ \A i \in DOMAIN chain : i \in DOMAIN chain' /\ chain'[i] = chain[i]
        /\ chain'[eventSeq + 1] = e
    BY <1>0, <1>a, <2>1, <2>2
  <2>5. Numbered'
    <3>1. \A i \in DOMAIN chain' : chain'[i].seq = i
      <4> SUFFICES ASSUME NEW i \in DOMAIN chain' PROVE chain'[i].seq = i
        OBVIOUS
      <4>1. i \in DOMAIN chain \/ i = eventSeq + 1
        BY <1>0, <1>a, <2>4
      <4> QED BY <1>a, <2>2, <2>4, <4>1
    <3>2. \A s \in Sub : since'[s] <= eventSeq'
      BY <1>0, <2>1, BusAssumption DEF Delivery, Numbered
    <3> QED BY <2>1, <2>4, <3>1, <3>2 DEF Numbered
  <2>6. Unsubscribed'
    BY <1>0, <2>1, <2>3 DEF Delivery, Unsubscribed
  <2>7. ASSUME NEW s \in Sub PROVE Delivered(s)'
    <3> DEFINE old == Sent(s)
               new == Sent(s)'
    <3>1. old \in Seq(Event) /\ DOMAIN old = 1..Len(old) /\ Len(old) \in Nat
      BY SentTyped
    <3>2. \A d : Owes(s, d)' <=> Owes(s, d)
      BY <2>1 DEF Owes
    <3>3. /\ \A j, k \in DOMAIN old : j < k => old[j].seq < old[k].seq
          /\ \A k \in DOMAIN old : Owes(s, old[k]) /\ \E i \in DOMAIN chain : chain[i] = old[k]
          /\ \A i \in DOMAIN chain :
               (Owes(s, chain[i]) /\ (s \in subs \/ \E k \in DOMAIN old : old[k].seq > chain[i].seq))
                  => \E k \in DOMAIN old : old[k] = chain[i]
      BY DEF Delivery, Delivered
    <3>4. \A k \in DOMAIN old : old[k].seq \in 1..eventSeq
      BY <1>a, <3>3
    <3>5. CASE s \in Takers(topic)
      <4>1. new = Append(old, e)
        <5>1. queue'[s] = Append(queue[s], e) /\ got'[s] = got[s]
          BY <2>1, <3>5
        <5>2. got[s] \in Seq(Event) /\ queue[s] \in Seq(Event)
          BY <1>0
        <5>. HIDE DEF old, new
        <5>0. e \in Event
          BY <2>2
        <5>3. got[s] \o Append(queue[s], e) = Append(got[s] \o queue[s], e)
          <6>1. \A g, q \in Seq(Event) : g \o Append(q, e) = Append(g \o q, e)
            BY <5>0, SendExtends
          <6> QED BY <5>2, <6>1, Zenon
        <5>4. Sent(s)' = got'[s] \o queue'[s] /\ Sent(s) = got[s] \o queue[s]
          BY DEF Sent
        <5> QED BY <5>1, <5>3, <5>4, Zenon DEF old, new
      <4>2. e.seq > since[s] /\ Owes(s, e)
        <5>1. since[s] <= eventSeq
          BY DEF Delivery, Numbered
        <5>2. since[s] \in Int
          BY <1>0, BusAssumption
        <5> QED BY <1>0, <2>2, <2>3, <3>5, <5>1, <5>2 DEF Owes
      <4> HIDE DEF old, new
      <4>3. /\ DOMAIN new = 1..(Len(old) + 1) /\ new[Len(old) + 1] = e
            /\ \A k \in DOMAIN old : k \in DOMAIN new /\ new[k] = old[k]
        BY <2>2, <3>1, <4>1
      <4>4. \A k \in DOMAIN new : k \in DOMAIN old \/ k = Len(old) + 1
        BY <3>1, <4>3
      <4>5. \A j, k \in DOMAIN new : j < k => new[j].seq < new[k].seq
        <5> SUFFICES ASSUME NEW j \in DOMAIN new, NEW k \in DOMAIN new, j < k
                     PROVE  new[j].seq < new[k].seq
          OBVIOUS
        <5>1. j \in DOMAIN old
          BY <3>1, <4>3
        <5>2. CASE k \in DOMAIN old
          BY <3>3, <4>3, <5>1, <5>2
        <5>3. CASE k = Len(old) + 1
          BY <1>0, <2>2, <3>4, <4>3, <5>1, <5>3
        <5> QED BY <4>4, <5>2, <5>3
      <4>6. \A k \in DOMAIN new : Owes(s, new[k]) /\ \E i \in DOMAIN chain' : chain'[i] = new[k]
        <5> SUFFICES ASSUME NEW k \in DOMAIN new
                     PROVE  Owes(s, new[k]) /\ \E i \in DOMAIN chain' : chain'[i] = new[k]
          OBVIOUS
        <5>1. CASE k \in DOMAIN old
          BY <2>4, <3>3, <4>3, <5>1
        <5>2. CASE k = Len(old) + 1
          BY <1>0, <2>4, <4>2, <4>3, <5>2
        <5> QED BY <4>4, <5>1, <5>2
      <4>7. \A i \in DOMAIN chain' : Owes(s, chain'[i]) => \E k \in DOMAIN new : new[k] = chain'[i]
        <5> SUFFICES ASSUME NEW i \in DOMAIN chain', Owes(s, chain'[i])
                     PROVE  \E k \in DOMAIN new : new[k] = chain'[i]
          OBVIOUS
        <5>1. CASE i \in DOMAIN chain
          <6>1. PICK k \in DOMAIN old : old[k] = chain[i]
            BY <2>3, <2>4, <3>3, <3>5, <5>1
          <6> QED BY <2>4, <4>3, <5>1, <6>1
        <5>2. CASE i = eventSeq + 1
          BY <2>4, <3>1, <4>3, <5>2
        <5> QED BY <1>0, <1>a, <2>4, <5>1, <5>2
      <4> QED BY <3>2, <4>5, <4>6, <4>7 DEF Delivered, new
    <3>6. CASE s \notin Takers(topic)
      <4>1. new = old
        BY <2>1, <3>6 DEF Sent
      <4>2. s \in subs' => s \in subs /\ topic \notin Topics[s]
        BY <2>1, <3>6
      <4> HIDE DEF old, new
      <4>3. \A k \in DOMAIN old : \E i \in DOMAIN chain' : chain'[i] = old[k]
        BY <2>4, <3>3
      <4>4. \A i \in DOMAIN chain' :
              (Owes(s, chain'[i]) /\ (s \in subs' \/ \E k \in DOMAIN old : old[k].seq > chain'[i].seq))
                 => \E k \in DOMAIN old : old[k] = chain'[i]
        <5> SUFFICES ASSUME NEW i \in DOMAIN chain', Owes(s, chain'[i]),
                            s \in subs' \/ \E k \in DOMAIN old : old[k].seq > chain'[i].seq
                     PROVE  \E k \in DOMAIN old : old[k] = chain'[i]
          OBVIOUS
        <5>1. CASE i \in DOMAIN chain
          BY <2>4, <3>3, <4>2, <5>1
        <5>2. CASE i = eventSeq + 1
          <6>1. chain'[i] = e
            BY <2>4, <5>2
          <6>2. s \notin subs'
            BY <2>2, <4>2, <6>1 DEF Owes
          <6>3. \A k \in DOMAIN old : ~(old[k].seq > e.seq)
            BY <1>0, <2>2, <3>4
          <6> QED BY <6>1, <6>2, <6>3
        <5> QED BY <1>0, <1>a, <2>4, <5>1, <5>2
      <4> QED BY <3>2, <3>3, <4>1, <4>3, <4>4 DEF Delivered, new
    <3> QED BY <3>5, <3>6
  <2> QED BY <2>5, <2>6, <2>7 DEF Delivery
<1>2. ASSUME NEW s \in Sub, Receive(s) PROVE Delivery'
  <2>1. /\ reader[s] = "open" /\ queue[s] # << >>
        /\ got' = [got EXCEPT ![s] = Append(@, Head(queue[s]))]
        /\ queue' = [queue EXCEPT ![s] = Tail(@)]
        /\ UNCHANGED <<eventSeq, chain, subs, reader, since>>
    BY <1>2 DEF Receive
  <2>2. Numbered' /\ Unsubscribed'
    BY <1>0, <2>1 DEF Delivery, Numbered, Unsubscribed
  <2>3. ASSUME NEW t \in Sub PROVE Delivered(t)'
    <3>1. Sent(t)' = Sent(t)
      <4>1. CASE t = s
        <5>1. got'[s] = Append(got[s], Head(queue[s])) /\ queue'[s] = Tail(queue[s])
          BY <1>0, <2>1
        <5>2. got[s] \in Seq(Event) /\ queue[s] \in Seq(Event)
          BY <1>0
        <5>3. Append(got[s], Head(queue[s])) \o Tail(queue[s]) = got[s] \o queue[s]
          BY <2>1, <5>2, ReadKeeps, Zenon
        <5> QED BY <4>1, <5>1, <5>3, SentIs, Zenon
      <4>2. CASE t # s
        BY <1>0, <2>1, <4>2 DEF Sent
      <4> QED BY <4>1, <4>2
    <3> QED BY <2>1, <3>1, SameStream DEF Delivery
  <2> QED BY <2>2, <2>3 DEF Delivery
<1>3. ASSUME NEW s \in Sub, Subscribe(s) PROVE Delivery'
  <2>1. /\ reader[s] = "none"
        /\ subs' = subs \cup {s}
        /\ reader' = [reader EXCEPT ![s] = "open"]
        /\ since' = [since EXCEPT ![s] = eventSeq]
        /\ UNCHANGED <<eventSeq, chain, queue, got>>
    BY <1>3 DEF Subscribe
  <2>2. Numbered' /\ Unsubscribed'
    BY <1>0, <2>1 DEF Delivery, Numbered, Unsubscribed
  <2>3. ASSUME NEW t \in Sub PROVE Delivered(t)'
    <3>1. Sent(t)' = Sent(t)
      BY <2>1 DEF Sent
    <3>2. CASE t = s
      <4>1. got[s] = << >> /\ queue[s] = << >>
        BY <2>1 DEF Delivery, Unsubscribed
      <4>2. Sent(s)' = << >>
        BY <3>1, <3>2, <4>1, NothingSent
      <4>3. \A i \in DOMAIN chain : ~(chain[i].seq > eventSeq)
        BY <1>0, <1>a
      <4>4. chain' = chain /\ since'[s] = eventSeq
        BY <1>0, <2>1
      <4>5. DOMAIN (Sent(s)') = {}
        BY <4>2
      <4> QED BY <3>2, <4>3, <4>4, <4>5 DEF Delivered, Owes
    <3>3. CASE t # s
      <4>1. since'[t] = since[t] /\ (t \in subs' => t \in subs)
        BY <1>0, <2>1, <3>3
      <4> QED BY <2>1, <3>1, <4>1, SameStream DEF Delivery
    <3> QED BY <3>2, <3>3
  <2> QED BY <2>2, <2>3 DEF Delivery
<1>4. ASSUME NEW s \in Sub, EndOfStream(s) \/ DropReceiver(s) PROVE Delivery'
  <2>1. /\ reader[s] = "open" /\ \E r \in {"gone", "ended"} : reader' = [reader EXCEPT ![s] = r]
        /\ UNCHANGED <<eventSeq, chain, subs, queue, since, got>>
    BY <1>4 DEF EndOfStream, DropReceiver
  <2>2. Numbered' /\ Unsubscribed'
    BY <1>0, <2>1 DEF Delivery, Numbered, Unsubscribed
  <2>3. ASSUME NEW t \in Sub PROVE Delivered(t)'
    <3>1. Sent(t)' = Sent(t)
      BY <2>1 DEF Sent
    <3> QED BY <2>1, <3>1, SameStream DEF Delivery
  <2> QED BY <2>2, <2>3 DEF Delivery
<1>5. CASE UNCHANGED vars
  <2>1. Numbered' /\ Unsubscribed'
    BY <1>5 DEF vars, Delivery, Numbered, Unsubscribed
  <2>2. ASSUME NEW t \in Sub PROVE Delivered(t)'
    <3>1. Sent(t)' = Sent(t)
      BY <1>5 DEF vars, Sent
    <3> QED BY <1>5, <3>1, SameStream DEF vars, Delivery
  <2> QED BY <2>1, <2>2 DEF Delivery
<1> QED BY <1>1, <1>2, <1>3, <1>4, <1>5 DEF Next

LEMMA InitDelivery == Init => Delivery
<1> SUFFICES ASSUME Init PROVE Delivery
  OBVIOUS
<1>1. /\ chain = << >> /\ eventSeq = 0 /\ subs = {}
      /\ \A s \in Sub : got[s] = << >> /\ queue[s] = << >> /\ since[s] = 0
  BY DEF Init
<1>2. \A s \in Sub : Sent(s) = << >>
  BY <1>1, NothingSent
<1> QED BY <1>1, <1>2 DEF Delivery, Numbered, Unsubscribed, Delivered

\* Delivery is exact for every subscriber, whatever is published, who reads how slowly and
\* who is shed or goes away in between: in ledger order, each event once, none of another
\* topic or from before the subscription, none left out before the last one sent, and none
\* at all while the subscription lives.
THEOREM DeliveryExact == Spec => []DeliveredInOrder
<1>1. Delivery => DeliveredInOrder
  BY DEF Delivery, Delivered, DeliveredInOrder
<1> QED BY <1>1, InitDelivery, DeliveryStep, BusTypeCorrect, PTL DEF Spec
=============================================================================
