------------------------------ MODULE EventBus ------------------------------
(***************************************************************************)
(* The event bus: Publish puts an event into the bounded buffer of every   *)
(* subscriber of its topic and sheds those that cannot take it; readers    *)
(* drain their buffers on threads of their own.                            *)
(*                                                                         *)
(* Disconnects is the one difference between the SDKs: the reader of a     *)
(* Rust sync_channel sees the end of the stream once it was shed, and a    *)
(* send to a dropped Rust receiver fails; a Go channel and a Python Queue  *)
(* do neither.                                                             *)
(***************************************************************************)
EXTENDS Integers, Sequences

CONSTANTS
    Sub, Topic, Topics,   \* subscribers, topics, and what each subscribes to
    Buffer,               \* SUBSCRIBER_BUFFER
    Disconnects,
    MaxEvents             \* bound: events published

ASSUME BusAssumption ==
    /\ Topics \in [Sub -> SUBSET Topic] /\ Buffer \in Nat \ {0}
    /\ Disconnects \in BOOLEAN /\ MaxEvents \in Nat

VARIABLES
    eventSeq,   \* the last seq assigned
    chain,      \* the event.published entries of the ledger
    subs,       \* live subscriptions
    queue,      \* undelivered events, per subscriber
    reader,     \* "none", "open", "gone" (dropped) or "ended" (told of the end)
    since,      \* eventSeq when the subscription was made
    got         \* events read, in order

vars == <<eventSeq, chain, subs, queue, reader, since, got>>

Init ==
    /\ eventSeq = 0 /\ chain = << >> /\ subs = {}
    /\ queue = [s \in Sub |-> << >>]
    /\ reader = [s \in Sub |-> "none"]
    /\ since = [s \in Sub |-> 0]
    /\ got = [s \in Sub |-> << >>]

\* subscribe
Subscribe(s) ==
    /\ reader[s] = "none"
    /\ subs' = subs \cup {s}
    /\ reader' = [reader EXCEPT ![s] = "open"]
    /\ since' = [since EXCEPT ![s] = eventSeq]
    /\ UNCHANGED <<eventSeq, chain, queue, got>>

\* Faulty variant (mutation runs only).
TakesOneMore(s) == Len(queue[s]) <= Buffer

\* try_send succeeds.
Takes(s) == Len(queue[s]) < Buffer /\ ~(Disconnects /\ reader[s] = "gone")

\* Faulty variant (mutation runs only).
PublishSkipsFull(topic) ==
    LET e == [seq |-> eventSeq + 1, topic |-> topic]
        takers == {s \in subs : topic \in Topics[s] /\ Takes(s)}
    IN
    /\ eventSeq < MaxEvents
    /\ eventSeq' = eventSeq + 1
    /\ queue' = [s \in Sub |-> IF s \in takers THEN Append(queue[s], e) ELSE queue[s]]
    /\ chain' = Append(chain, e)
    /\ UNCHANGED <<subs, reader, since, got>>

\* publish: number the event, deliver or shed, record.
Publish(topic) ==
    LET e == [seq |-> eventSeq + 1, topic |-> topic]
        wants == {s \in subs : topic \in Topics[s]}
        takers == {s \in wants : Takes(s)}
    IN
    /\ eventSeq < MaxEvents
    /\ eventSeq' = eventSeq + 1
    /\ queue' = [s \in Sub |-> IF s \in takers THEN Append(queue[s], e) ELSE queue[s]]
    /\ subs' = (subs \ wants) \cup takers
    /\ chain' = Append(chain, e)
    /\ UNCHANGED <<reader, since, got>>

\* The reader takes the next event; a shed reader still drains what it was sent.
Receive(s) ==
    /\ reader[s] = "open" /\ queue[s] # << >>
    /\ got' = [got EXCEPT ![s] = Append(@, Head(queue[s]))]
    /\ queue' = [queue EXCEPT ![s] = Tail(@)]
    /\ UNCHANGED <<eventSeq, chain, subs, reader, since>>

\* Faulty variant (mutation runs only).
EndOfStreamNever(s) == FALSE /\ UNCHANGED vars

\* The reader of a shed subscription finds its channel closed.
EndOfStream(s) ==
    /\ Disconnects
    /\ reader[s] = "open" /\ queue[s] = << >> /\ s \notin subs
    /\ reader' = [reader EXCEPT ![s] = "ended"]
    /\ UNCHANGED <<eventSeq, chain, subs, queue, since, got>>

\* The reader goes away without telling the kernel.
DropReceiver(s) ==
    /\ reader[s] = "open"
    /\ reader' = [reader EXCEPT ![s] = "gone"]
    /\ UNCHANGED <<eventSeq, chain, subs, queue, since, got>>

Next ==
    \/ \E topic \in Topic : Publish(topic)
    \/ \E s \in Sub : Subscribe(s) \/ Receive(s) \/ EndOfStream(s) \/ DropReceiver(s)

Spec == Init /\ [][Next]_vars

\* A reader that stays keeps reading; nobody has to publish or to subscribe.
FairSpec == Spec /\ \A s \in Sub : WF_vars(Receive(s)) /\ WF_vars(EndOfStream(s))
-----------------------------------------------------------------------------
\* The type invariant: every record of the bus has its shape, and one slow reader costs
\* the kernel at most Buffer events.
TypeOK ==
    /\ eventSeq \in 0..MaxEvents
    /\ chain \in Seq([seq : 1..MaxEvents, topic : Topic])
    /\ subs \subseteq Sub
    /\ queue \in [Sub -> Seq([seq : 1..MaxEvents, topic : Topic])]
    /\ \A s \in Sub : Len(queue[s]) <= Buffer
    /\ got \in [Sub -> Seq([seq : 1..MaxEvents, topic : Topic])]
    /\ reader \in [Sub -> {"none", "open", "gone", "ended"}]
    /\ since \in [Sub -> 0..MaxEvents]

\* What a subscriber is owed: the recorded events on its topics since it subscribed.
Owes(s, e) == e.seq > since[s] /\ e.topic \in Topics[s]
Owed(s) == SelectSeq(chain, LAMBDA e : Owes(s, e))
Sent(s) == got[s] \o queue[s]

\* Delivery never reorders, repeats, leaks or skips: what a subscriber was sent comes in the
\* order of the ledger, each event once, and only events it is owed; none it is owed is
\* missing before the last one sent, and none at all while it is subscribed, although
\* readers drain and others are shed in between.
DeliveredInOrder ==
    \A s \in Sub :
        /\ \A j, k \in DOMAIN Sent(s) : j < k => Sent(s)[j].seq < Sent(s)[k].seq
        /\ \A k \in DOMAIN Sent(s) :
             Owes(s, Sent(s)[k]) /\ \E i \in DOMAIN chain : chain[i] = Sent(s)[k]
        /\ \A i \in DOMAIN chain :
             (Owes(s, chain[i]) /\ (s \in subs \/ \E k \in DOMAIN Sent(s) : Sent(s)[k].seq > chain[i].seq))
                => \E k \in DOMAIN Sent(s) : Sent(s)[k] = chain[i]

\* A reader that keeps reading gets every event it is owed or learns that it was shed
\* (Disconnects); it is never left waiting on a stream that silently stopped.
NoSilentLoss ==
    \A s \in Sub : reader[s] = "open" ~> (reader[s] # "open" \/ got[s] = Owed(s))
=============================================================================
