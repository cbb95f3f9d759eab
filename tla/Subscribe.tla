------------------------------ MODULE Subscribe ------------------------------
(***************************************************************************)
(* gNMI Subscribe (internal/gnmiserver/subscribe.go): the call that takes  *)
(* a slot and registers its queries, the goroutine that walks the state    *)
(* cache for the initial values, the goroutine that drains the stream's    *)
(* queue to the client and gives the slot back, and the events by which    *)
(* both caches put changed leaves into the queues.                         *)
(*                                                                         *)
(* The coalescing queue, the match tree and the caches are libraries: a    *)
(* queue holds pointers to leaves, a pointer that is queued already is not *)
(* queued twice, and the value is read when the item is sent.  A leaf that *)
(* is written with the value it has makes no event; a deleted leaf makes   *)
(* an event of its own.  Caches are written here as they please.           *)
(***************************************************************************)
EXTENDS Integers, Sequences, FiniteSets

CONSTANTS
  Streams,           \* the Subscribe calls; each is made at most once
  Requests,          \* what they ask for, a set of Request
  MaxSubscriptions,  \* defaultMaxSubscriptions
  Paths,             \* leaves of the configuration and of the state
  Values,
  Absent,            \* no leaf, or the deletion of one
  Current,           \* of a queued pointer: the value the leaf has by now
  NoPath,            \* the path of a sync marker
  StatePaths, ConfigPaths,  \* the leaves that are written in each cache
  MaxWrites          \* bound on the writes of both caches

Mode    == {"once", "poll", "stream", "unknown"}
Request ==
  [mode : Mode, updatesOnly : BOOLEAN, valid : BOOLEAN,
   paths : SUBSET Paths, nilPath : BOOLEAN]

Caches == {"config", "state"}
Leaf   == Values \cup {Absent}
Item   == [cache : Caches, path : Paths, value : Leaf \cup {Current}]

\* syncMarker{}
SyncMarker == [cache |-> "state", path |-> NoPath, value |-> Current]

ASSUME SubscribeAssumption ==
  /\ Requests \subseteq Request
  /\ MaxSubscriptions \in Nat /\ MaxWrites \in Nat
  /\ Absent \notin Values /\ Current \notin Leaf
  /\ NoPath \notin Paths
  /\ StatePaths \subseteq Paths /\ ConfigPaths \subseteq Paths
  /\ IsFiniteSet(Streams)

VARIABLES
  leaf,       \* the value of every leaf of both caches
  writes,     \* number of writes, bounded by MaxWrites
  slots,      \* free slots of subscribeRPCsem
  handler,    \* the Subscribe call: idle, waiting on errChan, returned
  sender,     \* the goroutine of sendStreamingResults; missing if there is
              \* a slot for it and nobody starts it
  walker,     \* the goroutine of handleSubscriptionRequest or of mode ONCE
  todo,       \* paths the walker has not looked at
  request,    \* sc.req
  queue,      \* sc.queue
  closed,     \* the queue is closed
  broken,     \* matchClient.err # nil
  matched,    \* paths under which the stream is in the match tree
  connected,  \* the client is there, ctx is not cancelled
  view,       \* what the client was sent, by path
  reported    \* number of errors put on errChan

cacheVars  == <<leaf, writes>>
callVars   == <<slots, handler, request, matched, connected>>
queueVars  == <<queue, closed, broken>>
clientVars == <<view, reported>>
vars == <<cacheVars, callVars, sender, walker, todo, queueVars, clientVars>>

Init ==
  /\ leaf = [k \in Caches |-> [p \in Paths |-> Absent]]
  /\ writes = 0
  /\ slots = MaxSubscriptions
  /\ handler = [c \in Streams |-> "idle"]
  /\ sender = [c \in Streams |-> "none"]
  /\ walker = [c \in Streams |-> "none"]
  /\ todo = [c \in Streams |-> {}]
  /\ request \in [Streams -> Requests]
  /\ queue = [c \in Streams |-> <<>>]
  /\ closed = [c \in Streams |-> FALSE]
  /\ broken = [c \in Streams |-> FALSE]
  /\ matched = [c \in Streams |-> {}]
  /\ connected = [c \in Streams |-> TRUE]
  /\ view = [c \in Streams |-> [p \in Paths |-> Absent]]
  /\ reported = [c \in Streams |-> 0]

-----------------------------------------------------------------------------
\* Queue.Insert of an open queue: a pointer to a leaf once, a deletion always.
Inserted(q, item) ==
  IF item.value = Current /\ \E i \in DOMAIN q : q[i] = item
  THEN q
  ELSE Append(q, item)

\* Fault: the queries are registered after the walk.
MatchesAfterWalk(c, p) == p \in matched[c] /\ walker[c] # "walking"

\* The queries of the stream that an event of leaf p meets.
Matches(c, p) == p \in matched[c]

\* matchClient.Update puts the item into the queue unless an insert failed.
Reached(c, item) == Matches(c, item.path) /\ ~broken[c]

(***************************************************************************)
(* ConfigCacheEvents and StateCacheEvents: both publish to the same match  *)
(* tree.  q are the queues before the event.                               *)
(***************************************************************************)
Publish(q, item) ==
  /\ queue' = [c \in Streams |->
                 IF Reached(c, item) /\ ~closed[c] THEN Inserted(q[c], item) ELSE q[c]]
  /\ broken' = [c \in Streams |-> broken[c] \/ (Reached(c, item) /\ closed[c])]
  /\ UNCHANGED closed

PathsOf(k) == IF k = "state" THEN StatePaths ELSE ConfigPaths

\* GnmiUpdate of one leaf.
WriteLeaf(k, p, v) ==
  /\ writes < MaxWrites
  /\ p \in PathsOf(k)
  /\ v # leaf[k][p]
  /\ leaf' = [leaf EXCEPT ![k][p] = v]
  /\ writes' = writes + 1
  /\ Publish(queue, [cache |-> k, path |-> p, value |-> Current])
  /\ UNCHANGED <<callVars, sender, walker, todo, clientVars>>

\* A deleted leaf keeps its last value for the queues that still point to it.
Detached(q, k, p) ==
  [i \in DOMAIN q |->
     IF q[i] = [cache |-> k, path |-> p, value |-> Current]
     THEN [q[i] EXCEPT !.value = leaf[k][p]]
     ELSE q[i]]

\* GnmiUpdate with a delete of one leaf.
DeleteLeaf(k, p) ==
  /\ writes < MaxWrites
  /\ leaf[k][p] # Absent
  /\ leaf' = [leaf EXCEPT ![k][p] = Absent]
  /\ writes' = writes + 1
  /\ Publish([c \in Streams |-> Detached(queue[c], k, p)],
             [cache |-> k, path |-> p, value |-> Absent])
  /\ UNCHANGED <<callVars, sender, walker, todo, clientVars>>

-----------------------------------------------------------------------------
\* Fault: TryAcquire of more than the one slot that is released.
RefuseLast(c) ==
  /\ handler[c] = "idle"
  /\ slots <= 1
  /\ handler' = [handler EXCEPT ![c] = "returned"]
  /\ UNCHANGED <<cacheVars, slots, request, matched, connected, sender, walker, todo,
                 queueVars, clientVars>>

\* Subscribe finds no free slot.
Refuse(c) ==
  /\ handler[c] = "idle"
  /\ slots = 0
  /\ handler' = [handler EXCEPT ![c] = "returned"]
  /\ UNCHANGED <<cacheVars, slots, request, matched, connected, sender, walker, todo,
                 queueVars, clientVars>>

\* TryAcquire, for the modes that start the sender and wait on errChan.
Accept(c, mode) ==
  /\ handler[c] = "idle"
  /\ request[c].mode = mode
  /\ slots > 0
  /\ slots' = slots - 1
  /\ handler' = [handler EXCEPT ![c] = "waiting"]
  /\ sender' = [sender EXCEPT ![c] = "running"]

\* Mode ONCE: a goroutine that closes the queue.
SubscribeOnce(c) ==
  /\ Accept(c, "once")
  /\ walker' = [walker EXCEPT ![c] = "closing"]
  /\ UNCHANGED <<cacheVars, request, matched, connected, todo, queueVars, clientVars>>

\* Mode POLL: a goroutine that logs.
SubscribePoll(c) ==
  /\ Accept(c, "poll")
  /\ UNCHANGED <<cacheVars, request, matched, connected, walker, todo, queueVars,
                 clientVars>>

\* A subscription without path matches nothing but walks everything.
Walked(r) == IF r.nilPath THEN Paths ELSE r.paths

\* Mode STREAM, with a walk of the state cache unless only updates are asked for.
SubscribeStream(c) ==
  /\ Accept(c, "stream")
  /\ matched' = [matched EXCEPT ![c] = request[c].paths]
  /\ IF request[c].updatesOnly
     THEN /\ queue' = [queue EXCEPT ![c] = Inserted(@, SyncMarker)]
          /\ UNCHANGED <<walker, todo>>
     ELSE /\ walker' = [walker EXCEPT ![c] = "walking"]
          /\ todo' = [todo EXCEPT ![c] = Walked(request[c])]
          /\ UNCHANGED queue
  /\ UNCHANGED <<cacheVars, request, connected, closed, broken, clientVars>>

\* Any other mode: the call returns with the slot taken.
SubscribeUnknown(c) ==
  /\ handler[c] = "idle"
  /\ request[c].mode = "unknown"
  /\ slots > 0
  /\ slots' = slots - 1
  /\ handler' = [handler EXCEPT ![c] = "returned"]
  /\ sender' = [sender EXCEPT ![c] = "missing"]
  /\ UNCHANGED <<cacheVars, request, matched, connected, walker, todo, queueVars,
                 clientVars>>

Subscribe(c) ==
  \/ Refuse(c)
  \/ SubscribeOnce(c)
  \/ SubscribePoll(c)
  \/ SubscribeStream(c)
  \/ SubscribeUnknown(c)

\* The client goes away: the context of the stream is cancelled.
Disconnect(c) ==
  /\ handler[c] = "waiting"
  /\ connected[c]
  /\ connected' = [connected EXCEPT ![c] = FALSE]
  /\ UNCHANGED <<cacheVars, slots, handler, request, matched, sender, walker, todo,
                 queueVars, clientVars>>

-----------------------------------------------------------------------------
(***************************************************************************)
(* handleSubscriptionRequest: the leaves of the state cache, in any order, *)
(* then the sync marker.  A request with a path or target the cache does   *)
(* not accept ends the walk at some point and closes the queue.            *)
(***************************************************************************)
WalkLeaf(c, p) ==
  /\ walker[c] = "walking"
  /\ p \in todo[c]
  /\ todo' = [todo EXCEPT ![c] = @ \ {p}]
  /\ queue' = [queue EXCEPT ![c] =
                 IF leaf["state"][p] = Absent THEN @
                 ELSE Inserted(@, [cache |-> "state", path |-> p, value |-> Current])]
  /\ UNCHANGED <<cacheVars, callVars, sender, walker, closed, broken, clientVars>>

WalkDone(c) ==
  /\ walker[c] = "walking"
  /\ request[c].valid
  /\ todo[c] = {}
  /\ walker' = [walker EXCEPT ![c] = "done"]
  /\ queue' = [queue EXCEPT ![c] = Inserted(@, SyncMarker)]
  /\ UNCHANGED <<cacheVars, callVars, sender, todo, closed, broken, clientVars>>

WalkFails(c) ==
  /\ walker[c] = "walking"
  /\ ~request[c].valid
  /\ walker' = [walker EXCEPT ![c] = "done"]
  /\ closed' = [closed EXCEPT ![c] = TRUE]
  /\ reported' = [reported EXCEPT ![c] = @ + 1]
  /\ UNCHANGED <<cacheVars, callVars, sender, todo, queue, broken, view>>

CloseOnce(c) ==
  /\ walker[c] = "closing"
  /\ walker' = [walker EXCEPT ![c] = "done"]
  /\ closed' = [closed EXCEPT ![c] = TRUE]
  /\ UNCHANGED <<cacheVars, callVars, sender, todo, queue, broken, clientVars>>

Walk(c) ==
  \/ \E p \in Paths : WalkLeaf(c, p)
  \/ WalkDone(c)
  \/ WalkFails(c)
  \/ CloseOnce(c)

-----------------------------------------------------------------------------
ValueOf(item) ==
  IF item.value = Current THEN leaf[item.cache][item.path] ELSE item.value

Sending(c) == sender[c] = "running" /\ queue[c] # <<>>
Waiting(c) == sender[c] = "running" /\ queue[c] = <<>>

\* Fault: the sender returns after the sync response.
SendSyncAndReturn(c) ==
  /\ Sending(c) /\ connected[c]
  /\ Head(queue[c]) = SyncMarker
  /\ queue' = [queue EXCEPT ![c] = Tail(@)]
  /\ sender' = [sender EXCEPT ![c] = "done"]
  /\ slots' = slots + 1
  /\ UNCHANGED <<cacheVars, handler, request, matched, connected, walker, todo,
                 closed, broken, clientVars>>

\* The sync marker and the leaves go to the client.
SendSync(c) ==
  /\ Sending(c) /\ connected[c]
  /\ Head(queue[c]) = SyncMarker
  /\ queue' = [queue EXCEPT ![c] = Tail(@)]
  /\ UNCHANGED <<cacheVars, callVars, sender, walker, todo, closed, broken, clientVars>>

SendLeaf(c) ==
  /\ Sending(c) /\ connected[c]
  /\ Head(queue[c]) # SyncMarker
  /\ view' = [view EXCEPT ![c][Head(queue[c]).path] = ValueOf(Head(queue[c]))]
  /\ queue' = [queue EXCEPT ![c] = Tail(@)]
  /\ UNCHANGED <<cacheVars, callVars, sender, walker, todo, closed, broken, reported>>

\* Fault: the sender forgets to release its slot.
EndSenderKeepsSlot(c) ==
  /\ sender' = [sender EXCEPT ![c] = "done"]
  /\ UNCHANGED slots

\* Fault: the sender releases its slot besides the deferred release.
EndSenderTwice(c) ==
  /\ sender' = [sender EXCEPT ![c] = "done"]
  /\ slots' = slots + 2

\* The sender ends, whatever the reason, and releases its slot.
EndSender(c) ==
  /\ sender' = [sender EXCEPT ![c] = "done"]
  /\ slots' = slots + 1

Report(c) == reported' = [reported EXCEPT ![c] = @ + 1]

SendFails(c) ==
  /\ Sending(c) /\ ~connected[c]
  /\ queue' = [queue EXCEPT ![c] = Tail(@)]
  /\ Report(c) /\ EndSender(c)
  /\ UNCHANGED <<cacheVars, handler, request, matched, connected, walker, todo,
                 closed, broken, view>>

\* Fault: Next does not get the context of the stream.
NextIgnoresContext(c) == Waiting(c) /\ closed[c]

\* Queue.Next returns without an item: the queue is closed or ctx cancelled.
NextEnds(c) == Waiting(c) /\ (closed[c] \/ ~connected[c])

SenderStops(c) ==
  /\ NextEnds(c)
  /\ Report(c) /\ EndSender(c)
  /\ UNCHANGED <<cacheVars, handler, request, matched, connected, walker, todo,
                 queueVars, view>>

Send(c) == SendSync(c) \/ SendLeaf(c) \/ SendFails(c) \/ SenderStops(c)

-----------------------------------------------------------------------------
Next ==
  \/ \E k \in Caches, p \in Paths :
       DeleteLeaf(k, p) \/ \E v \in Values : WriteLeaf(k, p, v)
  \/ \E c \in Streams : Subscribe(c) \/ Disconnect(c) \/ Walk(c) \/ Send(c)

Spec == Init /\ [][Next]_vars

\* Go runs every goroutine that is not blocked.
FairSpec == Spec /\ \A c \in Streams : WF_vars(Walk(c)) /\ WF_vars(Send(c))

-----------------------------------------------------------------------------
TypeOK ==
  /\ leaf \in [Caches -> [Paths -> Leaf]]
  /\ writes \in 0..MaxWrites
  /\ slots \in 0..MaxSubscriptions
  /\ handler \in [Streams -> {"idle", "waiting", "returned"}]
  /\ sender \in [Streams -> {"none", "running", "done", "missing"}]
  /\ walker \in [Streams -> {"none", "walking", "closing", "done"}]
  /\ todo \in [Streams -> SUBSET Paths]
  /\ request \in [Streams -> Requests]
  /\ queue \in [Streams -> Seq(Item \cup {SyncMarker})]
  /\ closed \in [Streams -> BOOLEAN]
  /\ broken \in [Streams -> BOOLEAN]
  /\ matched \in [Streams -> SUBSET Paths]
  /\ connected \in [Streams -> BOOLEAN]
  /\ view \in [Streams -> [Paths -> Leaf]]
  /\ reported \in [Streams -> 0..2]

(***************************************************************************)
(* A slot is free, held by a running sender, or lost to a call with an     *)
(* unknown mode: however client, walker and sender end (sendStreaming-     *)
(* Results), none is given back twice or kept.                             *)
(***************************************************************************)
Holders == {c \in Streams : sender[c] \in {"running", "missing"}}

SlotsAccounted == slots + Cardinality(Holders) = MaxSubscriptions

(***************************************************************************)
(* A stream is served when a slot is left and refused when none is, where  *)
(* a call with an unknown mode is one that is served for ever (TryAcquire  *)
(* in Subscribe, the deferred Release in sendStreamingResults).            *)
(***************************************************************************)
Place == [c \in Streams |-> CASE c \in Holders -> "inside"
                              [] c \notin Holders /\ handler[c] = "idle" -> "asking"
                              [] OTHER -> "outside"]

Subscriptions == INSTANCE Admission WITH
  Callers <- Streams, Limit <- MaxSubscriptions, place <- Place

ImplementsAdmission == Subscriptions!Spec

(***************************************************************************)
(* No change is lost between the walk of the cache and the events that     *)
(* come while it walks (Subscribe registers the queries first): for a leaf *)
(* that was walked, either the client has its value, or the last item      *)
(* queued for it will bring that value, whatever else is queued before.    *)
(* A leaf that is in both caches is another matter: both publish to the    *)
(* same match tree, so its client has whichever was written last.          *)
(***************************************************************************)
Follows(c) ==
  /\ handler[c] = "waiting" /\ connected[c] /\ ~broken[c]
  /\ request[c].mode = "stream" /\ ~request[c].updatesOnly

\* The last item queued for p, and what the client will have for p once the
\* queue is sent.
LastFor(q, p, i) == q[i].path = p /\ \A j \in DOMAIN q : q[j].path = p => j <= i

Brings(c, p, V) ==
  /\ \A i \in DOMAIN queue[c] : LastFor(queue[c], p, i) => ValueOf(queue[c][i]) \in V
  /\ (\A i \in DOMAIN queue[c] : queue[c][i].path # p) => view[c][p] \in V

Lossless(c, p) ==
  Follows(c) /\ p \in matched[c] \ todo[c] => Brings(c, p, {leaf["state"][p]})

NothingLost == \A c \in Streams, p \in StatePaths \ ConfigPaths : Lossless(c, p)

(***************************************************************************)
(* A stream whose client stays gets to show the state: once nothing is     *)
(* written any more, what the client was sent is what the cache holds.     *)
(***************************************************************************)
UpToDate(c) ==
  Follows(c) /\ request[c].valid =>
    \A p \in matched[c] \cap (StatePaths \ ConfigPaths) :
      view[c][p] = leaf["state"][p]

StreamsCatchUp == \A c \in Streams : <>[]UpToDate(c)

(***************************************************************************)
(* The slot of a client that went away, or of a queue that was closed,     *)
(* comes back (the deferred Release of sendStreamingResults).              *)
(***************************************************************************)
SlotsReturn ==
  \A c \in Streams :
    sender[c] = "running" /\ (~connected[c] \/ closed[c]) ~> sender[c] = "done"

-----------------------------------------------------------------------------
(***************************************************************************)
(* Subscribe collects the errors of its goroutines ("multiple errors       *)
(* occurred") and returns when they are through.                           *)
(***************************************************************************)
SubscribeReturns ==
  \A c \in Streams : sender[c] = "done" ~> handler[c] = "returned"
=============================================================================
