-------------------------- MODULE SubscribeProofs --------------------------
(***************************************************************************)
(* Proofs about Subscribe: its types, the slots, and that no change is     *)
(* lost between the walk of the cache and its events.                      *)
(***************************************************************************)
EXTENDS Subscribe, TLAPS, FiniteSetTheorems, SequenceTheorems

Entry == Item \cup {SyncMarker}

\* Every goroutine reports once: the walker if it fails, the sender at its end.
Done(s) == IF s = "done" THEN 1 ELSE 0

ReportedOnce ==
  \A c \in Streams : reported[c] <= Done(walker[c]) + Done(sender[c])

\* A call that was not made has left nothing.
Untouched(c) ==
  /\ sender[c] = "none" /\ walker[c] = "none"
  /\ queue[c] = <<>> /\ matched[c] = {} /\ todo[c] = {}
  /\ view[c] = [p \in Paths |-> Absent]

IdleUntouched == \A c \in Streams : handler[c] = "idle" => Untouched(c)

SubInv == TypeOK /\ SlotsAccounted /\ ReportedOnce /\ IdleUntouched

LEMMA DoneValue == \A s : Done(s) \in 0..1 /\ (Done(s) = 1 <=> s = "done")
BY DEF Done

-----------------------------------------------------------------------------
\* What goes into a queue.
LEMMA EntryType ==
  /\ SyncMarker \in Entry
  /\ SyncMarker.path = NoPath
  /\ \A k \in Caches, p \in Paths, v \in Leaf \cup {Current} :
       [cache |-> k, path |-> p, value |-> v] \in Entry
  /\ \A e \in Entry : e # SyncMarker =>
       e.cache \in Caches /\ e.path \in Paths /\ e.value \in Leaf \cup {Current}
  /\ \A e \in Entry : e.path # NoPath => e # SyncMarker
  /\ \A e \in Entry : e.path \in Paths <=> e # SyncMarker
BY SubscribeAssumption DEF Entry, Item, SyncMarker, Caches

LEMMA InsertedType ==
  ASSUME NEW q \in Seq(Entry), NEW item \in Entry
  PROVE  Inserted(q, item) \in Seq(Entry)
BY DEF Inserted

LEMMA DetachedType ==
  ASSUME TypeOK, NEW q \in Seq(Entry), NEW k \in Caches, NEW p \in Paths
  PROVE  /\ Detached(q, k, p) \in Seq(Entry)
         /\ Len(Detached(q, k, p)) = Len(q)
         /\ DOMAIN Detached(q, k, p) = DOMAIN q
<1> DEFINE ptr == [cache |-> k, path |-> p, value |-> Current]
           d == Detached(q, k, p)
<1>1. Len(q) \in Nat /\ DOMAIN q = 1..Len(q)
  BY LenProperties
<1>2. leaf[k][p] \in Leaf
  BY DEF TypeOK
<1>3. [ptr EXCEPT !.value = leaf[k][p]] = [cache |-> k, path |-> p, value |-> leaf[k][p]]
  OBVIOUS
<1>4. \A i \in 1..Len(q) : d[i] \in Entry
  <2> TAKE i \in 1..Len(q)
  <2>1. q[i] \in Entry
    BY <1>1
  <2>2. CASE q[i] = ptr
    BY <2>2, <1>1, <1>2, <1>3, EntryType DEF Detached
  <2>3. CASE q[i] # ptr
    BY <2>1, <2>3, <1>1 DEF Detached
  <2> QED
    BY <2>2, <2>3
<1>5. d \in [1..Len(q) -> Entry]
  BY <1>1, <1>4 DEF Detached
<1>6. d \in Seq(Entry) /\ Len(d) = Len(q)
  BY <1>1, <1>5
<1> QED
  BY <1>1, <1>5, <1>6

-----------------------------------------------------------------------------
\* The holders of slots, and what a holder more or less makes of them.
LEMMA HoldersFinite ==
  /\ IsFiniteSet(Holders)
  /\ Cardinality(Holders) \in Nat
<1>1. Holders \in SUBSET Streams
  BY DEF Holders
<1> QED
  BY <1>1, SubscribeAssumption, FS_Subset, FS_CardinalityType

LEMMA SlotKept ==
  ASSUME SlotsAccounted, UNCHANGED <<slots, sender>>
  PROVE  SlotsAccounted'
<1>1. Holders' = Holders
  BY DEF Holders
<1> QED
  BY <1>1 DEF SlotsAccounted

LEMMA SlotTaken ==
  ASSUME TypeOK, SlotsAccounted, NEW c \in Streams, sender[c] = "none",
         slots > 0, slots' = slots - 1, NEW s \in {"running", "missing"},
         sender' = [sender EXCEPT ![c] = s]
  PROVE  SlotsAccounted' /\ slots' \in 0..MaxSubscriptions
<1>1. c \notin Holders /\ Holders' = Holders \cup {c}
  BY DEF Holders, TypeOK
<1>2. Cardinality(Holders') = Cardinality(Holders) + 1
  BY <1>1, HoldersFinite, FS_AddElement
<1> QED
  BY <1>2, HoldersFinite, SubscribeAssumption DEF SlotsAccounted, TypeOK

LEMMA SlotReturned ==
  ASSUME TypeOK, SlotsAccounted, NEW c \in Streams, sender[c] = "running", EndSender(c)
  PROVE  SlotsAccounted' /\ slots' \in 0..MaxSubscriptions
<1>1. c \in Holders /\ Holders' = Holders \ {c}
  BY DEF Holders, TypeOK, EndSender
<1>2. Cardinality(Holders') = Cardinality(Holders) - 1
  BY <1>1, HoldersFinite, FS_RemoveElement
<1>3. Cardinality(Holders') \in Nat
  <2>1. IsFiniteSet(Holders')
    BY <1>1, HoldersFinite, FS_RemoveElement
  <2> QED
    BY <2>1, FS_CardinalityType
<1> QED
  BY <1>2, <1>3, HoldersFinite, SubscribeAssumption DEF SlotsAccounted, TypeOK, EndSender

-----------------------------------------------------------------------------
LEMMA SubInitial == Init => SubInv
<1> SUFFICES ASSUME Init
             PROVE  SubInv
  OBVIOUS
<1>1. \A c \in Streams : queue[c] \in Seq(Entry)
  BY DEF Init
<1>2. TypeOK
  BY <1>1, SubscribeAssumption DEF Init, TypeOK, Entry, Leaf
<1>3. Holders = {}
  BY DEF Init, Holders
<1>4. SlotsAccounted
  BY <1>3, FS_EmptySet, SubscribeAssumption DEF Init, SlotsAccounted
<1>5. ReportedOnce
  BY DEF Init, ReportedOnce, Done
<1>6. IdleUntouched
  BY DEF Init, IdleUntouched, Untouched
<1> QED
  BY <1>2, <1>4, <1>5, <1>6 DEF SubInv

\* An event changes queues only, and only those of streams that are matched.
LEMMA PublishSteps ==
  ASSUME SubInv, NEW q \in [Streams -> Seq(Entry)], NEW item \in Entry,
         Publish(q, item), UNCHANGED <<callVars, sender, walker, todo, clientVars>>,
         leaf' \in [Caches -> [Paths -> Leaf]], writes' \in 0..MaxWrites,
         \A c \in Streams : queue[c] = <<>> => q[c] = <<>>
  PROVE  SubInv'
<1> USE DEF SubInv, callVars, clientVars
<1>1. queue' \in [Streams -> Seq(Entry)]
  BY InsertedType DEF Publish
<1>2. broken' \in [Streams -> BOOLEAN] /\ closed' \in [Streams -> BOOLEAN]
  BY DEF Publish, TypeOK, Reached, Matches
<1>3. TypeOK'
  BY <1>1, <1>2 DEF TypeOK, Entry
<1>4. SlotsAccounted'
  BY SlotKept
<1>5. ReportedOnce'
  BY DEF ReportedOnce
<1>6. IdleUntouched'
  BY DEF IdleUntouched, Untouched, Publish, Reached, Matches
<1> QED
  BY <1>3, <1>4, <1>5, <1>6

LEMMA WriteKeepsInv ==
  ASSUME SubInv, NEW k \in Caches, NEW p \in Paths, NEW v \in Values, WriteLeaf(k, p, v)
  PROVE  SubInv'
<1>1. queue \in [Streams -> Seq(Entry)]
  BY DEF SubInv, TypeOK, Entry
<1>2. [cache |-> k, path |-> p, value |-> Current] \in Entry
  BY EntryType
<1>3. leaf' \in [Caches -> [Paths -> Leaf]] /\ writes' \in 0..MaxWrites
  BY SubscribeAssumption DEF SubInv, TypeOK, WriteLeaf, Leaf
<1> QED
  BY <1>1, <1>2, <1>3, PublishSteps DEF WriteLeaf

LEMMA DeleteKeepsInv ==
  ASSUME SubInv, NEW k \in Caches, NEW p \in Paths, DeleteLeaf(k, p)
  PROVE  SubInv'
<1> DEFINE q == [c \in Streams |-> Detached(queue[c], k, p)]
<1>1. \A c \in Streams : queue[c] \in Seq(Entry)
  BY DEF SubInv, TypeOK, Entry
<1>2. q \in [Streams -> Seq(Entry)]
  BY <1>1, DetachedType DEF SubInv
<1>3. \A c \in Streams : queue[c] = <<>> => q[c] = <<>>
  <2> TAKE c \in Streams
  <2> HAVE queue[c] = <<>>
  <2>1. q[c] \in Seq(Entry) /\ Len(q[c]) = 0
    BY <1>1, DetachedType DEF SubInv
  <2> QED
    BY <2>1, EmptySeq
<1>4. [cache |-> k, path |-> p, value |-> Absent] \in Entry
  BY EntryType DEF Leaf
<1>5. leaf' \in [Caches -> [Paths -> Leaf]] /\ writes' \in 0..MaxWrites
  BY SubscribeAssumption DEF SubInv, TypeOK, DeleteLeaf, Leaf
<1>6. Publish(q, [cache |-> k, path |-> p, value |-> Absent])
  BY DEF DeleteLeaf
<1> HIDE DEF q
<1> QED
  BY <1>2, <1>3, <1>4, <1>5, <1>6, PublishSteps DEF DeleteLeaf

\* The calls that take a slot.
LEMMA SubscribeKeepsInv ==
  ASSUME SubInv, NEW c \in Streams, Subscribe(c)
  PROVE  SubInv'
<1> USE DEF SubInv, cacheVars, queueVars, clientVars
<1>q. queue \in [Streams -> Seq(Entry)]
  BY DEF TypeOK, Entry
<1>1. CASE Refuse(c)
  <2>1. TypeOK'
    BY <1>1 DEF Refuse, TypeOK
  <2>2. SlotsAccounted'
    BY <1>1, SlotKept DEF Refuse
  <2> QED
    BY <1>1, <2>1, <2>2 DEF Refuse, ReportedOnce, IdleUntouched, Untouched, TypeOK
<1>2. ASSUME NEW mode \in Mode, Accept(c, mode)
      PROVE  /\ SlotsAccounted' /\ slots' \in 0..MaxSubscriptions
             /\ handler' \in [Streams -> {"idle", "waiting", "returned"}]
             /\ sender' \in [Streams -> {"none", "running", "done", "missing"}]
             /\ sender[c] = "none" /\ walker[c] = "none"
             /\ \A d \in Streams : Done(sender'[d]) = Done(sender[d])
             /\ \A d \in Streams : handler'[d] = "idle" =>
                  d # c /\ handler[d] = "idle" /\ sender'[d] = sender[d]
  <2>1. sender[c] = "none" /\ walker[c] = "none"
    BY <1>2 DEF Accept, IdleUntouched, Untouched
  <2>2. SlotsAccounted' /\ slots' \in 0..MaxSubscriptions
    BY <1>2, <2>1, SlotTaken DEF Accept
  <2> QED
    BY <1>2, <2>1, <2>2 DEF Accept, TypeOK, Done
<1>3. CASE SubscribeOnce(c)
  <2>1. Accept(c, "once")
    BY <1>3 DEF SubscribeOnce
  <2>2. TypeOK'
    BY <1>2, <1>3, <2>1 DEF SubscribeOnce, TypeOK, Mode
  <2> QED
    BY <1>2, <1>3, <2>1, <2>2
    DEF SubscribeOnce, ReportedOnce, IdleUntouched, Untouched, TypeOK, Done, Mode
<1>4. CASE SubscribePoll(c)
  <2>1. Accept(c, "poll")
    BY <1>4 DEF SubscribePoll
  <2>2. TypeOK'
    BY <1>2, <1>4, <2>1 DEF SubscribePoll, TypeOK, Mode
  <2> QED
    BY <1>2, <1>4, <2>1, <2>2
    DEF SubscribePoll, ReportedOnce, IdleUntouched, Untouched, TypeOK, Done, Mode
<1>5. CASE SubscribeStream(c)
  <2>1. Accept(c, "stream")
    BY <1>5 DEF SubscribeStream
  <2>2. request[c] \in Request
    BY SubscribeAssumption DEF TypeOK
  <2>3. request[c].paths \subseteq Paths /\ Walked(request[c]) \subseteq Paths
    BY <2>2 DEF Request, Walked
  <2>4. Inserted(queue[c], SyncMarker) \in Seq(Entry)
    BY <1>q, EntryType, InsertedType
  <2>5. queue' \in [Streams -> Seq(Entry)]
    BY <1>5, <1>q, <2>4 DEF SubscribeStream
  <2>6. /\ walker' \in [Streams -> {"none", "walking", "closing", "done"}]
        /\ todo' \in [Streams -> SUBSET Paths]
        /\ matched' \in [Streams -> SUBSET Paths]
    <3>1. CASE request[c].updatesOnly
      BY <1>5, <2>3, <3>1 DEF SubscribeStream, TypeOK
    <3>2. CASE ~request[c].updatesOnly
      BY <1>5, <2>3, <3>2 DEF SubscribeStream, TypeOK
    <3> QED
      BY <3>1, <3>2
  <2>10. \A d \in Streams : Done(walker'[d]) = Done(walker[d])
    BY <1>2, <1>5, <2>1 DEF SubscribeStream, TypeOK, Done, Mode
  <2>7. TypeOK'
    BY <1>2, <1>5, <2>1, <2>5, <2>6 DEF SubscribeStream, TypeOK, Entry, Mode
  <2>8. ReportedOnce'
    BY <1>2, <1>5, <2>1, <2>10 DEF SubscribeStream, ReportedOnce, Mode
  <2>9. IdleUntouched'
    BY <1>2, <1>5, <2>1 DEF SubscribeStream, TypeOK, IdleUntouched, Untouched, Mode
  <2> QED
    BY <1>2, <2>1, <2>7, <2>8, <2>9 DEF Mode
<1>6. CASE SubscribeUnknown(c)
  <2>1. sender[c] = "none"
    BY <1>6 DEF SubscribeUnknown, IdleUntouched, Untouched
  <2>2. SlotsAccounted' /\ slots' \in 0..MaxSubscriptions
    BY <1>6, <2>1, SlotTaken DEF SubscribeUnknown
  <2>3. TypeOK'
    BY <1>6, <2>2 DEF SubscribeUnknown, TypeOK
  <2> QED
    BY <1>6, <2>1, <2>2, <2>3
    DEF SubscribeUnknown, ReportedOnce, IdleUntouched, Untouched, TypeOK, Done
<1> QED
  BY <1>1, <1>3, <1>4, <1>5, <1>6 DEF Subscribe

\* The walker of a stream.
LEMMA WalkKeepsInv ==
  ASSUME SubInv, NEW c \in Streams, Walk(c)
  PROVE  SubInv'
<1> USE DEF SubInv, cacheVars, callVars, clientVars
<1>q. queue \in [Streams -> Seq(Entry)]
  BY DEF TypeOK, Entry
<1>h. handler[c] # "idle"
  BY DEF Walk, WalkLeaf, WalkDone, WalkFails, CloseOnce, IdleUntouched, Untouched
<1>s. SlotsAccounted'
  BY SlotKept DEF Walk, WalkLeaf, WalkDone, WalkFails, CloseOnce
<1>b. /\ reported[c] \in 0..2 /\ reported[c] <= Done(walker[c]) + Done(sender[c])
      /\ Done(walker[c]) \in 0..1 /\ Done(sender[c]) \in 0..1
  <2>1. reported[c] \in 0..2
    BY DEF TypeOK
  <2>2. reported[c] <= Done(walker[c]) + Done(sender[c])
    BY DEF ReportedOnce
  <2>3. Done(walker[c]) \in 0..1 /\ Done(sender[c]) \in 0..1
    BY DoneValue
  <2> QED
    BY <2>1, <2>2, <2>3
<1>r. ASSUME walker' = [walker EXCEPT ![c] = "done"], UNCHANGED <<reported, sender>>
      PROVE  ReportedOnce'
  <2>1. \A d \in Streams : Done(walker'[d]) >= Done(walker[d])
    BY <1>r, DoneValue DEF TypeOK
  <2>2. ASSUME NEW d \in Streams
        PROVE  reported'[d] <= Done(walker'[d]) + Done(sender'[d])
    <3>1. reported[d] \in 0..2 /\ reported[d] <= Done(walker[d]) + Done(sender[d])
      BY DEF ReportedOnce, TypeOK
    <3>2. /\ Done(walker[d]) \in 0..1 /\ Done(sender[d]) \in 0..1
          /\ Done(walker'[d]) \in 0..1
      BY DoneValue
    <3> QED
      BY <1>r, <2>1, <3>1, <3>2
  <2> QED
    BY <2>2 DEF ReportedOnce
<1>1. ASSUME NEW p \in Paths, WalkLeaf(c, p)
      PROVE  SubInv'
  <2>1. Inserted(queue[c], [cache |-> "state", path |-> p, value |-> Current]) \in Seq(Entry)
    BY <1>q, EntryType, InsertedType DEF Caches
  <2>2. queue' \in [Streams -> Seq(Entry)]
    BY <1>1, <1>q, <2>1 DEF WalkLeaf
  <2>3. TypeOK'
    BY <1>1, <2>2 DEF WalkLeaf, TypeOK, Entry
  <2> QED
    BY <1>1, <1>h, <1>s, <2>3 DEF WalkLeaf, ReportedOnce, IdleUntouched, Untouched, TypeOK
<1>2. CASE WalkDone(c)
  <2>1. Inserted(queue[c], SyncMarker) \in Seq(Entry)
    BY <1>q, EntryType, InsertedType
  <2>2. queue' \in [Streams -> Seq(Entry)]
    BY <1>2, <1>q, <2>1 DEF WalkDone
  <2>3. TypeOK'
    BY <1>2, <2>2 DEF WalkDone, TypeOK, Entry
  <2>4. ReportedOnce'
    BY <1>2, <1>r DEF WalkDone
  <2> QED
    BY <1>2, <1>h, <1>s, <2>3, <2>4 DEF WalkDone, IdleUntouched, Untouched, TypeOK
<1>3. CASE WalkFails(c)
  <2>1. reported[c] + 1 \in 0..2 /\ reported[c] <= Done(sender[c])
    <3>1. Done(walker[c]) = 0
      BY <1>3 DEF WalkFails, Done
    <3> QED
      BY <1>b, <3>1
  <2>2. TypeOK'
    BY <1>3, <2>1 DEF WalkFails, TypeOK
  <2>3. ReportedOnce'
    <3>1. reported'[c] = reported[c] + 1 /\ Done(walker'[c]) = 1
      BY <1>3 DEF WalkFails, TypeOK, Done
    <3>2. reported'[c] <= Done(walker'[c]) + Done(sender'[c])
      <4>1. sender'[c] = sender[c]
        BY <1>3 DEF WalkFails
      <4> QED
        BY <1>b, <2>1, <3>1, <4>1
    <3>3. \A d \in Streams \ {c} : reported'[d] = reported[d] /\ walker'[d] = walker[d]
      BY <1>3 DEF WalkFails, TypeOK
    <3> QED
      BY <1>3, <3>2, <3>3 DEF WalkFails, ReportedOnce
  <2> QED
    BY <1>3, <1>h, <1>s, <2>2, <2>3 DEF WalkFails, IdleUntouched, Untouched, TypeOK
<1>4. CASE CloseOnce(c)
  <2>1. TypeOK'
    BY <1>4 DEF CloseOnce, TypeOK
  <2>2. ReportedOnce'
    BY <1>4, <1>r DEF CloseOnce
  <2> QED
    BY <1>4, <1>h, <1>s, <2>1, <2>2 DEF CloseOnce, IdleUntouched, Untouched, TypeOK
<1> QED
  BY <1>1, <1>2, <1>3, <1>4 DEF Walk

\* The sender of a stream.
LEMMA SendKeepsInv ==
  ASSUME SubInv, NEW c \in Streams, Send(c)
  PROVE  SubInv'
<1> USE DEF SubInv, cacheVars, callVars, clientVars
<1>q. queue \in [Streams -> Seq(Entry)]
  BY DEF TypeOK, Entry
<1>h. handler[c] # "idle" /\ sender[c] = "running"
  BY DEF Send, SendSync, SendLeaf, SendFails, SenderStops, Sending, NextEnds, Waiting,
         IdleUntouched, Untouched
<1>t. queue[c] # <<>> => Head(queue[c]) \in Entry /\ Tail(queue[c]) \in Seq(Entry)
  BY <1>q, HeadTailProperties
<1>b. /\ reported[c] \in 0..2 /\ reported[c] <= Done(walker[c]) + Done(sender[c])
      /\ Done(walker[c]) \in 0..1 /\ Done(sender[c]) \in 0..1
  <2>1. reported[c] \in 0..2
    BY DEF TypeOK
  <2>2. reported[c] <= Done(walker[c]) + Done(sender[c])
    BY DEF ReportedOnce
  <2>3. Done(walker[c]) \in 0..1 /\ Done(sender[c]) \in 0..1
    BY DoneValue
  <2> QED
    BY <2>1, <2>2, <2>3
<1>1. CASE SendSync(c)
  <2>1. queue' \in [Streams -> Seq(Entry)]
    BY <1>1, <1>q, <1>t DEF SendSync, Sending
  <2>2. TypeOK'
    BY <1>1, <2>1 DEF SendSync, TypeOK, Entry
  <2>3. SlotsAccounted'
    BY <1>1, SlotKept DEF SendSync
  <2> QED
    BY <1>1, <1>h, <2>2, <2>3 DEF SendSync, ReportedOnce, IdleUntouched, Untouched, TypeOK
<1>2. CASE SendLeaf(c)
  <2>1. queue' \in [Streams -> Seq(Entry)]
    BY <1>2, <1>q, <1>t DEF SendLeaf, Sending
  <2>2. Head(queue[c]).path \in Paths /\ ValueOf(Head(queue[c])) \in Leaf
    BY <1>2, <1>t, EntryType DEF SendLeaf, Sending, ValueOf, TypeOK
  <2>3. view' \in [Streams -> [Paths -> Leaf]]
    BY <1>2, <2>2 DEF SendLeaf, TypeOK
  <2>4. TypeOK'
    BY <1>2, <2>1, <2>3 DEF SendLeaf, TypeOK, Entry
  <2>5. SlotsAccounted'
    BY <1>2, SlotKept DEF SendLeaf
  <2> QED
    BY <1>2, <1>h, <2>4, <2>5 DEF SendLeaf, ReportedOnce, IdleUntouched, Untouched, TypeOK
<1>3. ASSUME EndSender(c), Report(c), UNCHANGED <<handler, request, matched, connected,
                 leaf, writes, walker, todo, view, broken, closed>>,
             queue' \in [Streams -> Seq(Entry)],
             \A d \in Streams \ {c} : queue'[d] = queue[d]
      PROVE  SubInv'
  <2>1. SlotsAccounted' /\ slots' \in 0..MaxSubscriptions
    BY <1>3, <1>h, SlotReturned
  <2>2. reported[c] + 1 \in 0..2 /\ reported[c] <= Done(walker[c])
    <3>1. Done(sender[c]) = 0
      BY <1>h DEF Done
    <3> QED
      BY <1>b, <3>1
  <2>6. /\ reported' = [reported EXCEPT ![c] = reported[c] + 1]
        /\ sender' = [sender EXCEPT ![c] = "done"]
        /\ Done(sender'[c]) = 1
    BY <1>3 DEF EndSender, Report, TypeOK, Done
  <2>3. TypeOK'
    BY <1>3, <2>1, <2>2, <2>6 DEF TypeOK, Entry
  <2>7. reported'[c] = reported[c] + 1
    BY <2>6 DEF TypeOK
  <2>8. reported'[c] <= Done(walker'[c]) + Done(sender'[c])
    <3>1. reported[c] \in 0..2 /\ Done(walker[c]) \in 0..1
      BY DoneValue DEF TypeOK
    <3> QED
      BY <1>3, <2>2, <2>6, <2>7, <3>1
  <2>9. \A d \in Streams \ {c} : reported'[d] = reported[d] /\ sender'[d] = sender[d]
    BY <2>6 DEF TypeOK
  <2>4. ReportedOnce'
    BY <1>3, <2>8, <2>9 DEF ReportedOnce
  <2>5. IdleUntouched'
    BY <1>3, <1>h DEF EndSender, TypeOK, IdleUntouched, Untouched
  <2> QED
    BY <2>1, <2>3, <2>4, <2>5
<1>4. CASE SendFails(c)
  <2>1. queue' \in [Streams -> Seq(Entry)]
    BY <1>4, <1>q, <1>t DEF SendFails, Sending
  <2> QED
    BY <1>3, <1>4, <2>1 DEF SendFails, TypeOK
<1>5. CASE SenderStops(c)
  BY <1>3, <1>5, <1>q DEF SenderStops, queueVars
<1> QED
  BY <1>1, <1>2, <1>4, <1>5 DEF Send

LEMMA SubInvStep == SubInv /\ [Next]_vars => SubInv'
<1> SUFFICES ASSUME SubInv, [Next]_vars
             PROVE  SubInv'
  OBVIOUS
<1>1. ASSUME NEW k \in Caches, NEW p \in Paths, DeleteLeaf(k, p)
      PROVE  SubInv'
  BY <1>1, DeleteKeepsInv
<1>2. ASSUME NEW k \in Caches, NEW p \in Paths, NEW v \in Values, WriteLeaf(k, p, v)
      PROVE  SubInv'
  BY <1>2, WriteKeepsInv
<1>3. ASSUME NEW c \in Streams, Subscribe(c)
      PROVE  SubInv'
  BY <1>3, SubscribeKeepsInv
<1>4. ASSUME NEW c \in Streams, Disconnect(c)
      PROVE  SubInv'
  <2>1. TypeOK'
    BY <1>4 DEF SubInv, Disconnect, TypeOK, cacheVars, queueVars, clientVars
  <2>2. SlotsAccounted'
    BY <1>4, SlotKept DEF SubInv, Disconnect
  <2> QED
    BY <1>4, <2>1, <2>2 DEF SubInv, Disconnect, ReportedOnce, IdleUntouched, Untouched,
                            cacheVars, queueVars, clientVars
<1>5. ASSUME NEW c \in Streams, Walk(c)
      PROVE  SubInv'
  BY <1>5, WalkKeepsInv
<1>6. ASSUME NEW c \in Streams, Send(c)
      PROVE  SubInv'
  BY <1>6, SendKeepsInv
<1>7. CASE UNCHANGED vars
  <2>1. TypeOK'
    BY <1>7 DEF SubInv, TypeOK, vars, cacheVars, callVars, queueVars, clientVars
  <2>2. SlotsAccounted'
    BY <1>7, SlotKept DEF SubInv, vars, callVars
  <2> QED
    BY <1>7, <2>1, <2>2 DEF SubInv, ReportedOnce, IdleUntouched, Untouched, vars,
                            cacheVars, callVars, queueVars, clientVars
<1> QED
  BY <1>1, <1>2, <1>3, <1>4, <1>5, <1>6, <1>7 DEF Next

(***************************************************************************)
(* Subscribe keeps its types: a slot is never given back twice, and errChan*)
(* takes what the goroutines report without blocking them.                 *)
(***************************************************************************)
THEOREM SubscribeTypes == Spec => []TypeOK
<1>1. SubInv => TypeOK
  BY DEF SubInv
<1> QED
  BY SubInitial, SubInvStep, <1>1, PTL DEF Spec

(***************************************************************************)
(* Slots add up, for any number of streams and slots.                      *)
(***************************************************************************)
THEOREM SlotsCorrect == Spec => []SlotsAccounted
<1>1. SubInv => SlotsAccounted
  BY DEF SubInv
<1> QED
  BY SubInitial, SubInvStep, <1>1, PTL DEF Spec

-----------------------------------------------------------------------------
(***************************************************************************)
(* Admission.  A stream is inside while there is a slot with its name.     *)
(***************************************************************************)
\* Admission counts with the Cardinality of its own copy of FiniteSets.
LEMMA CardinalitySame == \A S : Subscriptions!Cardinality(S) = Cardinality(S)
BY DEF Subscriptions!Cardinality, Cardinality

LEMMA InsideIsHolders == Subscriptions!Inside = Holders
BY DEF Subscriptions!Inside, Place, Holders

LEMMA PlaceStays ==
  ASSUME UNCHANGED <<handler, sender>>
  PROVE  Place' = Place
BY DEF Place, Holders

\* Whoever ends a sender moves one stream out.
LEMMA EndSenderLeaves ==
  ASSUME SubInv, NEW c \in Streams, sender[c] = "running", EndSender(c), handler' = handler
  PROVE  Subscriptions!Leave(c)
<1>1. handler[c] # "idle"
  BY DEF SubInv, IdleUntouched, Untouched
<1>2. Place' = [Place EXCEPT ![c] = "outside"]
  BY <1>1 DEF Place, Holders, EndSender, SubInv, TypeOK
<1> QED
  BY <1>2 DEF Place, Holders, Subscriptions!Leave, Subscriptions!Move

\* A call that gets a slot moves one stream in.
LEMMA AcceptAdmits ==
  ASSUME SubInv, NEW c \in Streams, handler[c] = "idle", slots > 0,
         NEW s \in {"running", "missing"}, sender' = [sender EXCEPT ![c] = s],
         NEW h \in {"waiting", "returned"}, handler' = [handler EXCEPT ![c] = h]
  PROVE  Subscriptions!Admit(c)
<1>1. c \notin Holders
  BY DEF SubInv, IdleUntouched, Untouched, Holders
<1>2. Place' = [Place EXCEPT ![c] = "inside"]
  BY DEF Place, Holders, SubInv, TypeOK
<1>3. Subscriptions!Cardinality(Subscriptions!Inside) < MaxSubscriptions
  BY InsideIsHolders, CardinalitySame, HoldersFinite, SubscribeAssumption
     DEF SubInv, SlotsAccounted, TypeOK
<1> QED
  BY <1>1, <1>2, <1>3 DEF Place, Subscriptions!Admit, Subscriptions!Move

LEMMA StepAdmits == SubInv /\ [Next]_vars => [Subscriptions!Next]_Place
<1> SUFFICES ASSUME SubInv, [Next]_vars
             PROVE  [Subscriptions!Next]_Place
  OBVIOUS
<1>1. ASSUME UNCHANGED <<handler, sender>>
      PROVE  [Subscriptions!Next]_Place
  BY <1>1, PlaceStays
<1>2. ASSUME NEW k \in Caches, NEW p \in Paths,
             DeleteLeaf(k, p) \/ \E v \in Values : WriteLeaf(k, p, v)
      PROVE  [Subscriptions!Next]_Place
  BY <1>1, <1>2 DEF DeleteLeaf, WriteLeaf, callVars
<1>3. ASSUME NEW c \in Streams, Refuse(c)
      PROVE  Subscriptions!Refuse(c)
  <2>1. c \notin Holders
    BY <1>3 DEF Refuse, SubInv, IdleUntouched, Untouched, Holders
  <2>2. Place' = [Place EXCEPT ![c] = "outside"]
    BY <1>3, <2>1 DEF Refuse, Place, Holders, SubInv, TypeOK
  <2>3. Subscriptions!Cardinality(Subscriptions!Inside) = MaxSubscriptions
    BY <1>3, InsideIsHolders, CardinalitySame, HoldersFinite, SubscribeAssumption
       DEF Refuse, SubInv, SlotsAccounted, TypeOK
  <2> QED
    BY <1>3, <2>1, <2>2, <2>3 DEF Refuse, Place, Subscriptions!Refuse, Subscriptions!Move
<1>4. ASSUME NEW c \in Streams, SubscribeOnce(c) \/ SubscribePoll(c) \/ SubscribeStream(c)
      PROVE  Subscriptions!Admit(c)
  BY <1>4, AcceptAdmits DEF SubscribeOnce, SubscribePoll, SubscribeStream, Accept
<1>5. ASSUME NEW c \in Streams, SubscribeUnknown(c)
      PROVE  Subscriptions!Admit(c)
  BY <1>5, AcceptAdmits DEF SubscribeUnknown
<1>6. ASSUME NEW c \in Streams, Disconnect(c) \/ Walk(c) \/ SendSync(c) \/ SendLeaf(c)
      PROVE  [Subscriptions!Next]_Place
  BY <1>1, <1>6 DEF Disconnect, Walk, WalkLeaf, WalkDone, WalkFails, CloseOnce, SendSync,
                    SendLeaf, callVars
<1>7. ASSUME NEW c \in Streams, SendFails(c) \/ SenderStops(c)
      PROVE  Subscriptions!Leave(c)
  BY <1>7, EndSenderLeaves DEF SendFails, SenderStops, Sending, NextEnds, Waiting
<1>8. CASE UNCHANGED vars
  BY <1>1, <1>8 DEF vars, callVars
<1> QED
  BY <1>2, <1>3, <1>4, <1>5, <1>6, <1>7, <1>8 DEF Next, Subscribe, Send, Subscriptions!Next

(***************************************************************************)
(* For any number of streams and slots, a stream is refused only when as   *)
(* many are served, or lost, as there are slots (Subscribe).               *)
(***************************************************************************)
THEOREM SubscribeAdmits == Spec => ImplementsAdmission
<1>1. Init => Subscriptions!Init
  BY DEF Init, Subscriptions!Init, Place, Holders
<1>2. Spec => []SubInv
  BY SubInitial, SubInvStep, PTL DEF Spec
<1> QED
  BY <1>1, <1>2, StepAdmits, PTL DEF Spec, Subscriptions!Spec, ImplementsAdmission
-----------------------------------------------------------------------------
(***************************************************************************)
(* NothingLost, for any number of streams, paths and writes: between the   *)
(* walk of the state cache and the events no change of a leaf gets lost.   *)
(*                                                                         *)
(* NothingLost is not inductive: that a pointer which is queued already is *)
(* not queued again is only right if nothing of the same leaf is queued    *)
(* behind it, and a leaf the walker has not come to may have had events.   *)
(***************************************************************************)
OwnPaths == StatePaths \ ConfigPaths

\* A queue holds pointers to a state leaf p at the end of what it has of p.
Tidy(q, p) ==
  \A i \in DOMAIN q : q[i].path = p =>
    /\ q[i].cache = "state"
    /\ q[i].value = Current => LastFor(q, p, i)

\* Brings, of a queue, the view w and the value v of the leaf.
Will(q, p, w, v, V) ==
  /\ \A i \in DOMAIN q : LastFor(q, p, i) =>
       (IF q[i].value = Current THEN v ELSE q[i].value) \in V
  /\ (\A i \in DOMAIN q : q[i].path # p) => w \in V

Promise(c, p) ==
  Follows(c) /\ p \in matched[c] =>
    /\ Will(queue[c], p, view[c][p], leaf["state"][p], {leaf["state"][p], Absent})
    /\ p \notin todo[c] =>
         Will(queue[c], p, view[c][p], leaf["state"][p], {leaf["state"][p]})

Safe(c, p) == Tidy(queue[c], p) /\ Promise(c, p)

LeavesInCache ==
  \A k \in Caches, p \in Paths : leaf[k][p] # Absent => p \in PathsOf(k)

LossInv ==
  /\ SubInv
  /\ LeavesInCache
  /\ \A c \in Streams, p \in OwnPaths : Safe(c, p)

-----------------------------------------------------------------------------
\* Queues.  Something of another path does not touch what is said of p.
LEMMA InsertOther ==
  ASSUME NEW q \in Seq(Entry), NEW item \in Entry, NEW p, item.path # p, Tidy(q, p),
         NEW w, NEW v
  PROVE  /\ Tidy(Inserted(q, item), p)
         /\ \A V : Will(q, p, w, v, V) => Will(Inserted(q, item), p, w, v, V)
<1> DEFINE r == Append(q, item)
<1>1. /\ Len(q) \in Nat /\ DOMAIN q = 1..Len(q)
      /\ DOMAIN r = 1..(Len(q) + 1)
      /\ \A i \in 1..Len(q) : r[i] = q[i]
      /\ r[Len(q) + 1] = item
  OBVIOUS
<1> HIDE DEF r
<1>2. \A i \in DOMAIN r : r[i].path = p => i \in DOMAIN q /\ r[i] = q[i]
  BY <1>1
<1>3. \A i \in DOMAIN q : LastFor(q, p, i) <=> LastFor(r, p, i)
  BY <1>1, <1>2 DEF LastFor
<1>4. Tidy(r, p)
  BY <1>1, <1>2, <1>3 DEF Tidy
<1>5. ASSUME NEW V, Will(q, p, w, v, V)
      PROVE  Will(r, p, w, v, V)
  <2>1. \A i \in DOMAIN r : LastFor(r, p, i) => i \in DOMAIN q /\ r[i] = q[i]
    BY <1>2 DEF LastFor
  <2>2. (\A i \in DOMAIN r : r[i].path # p) => \A i \in DOMAIN q : q[i].path # p
    BY <1>1
  <2> QED
    BY <1>3, <1>5, <2>1, <2>2 DEF Will
<1> QED
  BY <1>4, <1>5 DEF Inserted, r

\* A pointer to p is the last of p afterwards, whether it was queued before.
LEMMA InsertPointer ==
  ASSUME NEW q \in Seq(Entry), NEW p \in Paths, Tidy(q, p), NEW item,
         item = [cache |-> "state", path |-> p, value |-> Current]
  PROVE  /\ Tidy(Inserted(q, item), p)
         /\ \A w, v, V : v \in V => Will(Inserted(q, item), p, w, v, V)
<1> DEFINE r == Append(q, item)
<1>e. item \in Entry
  BY EntryType DEF Caches
<1>1. /\ Len(q) \in Nat /\ DOMAIN q = 1..Len(q)
      /\ DOMAIN r = 1..(Len(q) + 1)
      /\ \A i \in 1..Len(q) : r[i] = q[i]
      /\ r[Len(q) + 1] = item
  BY <1>e
<1>2. CASE \E i \in DOMAIN q : q[i] = item
  <2>1. PICK i \in DOMAIN q : q[i] = item
    BY <1>2
  <2>2. q[i].path = p /\ q[i].value = Current
    BY <2>1
  <2>3. LastFor(q, p, i)
    BY <2>2 DEF Tidy
  <2>4. \A j \in DOMAIN q : LastFor(q, p, j) => j = i
    BY <1>1, <2>3 DEF LastFor
  <2>5. Inserted(q, item) = q
    BY <1>2 DEF Inserted
  <2> HIDE DEF r
  <2> QED
    BY <2>2, <2>4, <2>5 DEF Will
<1>3. CASE ~\E i \in DOMAIN q : q[i] = item
  <2> HIDE DEF r
  <2>1. \A i \in DOMAIN q : q[i].path = p => q[i].value # Current
    <3> SUFFICES ASSUME NEW i \in DOMAIN q, q[i].path = p, q[i].value = Current
                 PROVE  FALSE
      OBVIOUS
    <3>1. q[i] \in Entry /\ q[i] # SyncMarker
      BY <1>1, EntryType
    <3>2. q[i] \in Item
      BY <3>1 DEF Entry
    <3>3. q[i].cache = "state"
      BY DEF Tidy
    <3>4. q[i] = item
      BY <3>2, <3>3 DEF Item
    <3> QED
      BY <1>3, <3>4
  <2>2. \A i \in DOMAIN r : LastFor(r, p, i) <=> i = Len(q) + 1
    BY <1>1 DEF LastFor
  <2>3. Tidy(r, p)
    <3>1. ASSUME NEW i \in DOMAIN r, r[i].path = p
          PROVE  r[i].cache = "state" /\ (r[i].value = Current => LastFor(r, p, i))
      <4>1. CASE i = Len(q) + 1
        BY <1>1, <2>2, <4>1
      <4>2. CASE i \in DOMAIN q
        BY <1>1, <2>1, <3>1, <4>2 DEF Tidy
      <4> QED
        BY <1>1, <4>1, <4>2
    <3> QED
      BY <3>1 DEF Tidy
  <2>4. \A w, v, V : v \in V => Will(r, p, w, v, V)
    BY <1>1, <2>2 DEF Will
  <2>5. Inserted(q, item) = r
    BY <1>3 DEF Inserted, r
  <2> QED
    BY <2>3, <2>4, <2>5
<1> QED
  BY <1>2, <1>3

\* The deletion of p is the last of p, if no pointer to p is left.
LEMMA InsertDeletion ==
  ASSUME NEW q \in Seq(Entry), NEW p \in Paths, Tidy(q, p), NEW item,
         item = [cache |-> "state", path |-> p, value |-> Absent],
         \A i \in DOMAIN q : q[i].path = p => q[i].value # Current
  PROVE  /\ Tidy(Inserted(q, item), p)
         /\ \A w, v, V : Absent \in V => Will(Inserted(q, item), p, w, v, V)
<1> DEFINE r == Append(q, item)
<1>e. item \in Entry /\ Absent # Current
  BY EntryType, SubscribeAssumption DEF Caches, Leaf
<1>1. /\ Len(q) \in Nat /\ DOMAIN q = 1..Len(q)
      /\ DOMAIN r = 1..(Len(q) + 1)
      /\ \A i \in 1..Len(q) : r[i] = q[i]
      /\ r[Len(q) + 1] = item
  BY <1>e
<1>5. Inserted(q, item) = r
  BY <1>e DEF Inserted
<1> HIDE DEF r
<1>2. \A i \in DOMAIN r : LastFor(r, p, i) <=> i = Len(q) + 1
  BY <1>1 DEF LastFor
<1>3. Tidy(r, p)
  <2>1. ASSUME NEW i \in DOMAIN r, r[i].path = p
        PROVE  r[i].cache = "state" /\ (r[i].value = Current => LastFor(r, p, i))
    <3>1. CASE i = Len(q) + 1
      BY <1>1, <1>2, <3>1
    <3>2. CASE i \in DOMAIN q
      BY <1>1, <2>1, <3>2 DEF Tidy
    <3> QED
      BY <1>1, <3>1, <3>2
  <2> QED
    BY <2>1 DEF Tidy
<1>4. \A w, v, V : Absent \in V => Will(r, p, w, v, V)
  BY <1>e, <1>1, <1>2 DEF Will
<1> QED
  BY <1>3, <1>4, <1>5

\* What a delete makes of the pointers: those to p lose Current, others stay.
LEMMA DetachedQueue ==
  ASSUME TypeOK, NEW q \in Seq(Entry), NEW k \in Caches, NEW r \in Paths
  PROVE  \A i \in DOMAIN q :
           /\ Detached(q, k, r)[i].path = q[i].path
           /\ Detached(q, k, r)[i].cache = q[i].cache
           /\ q[i].path # r => Detached(q, k, r)[i] = q[i]
           /\ q[i].path = r /\ q[i].cache = k => Detached(q, k, r)[i].value # Current
<1> TAKE i \in DOMAIN q
<1>1. Detached(q, k, r)[i] =
        IF q[i] = [cache |-> k, path |-> r, value |-> Current]
        THEN [q[i] EXCEPT !.value = leaf[k][r]]
        ELSE q[i]
  BY DEF Detached
<1>2. leaf[k][r] # Current
  BY SubscribeAssumption DEF TypeOK
<1>3. CASE q[i] = [cache |-> k, path |-> r, value |-> Current]
  <2>1. Detached(q, k, r)[i] = [cache |-> k, path |-> r, value |-> leaf[k][r]]
    BY <1>1, <1>3
  <2> QED
    BY <1>2, <1>3, <2>1
<1>4. CASE q[i] # [cache |-> k, path |-> r, value |-> Current]
  <2>1. Detached(q, k, r)[i] = q[i]
    BY <1>1, <1>4
  <2>2. q[i] \in Entry
    BY LenProperties
  <2>3. q[i].path = r /\ q[i].cache = k => q[i].value # Current
    <3> SUFFICES ASSUME q[i].path = r, q[i].cache = k, q[i].value = Current
                 PROVE  FALSE
      OBVIOUS
    <3>1. q[i] \in Item
      BY <2>2, EntryType DEF Entry
    <3> QED
      BY <1>4, <3>1 DEF Item
  <2> QED
    BY <2>1, <2>3
<1> QED
  BY <1>3, <1>4

LEMMA DetachedTidy ==
  ASSUME TypeOK, NEW q \in Seq(Entry), NEW k \in Caches, NEW r \in Paths,
         NEW p \in Paths, Tidy(q, p)
  PROVE  /\ Tidy(Detached(q, k, r), p)
         /\ r # p => \A w, v, V : Will(q, p, w, v, V) => Will(Detached(q, k, r), p, w, v, V)
<1> DEFINE d == Detached(q, k, r)
<1>1. DOMAIN d = DOMAIN q /\ \A i \in DOMAIN q :
        /\ d[i].path = q[i].path
        /\ d[i].cache = q[i].cache
        /\ q[i].path # r => d[i] = q[i]
        /\ q[i].path = r /\ q[i].cache = k => d[i].value # Current
  BY DetachedQueue, DetachedType
<1>2. \A i \in DOMAIN q : d[i].value = Current => d[i] = q[i]
  BY SubscribeAssumption DEF Detached, TypeOK
<1> HIDE DEF d
<1>3. \A i \in DOMAIN q : LastFor(q, p, i) <=> LastFor(d, p, i)
  BY <1>1 DEF LastFor
<1>4. Tidy(d, p)
  BY <1>1, <1>2, <1>3 DEF Tidy
<1>5. ASSUME r # p, NEW w, NEW v, NEW V, Will(q, p, w, v, V)
      PROVE  Will(d, p, w, v, V)
  <2>1. \A i \in DOMAIN q : LastFor(d, p, i) => d[i] = q[i]
    BY <1>1, <1>5 DEF LastFor
  <2> QED
    BY <1>1, <1>3, <1>5, <2>1 DEF Will
<1> QED
  BY <1>4, <1>5 DEF d

\* What is left of a queue when its head is sent.
LEMMA TailQueue ==
  ASSUME NEW q \in Seq(Entry), q # <<>>, NEW p, Tidy(q, p)
  PROVE  /\ Tidy(Tail(q), p)
         /\ \A w, v, V : Head(q).path # p /\ Will(q, p, w, v, V) =>
              Will(Tail(q), p, w, v, V)
         /\ \A w, v, V : Head(q).path = p /\ Will(q, p, w, v, V) =>
              Will(Tail(q), p, IF Head(q).value = Current THEN v ELSE Head(q).value, v, V)
<1> DEFINE t == Tail(q)
<1>1. /\ Len(q) \in Nat \ {0} /\ DOMAIN q = 1..Len(q)
      /\ DOMAIN t = 1..(Len(q) - 1)
      /\ \A i \in DOMAIN t : i + 1 \in DOMAIN q /\ t[i] = q[i + 1]
      /\ Head(q) = q[1]
  BY EmptySeq
<1> HIDE DEF t
<1>2. \A i \in DOMAIN q : i = 1 \/ (i - 1 \in DOMAIN t /\ t[i - 1] = q[i])
  BY <1>1
<1>3. ASSUME NEW i \in DOMAIN t
      PROVE  LastFor(t, p, i) <=> LastFor(q, p, i + 1)
  <2>1. ASSUME LastFor(t, p, i)
        PROVE  LastFor(q, p, i + 1)
    <3>1. ASSUME NEW j \in DOMAIN q, q[j].path = p
          PROVE  j <= i + 1
      <4>1. i \in Nat /\ j \in Nat /\ 1 <= i
        BY <1>1
      <4>2. CASE j = 1
        BY <4>1, <4>2
      <4>3. CASE j - 1 \in DOMAIN t /\ t[j - 1] = q[j]
        <5>1. j - 1 <= i
          BY <2>1, <3>1, <4>3 DEF LastFor
        <5> QED
          BY <4>1, <5>1
      <4> QED
        BY <1>2, <4>2, <4>3
    <3> QED
      BY <1>1, <2>1, <3>1 DEF LastFor
  <2>2. ASSUME LastFor(q, p, i + 1)
        PROVE  LastFor(t, p, i)
    <3>1. ASSUME NEW j \in DOMAIN t, t[j].path = p
          PROVE  j <= i
      <4>1. j + 1 \in DOMAIN q /\ q[j + 1].path = p
        BY <1>1, <3>1
      <4>2. j + 1 <= i + 1
        BY <2>2, <4>1 DEF LastFor
      <4> QED
        BY <1>1, <4>2
    <3> QED
      BY <1>1, <2>2, <3>1 DEF LastFor
  <2> QED
    BY <2>1, <2>2
<1>4. Tidy(t, p)
  BY <1>1, <1>3 DEF Tidy
<1>5. ASSUME NEW w, NEW v, NEW V, Will(q, p, w, v, V)
      PROVE  \A i \in DOMAIN t : LastFor(t, p, i) =>
               (IF t[i].value = Current THEN v ELSE t[i].value) \in V
  BY <1>1, <1>3, <1>5 DEF Will
<1>6. ASSUME NEW w, NEW v, NEW V, Head(q).path # p, Will(q, p, w, v, V)
      PROVE  Will(t, p, w, v, V)
  <2>1. (\A i \in DOMAIN t : t[i].path # p) => w \in V
    BY <1>1, <1>2, <1>6 DEF Will
  <2> QED
    BY <1>5, <1>6, <2>1 DEF Will
<1>7. ASSUME NEW w, NEW v, NEW V, Head(q).path = p, Will(q, p, w, v, V)
      PROVE  Will(t, p, IF Head(q).value = Current THEN v ELSE Head(q).value, v, V)
  <2>1. ASSUME \A i \in DOMAIN t : t[i].path # p
        PROVE  LastFor(q, p, 1)
    BY <1>1, <1>2, <1>7, <2>1 DEF LastFor
  <2>2. (\A i \in DOMAIN t : t[i].path # p) =>
          (IF Head(q).value = Current THEN v ELSE Head(q).value) \in V
    BY <1>1, <1>7, <2>1 DEF Will
  <2> QED
    BY <1>5, <1>7, <2>2 DEF Will
<1> QED
  BY <1>4, <1>6, <1>7 DEF t

-----------------------------------------------------------------------------
\* Brings speaks of the queue, the view and the cache as Will does.
LEMMA BringsIsWill ==
  ASSUME NEW c \in Streams, NEW p \in Paths, Tidy(queue[c], p), NEW V
  PROVE  Brings(c, p, V) <=> Will(queue[c], p, view[c][p], leaf["state"][p], V)
<1>1. \A i \in DOMAIN queue[c] : LastFor(queue[c], p, i) =>
        ValueOf(queue[c][i]) =
          (IF queue[c][i].value = Current THEN leaf["state"][p] ELSE queue[c][i].value)
  BY DEF Tidy, LastFor, ValueOf
<1> QED
  BY <1>1 DEF Brings, Will

LEMMA LossIsNothingLost == LossInv => NothingLost
<1> SUFFICES ASSUME LossInv, NEW c \in Streams, NEW p \in StatePaths \ ConfigPaths
             PROVE  Lossless(c, p)
  BY DEF NothingLost
<1>1. p \in Paths /\ Tidy(queue[c], p) /\ Promise(c, p)
  BY SubscribeAssumption DEF LossInv, OwnPaths, Safe
<1> QED
  BY <1>1, BringsIsWill DEF Promise, Lossless

\* A stream and a path that a step does not touch.
LEMMA Untouching ==
  ASSUME NEW c \in Streams, NEW p \in OwnPaths, Safe(c, p),
         queue'[c] = queue[c], view'[c][p] = view[c][p],
         leaf'["state"][p] = leaf["state"][p],
         Follows(c)' => Follows(c),
         matched'[c] = matched[c], p \in todo[c] => p \in todo'[c]
  PROVE  Safe(c, p)'
BY DEF Safe, Promise

-----------------------------------------------------------------------------
LEMMA LossInitial == Init => LossInv
<1> SUFFICES ASSUME Init
             PROVE  LossInv
  OBVIOUS
<1>1. LeavesInCache
  BY DEF Init, LeavesInCache
<1>2. ASSUME NEW c \in Streams, NEW p \in OwnPaths
      PROVE  Safe(c, p)
  BY DEF Init, Safe, Tidy, Promise, Follows
<1> QED
  BY <1>1, <1>2, SubInitial DEF LossInv

\* An event of a leaf, after which the queues q hold no pointer to it if it
\* is deleted: every stream it reaches has it last.
LEMMA PublishKeepsSafe ==
  ASSUME LossInv, NEW q \in [Streams -> Seq(Entry)], NEW k \in Caches, NEW r \in PathsOf(k),
         NEW item \in Entry, item.path = r, item.cache = k,
         item.value \in {Current, Absent},
         item.value = Absent => leaf'[k][r] = Absent,
         leaf' = [leaf EXCEPT ![k][r] = leaf'[k][r]], leaf'[k][r] \in Leaf,
         Publish(q, item), UNCHANGED <<callVars, sender, walker, todo, clientVars>>,
         \A c \in Streams, p \in OwnPaths : Tidy(q[c], p),
         \A c \in Streams, p \in OwnPaths : p # r =>
            \A w, v, V : Will(queue[c], p, w, v, V) => Will(q[c], p, w, v, V),
         item.value = Absent => \A c \in Streams : \A i \in DOMAIN q[c] :
            q[c][i].path = r /\ q[c][i].cache = k => q[c][i].value # Current,
         NEW c \in Streams, NEW p \in OwnPaths
  PROVE  Safe(c, p)'
<1> USE DEF callVars, clientVars
<1>1. p \in Paths /\ Tidy(queue[c], p) /\ Tidy(q[c], p) /\ Promise(c, p) /\ r \in Paths
  BY SubscribeAssumption DEF LossInv, Safe, OwnPaths, PathsOf
<1>2. q[c] \in Seq(Entry)
  OBVIOUS
<1>3. queue'[c] = IF Reached(c, item) /\ ~closed[c] THEN Inserted(q[c], item) ELSE q[c]
  BY DEF Publish
<1>4. broken'[c] = (broken[c] \/ (Reached(c, item) /\ closed[c]))
  BY DEF Publish
<1>5. Follows(c)' => Follows(c) /\ ~(Reached(c, item) /\ closed[c])
  BY <1>4 DEF Follows
<1>6. CASE p # r
  <2>1. leaf'["state"][p] = leaf["state"][p]
    BY <1>6, <1>1 DEF LossInv, SubInv, TypeOK, Caches
  <2>2. Tidy(queue'[c], p)
    <3>1. Tidy(Inserted(q[c], item), p)
      BY <1>1, <1>2, <1>6, InsertOther
    <3>2. CASE Reached(c, item) /\ ~closed[c]
      BY <1>3, <3>1, <3>2
    <3>3. CASE ~(Reached(c, item) /\ ~closed[c])
      BY <1>1, <1>3, <3>3
    <3> QED
      BY <3>2, <3>3
  <2>3. \A w, v, V : Will(queue[c], p, w, v, V) => Will(queue'[c], p, w, v, V)
    <3>1. \A w, v, V : Will(queue[c], p, w, v, V) => Will(q[c], p, w, v, V)
      BY <1>6
    <3>2. \A w, v, V : Will(q[c], p, w, v, V) => Will(Inserted(q[c], item), p, w, v, V)
      BY <1>1, <1>2, <1>6, InsertOther
    <3> QED
      BY <1>3, <3>1, <3>2
  <2> QED
    BY <1>1, <1>5, <2>1, <2>2, <2>3 DEF Safe, Promise
<1>7. CASE p = r
  <2>1. k = "state"
    BY <1>7 DEF OwnPaths, PathsOf
  <2>2. item = [cache |-> "state", path |-> p, value |-> item.value]
    <3>1. item # SyncMarker
      BY <1>1, EntryType
    <3>2. item \in Item
      BY <3>1 DEF Entry
    <3> QED
      BY <1>7, <2>1, <3>2 DEF Item
  <2>3. /\ Tidy(Inserted(q[c], item), p)
        /\ \A w, V : leaf'["state"][p] \in V =>
             Will(Inserted(q[c], item), p, w, leaf'["state"][p], V)
    <3>1. CASE item.value = Current
      BY <1>1, <1>2, <2>2, <3>1, InsertPointer
    <3>2. CASE item.value = Absent
      <4>1. \A i \in DOMAIN q[c] : q[c][i].path = p => q[c][i].value # Current
        BY <1>1, <1>7, <2>1, <3>2 DEF Tidy
      <4>2. leaf'["state"][p] = Absent
        BY <1>7, <2>1, <3>2
      <4> QED
        BY <1>1, <1>2, <2>2, <3>2, <4>1, <4>2, InsertDeletion
    <3> QED
      BY <3>1, <3>2
  <2>4. Tidy(queue'[c], p)
    <3>1. CASE Reached(c, item) /\ ~closed[c]
      BY <1>3, <2>3, <3>1
    <3>2. CASE ~(Reached(c, item) /\ ~closed[c])
      BY <1>1, <1>3, <3>2
    <3> QED
      BY <3>1, <3>2
  <2>5. ASSUME Follows(c)', p \in matched'[c]
        PROVE  queue'[c] = Inserted(q[c], item)
    <3>1. Reached(c, item)
      BY <1>5, <1>7, <2>5 DEF Reached, Matches, Follows
    <3> QED
      BY <1>3, <1>5, <2>5, <3>1
  <2> QED
    BY <2>3, <2>4, <2>5 DEF Safe, Promise
<1> QED
  BY <1>6, <1>7

LEMMA QueueTypes == TypeOK => queue \in [Streams -> Seq(Entry)]
BY DEF TypeOK, Entry

LEMMA WriteKeepsSafe ==
  ASSUME LossInv, NEW k \in Caches, NEW r \in Paths, NEW v \in Values, WriteLeaf(k, r, v),
         NEW c \in Streams, NEW p \in OwnPaths
  PROVE  Safe(c, p)'
<1> DEFINE item == [cache |-> k, path |-> r, value |-> Current]
<1>1. queue \in [Streams -> Seq(Entry)]
  BY QueueTypes DEF LossInv, SubInv
<1>2. item \in Entry
  BY EntryType
<1>3. leaf'[k][r] = v /\ leaf' = [leaf EXCEPT ![k][r] = leaf'[k][r]] /\ v \in Leaf
  BY DEF WriteLeaf, LossInv, SubInv, TypeOK, Leaf
<1>4. item.path = r /\ item.cache = k /\ item.value = Current /\ Current # Absent
  BY SubscribeAssumption DEF Leaf
<1>5. Publish(queue, item) /\ r \in PathsOf(k)
  BY DEF WriteLeaf
<1>6. \A d \in Streams, s \in OwnPaths : Tidy(queue[d], s)
  BY DEF LossInv, Safe
<1>7. UNCHANGED <<callVars, sender, walker, todo, clientVars>>
  BY DEF WriteLeaf
<1>8. item.value \in {Current, Absent} /\ (item.value = Absent => leaf'[k][r] = Absent)
  BY <1>4
<1>9. \A d \in Streams, s \in OwnPaths : s # r =>
        \A w, u, V : Will(queue[d], s, w, u, V) => Will(queue[d], s, w, u, V)
  OBVIOUS
<1>10. item.value = Absent => \A d \in Streams : \A i \in DOMAIN queue[d] :
         queue[d][i].path = r /\ queue[d][i].cache = k => queue[d][i].value # Current
  BY <1>4
<1>11. leaf'[k][r] \in Leaf
  BY <1>3
<1> HIDE DEF item
<1> QED
  BY <1>1, <1>2, <1>3, <1>4, <1>5, <1>6, <1>7, <1>8, <1>9, <1>10, <1>11, PublishKeepsSafe

LEMMA DeleteKeepsSafe ==
  ASSUME LossInv, NEW k \in Caches, NEW r \in Paths, DeleteLeaf(k, r),
         NEW c \in Streams, NEW p \in OwnPaths
  PROVE  Safe(c, p)'
<1> DEFINE item == [cache |-> k, path |-> r, value |-> Absent]
           q == [d \in Streams |-> Detached(queue[d], k, r)]
<1>t. TypeOK
  BY DEF LossInv, SubInv
<1>1. \A d \in Streams : queue[d] \in Seq(Entry)
  BY <1>t, QueueTypes
<1>2. q \in [Streams -> Seq(Entry)]
  BY <1>1, <1>t, DetachedType
<1>3. item \in Entry
  BY EntryType DEF Leaf
<1>4. leaf'[k][r] = Absent /\ leaf' = [leaf EXCEPT ![k][r] = leaf'[k][r]] /\ Absent \in Leaf
  BY <1>t DEF DeleteLeaf, TypeOK, Leaf
<1>5. item.path = r /\ item.cache = k /\ item.value = Absent
  OBVIOUS
<1>6. Publish(q, item) /\ r \in PathsOf(k)
  BY DEF DeleteLeaf, LossInv, LeavesInCache
<1>7. \A d \in Streams, s \in OwnPaths :
        /\ Tidy(q[d], s)
        /\ s # r => \A w, v, V : Will(queue[d], s, w, v, V) => Will(q[d], s, w, v, V)
  <2> TAKE d \in Streams, s \in OwnPaths
  <2>1. Tidy(queue[d], s) /\ s \in Paths
    BY SubscribeAssumption DEF LossInv, Safe, OwnPaths
  <2> QED
    BY <1>1, <1>t, <2>1, DetachedTidy
<1>8. \A d \in Streams : \A i \in DOMAIN q[d] :
        q[d][i].path = r /\ q[d][i].cache = k => q[d][i].value # Current
  <2> TAKE d \in Streams
  <2>1. q[d] = Detached(queue[d], k, r) /\ DOMAIN q[d] = DOMAIN queue[d]
    BY <1>1, <1>t, DetachedType
  <2>2. \A i \in DOMAIN queue[d] :
          /\ Detached(queue[d], k, r)[i].path = queue[d][i].path
          /\ Detached(queue[d], k, r)[i].cache = queue[d][i].cache
          /\ queue[d][i].path = r /\ queue[d][i].cache = k =>
               Detached(queue[d], k, r)[i].value # Current
    BY <1>1, <1>t, DetachedQueue
  <2> HIDE DEF q
  <2> QED
    BY <2>1, <2>2
<1>9. UNCHANGED <<callVars, sender, walker, todo, clientVars>>
  BY DEF DeleteLeaf
<1>10. item.value \in {Current, Absent} /\ (item.value = Absent => leaf'[k][r] = Absent)
  BY <1>4, <1>5
<1>11. leaf'[k][r] \in Leaf
  BY <1>4
<1>12. \A d \in Streams, s \in OwnPaths : Tidy(q[d], s)
  BY <1>7
<1>13. \A d \in Streams, s \in OwnPaths : s # r =>
         \A w, v, V : Will(queue[d], s, w, v, V) => Will(q[d], s, w, v, V)
  BY <1>7
<1>14. item.value = Absent => \A d \in Streams : \A i \in DOMAIN q[d] :
         q[d][i].path = r /\ q[d][i].cache = k => q[d][i].value # Current
  BY <1>8
<1> HIDE DEF item, q
<1> QED
  BY <1>2, <1>3, <1>4, <1>5, <1>6, <1>9, <1>10, <1>11, <1>12, <1>13, <1>14,
     PublishKeepsSafe

LEMMA SubscribeKeepsSafe ==
  ASSUME LossInv, NEW d \in Streams, Subscribe(d), NEW c \in Streams, NEW p \in OwnPaths
  PROVE  Safe(c, p)'
<1> USE DEF cacheVars, queueVars, clientVars
<1>t. TypeOK /\ IdleUntouched
  BY DEF LossInv, SubInv
<1>s. Safe(c, p) /\ p \in Paths
  BY SubscribeAssumption DEF LossInv, OwnPaths
<1>h. handler[d] = "idle" /\ UNCHANGED <<view, leaf, request, connected, broken>>
  BY DEF Subscribe, Refuse, Accept, SubscribeOnce, SubscribePoll, SubscribeStream,
         SubscribeUnknown
<1>1. CASE c # d
  <2>1. /\ queue'[c] = queue[c] /\ matched'[c] = matched[c] /\ todo'[c] = todo[c]
        /\ handler'[c] = handler[c]
    BY <1>1, <1>t DEF TypeOK, Subscribe, Refuse, Accept, SubscribeOnce, SubscribePoll,
         SubscribeStream, SubscribeUnknown
  <2>2. Follows(c)' => Follows(c)
    BY <1>h, <2>1 DEF Follows
  <2> QED
    BY <1>h, <1>s, <2>1, <2>2, Untouching
<1>2. CASE c = d /\ ~SubscribeStream(d)
  <2>1. queue' = queue /\ matched' = matched /\ todo' = todo
    BY <1>2 DEF Subscribe, Refuse, SubscribeOnce, SubscribePoll, SubscribeUnknown
  <2>2. ~Follows(c)'
    BY <1>2, <1>h, <1>t DEF Follows, TypeOK, Subscribe, Refuse, Accept, SubscribeOnce,
         SubscribePoll, SubscribeUnknown
  <2> QED
    BY <1>s, <2>1, <2>2 DEF Safe, Promise
<1>3. CASE c = d /\ SubscribeStream(d)
  <2>1. queue[c] = <<>> /\ view[c][p] = Absent /\ todo[c] = {}
    BY <1>h, <1>3, <1>s, <1>t DEF IdleUntouched, Untouched
  <2>2. CASE request[c].updatesOnly
    <3>1. queue'[c] = Append(<<>>, SyncMarker)
      BY <1>3, <1>t, <2>1, <2>2 DEF SubscribeStream, Inserted, TypeOK
    <3>2. ~Follows(c)'
      BY <1>h, <2>2 DEF Follows
    <3>3. queue'[c] = <<SyncMarker>> /\ SyncMarker.path # p
      BY <1>s, <3>1, EntryType, SubscribeAssumption
    <3>4. Tidy(queue'[c], p)
      BY <3>3 DEF Tidy
    <3> QED
      BY <3>2, <3>4 DEF Safe, Promise
  <2>3. CASE ~request[c].updatesOnly
    <3>1. queue'[c] = <<>> /\ view'[c][p] = Absent
      BY <1>3, <1>h, <2>1, <2>3 DEF SubscribeStream
    <3>2. matched'[c] = request[c].paths /\ todo'[c] = Walked(request[c])
      BY <1>3, <1>t, <2>3 DEF SubscribeStream, TypeOK
    <3>3. p \in matched'[c] => p \in todo'[c]
      BY <1>s, <3>2 DEF Walked
    <3>4. Tidy(<<>>, p)
      BY DEF Tidy
    <3>5. \A v, V : Absent \in V => Will(<<>>, p, Absent, v, V)
      BY DEF Will
    <3> QED
      BY <3>1, <3>3, <3>4, <3>5 DEF Safe, Promise
  <2> QED
    BY <2>2, <2>3
<1> QED
  BY <1>1, <1>2, <1>3

LEMMA WalkKeepsSafe ==
  ASSUME LossInv, NEW d \in Streams, Walk(d), NEW c \in Streams, NEW p \in OwnPaths
  PROVE  Safe(c, p)'
<1> USE DEF cacheVars, callVars, clientVars
<1>t. TypeOK /\ queue \in [Streams -> Seq(Entry)]
  BY QueueTypes DEF LossInv, SubInv
<1>s. Safe(c, p) /\ p \in Paths /\ Tidy(queue[c], p) /\ queue[c] \in Seq(Entry)
  BY <1>t, SubscribeAssumption DEF LossInv, OwnPaths, Safe
<1>h. UNCHANGED <<view, leaf, request, connected, broken, handler, matched>>
  BY DEF Walk, WalkLeaf, WalkDone, WalkFails, CloseOnce
<1>f. Follows(c)' = Follows(c)
  BY <1>h DEF Follows
<1>1. CASE c # d
  <2>1. queue'[c] = queue[c] /\ todo'[c] = todo[c]
    BY <1>1, <1>t DEF TypeOK, Walk, WalkLeaf, WalkDone, WalkFails, CloseOnce
  <2> QED
    BY <1>f, <1>h, <1>s, <2>1, Untouching
<1>2. CASE c = d /\ (WalkFails(d) \/ CloseOnce(d))
  <2>1. queue' = queue /\ todo' = todo
    BY <1>2 DEF WalkFails, CloseOnce
  <2> QED
    BY <1>f, <1>h, <1>s, <2>1, Untouching
<1>3. CASE c = d /\ WalkDone(d)
  <2>1. queue'[c] = Inserted(queue[c], SyncMarker) /\ todo' = todo
    BY <1>3, <1>t DEF WalkDone
  <2>2. SyncMarker.path # p /\ SyncMarker \in Entry
    BY <1>s, EntryType, SubscribeAssumption
  <2>3. /\ Tidy(queue'[c], p)
        /\ \A w, v, V : Will(queue[c], p, w, v, V) => Will(queue'[c], p, w, v, V)
    BY <1>s, <2>1, <2>2, InsertOther
  <2> QED
    BY <1>f, <1>h, <1>s, <2>1, <2>3 DEF Safe, Promise
<1>4. ASSUME NEW r \in Paths, WalkLeaf(d, r), c = d
      PROVE  Safe(c, p)'
  <2> DEFINE item == [cache |-> "state", path |-> r, value |-> Current]
  <2>0. item \in Entry /\ item.path = r
    BY EntryType DEF Caches
  <2>1. /\ queue'[c] = IF leaf["state"][r] = Absent THEN queue[c] ELSE Inserted(queue[c], item)
        /\ todo'[c] = todo[c] \ {r}
    BY <1>4, <1>t DEF WalkLeaf, TypeOK
  <2> HIDE DEF item
  <2>2. CASE r # p
    <3>1. p \in todo'[c] <=> p \in todo[c]
      BY <2>1, <2>2
    <3>2. CASE leaf["state"][r] = Absent
      BY <1>f, <1>h, <1>s, <2>1, <3>1, <3>2, Untouching
    <3>3. CASE leaf["state"][r] # Absent
      <4>1. queue'[c] = Inserted(queue[c], item)
        BY <2>1, <3>3
      <4>2. /\ Tidy(queue'[c], p)
            /\ \A w, v, V : Will(queue[c], p, w, v, V) => Will(queue'[c], p, w, v, V)
        BY <1>s, <2>0, <2>2, <4>1, InsertOther
      <4> QED
        BY <1>f, <1>h, <1>s, <3>1, <4>2 DEF Safe, Promise
    <3> QED
      BY <3>2, <3>3
  <2>3. CASE r = p /\ leaf["state"][p] = Absent
    <3>1. queue'[c] = queue[c]
      BY <2>1, <2>3
    <3>2. {leaf["state"][p], Absent} = {leaf["state"][p]}
      BY <2>3
    <3> QED
      BY <1>f, <1>h, <1>s, <3>1, <3>2 DEF Safe, Promise
  <2>4. CASE r = p /\ leaf["state"][p] # Absent
    <3>1. queue'[c] = Inserted(queue[c], item)
      BY <2>1, <2>4
    <3>2. /\ Tidy(queue'[c], p)
          /\ \A w, v, V : v \in V => Will(queue'[c], p, w, v, V)
      BY <1>s, <2>4, <3>1, InsertPointer DEF item
    <3> QED
      BY <3>2 DEF Safe, Promise
  <2> QED
    BY <2>2, <2>3, <2>4
<1> QED
  BY <1>1, <1>2, <1>3, <1>4 DEF Walk

LEMMA SendKeepsSafe ==
  ASSUME LossInv, NEW d \in Streams, Send(d), NEW c \in Streams, NEW p \in OwnPaths
  PROVE  Safe(c, p)'
<1> USE DEF cacheVars, callVars, clientVars, queueVars
<1>t. TypeOK /\ queue \in [Streams -> Seq(Entry)]
  BY QueueTypes DEF LossInv, SubInv
<1>s. Safe(c, p) /\ p \in Paths /\ Tidy(queue[c], p) /\ queue[c] \in Seq(Entry)
  BY <1>t, SubscribeAssumption DEF LossInv, OwnPaths, Safe
<1>h. UNCHANGED <<leaf, request, connected, broken, handler, matched, todo>>
  BY DEF Send, SendSync, SendLeaf, SendFails, SenderStops
<1>f. Follows(c)' = Follows(c)
  BY <1>h DEF Follows
<1>1. CASE c # d \/ SenderStops(d)
  <2>1. queue'[c] = queue[c] /\ view'[c] = view[c]
    BY <1>1, <1>t DEF TypeOK, Send, SendSync, SendLeaf, SendFails, SenderStops
  <2> QED
    BY <1>f, <1>h, <1>s, <2>1, Untouching
<1>2. CASE c = d /\ SendSync(d)
  <2>1. /\ queue[c] # <<>> /\ queue'[c] = Tail(queue[c]) /\ view' = view
        /\ Head(queue[c]).path # p
    BY <1>2, <1>s, <1>t, EntryType, SubscribeAssumption DEF SendSync, Sending
  <2>2. /\ Tidy(queue'[c], p)
        /\ \A w, v, V : Will(queue[c], p, w, v, V) => Will(queue'[c], p, w, v, V)
    BY <1>s, <2>1, TailQueue
  <2> QED
    BY <1>f, <1>h, <1>s, <2>1, <2>2 DEF Safe, Promise
<1>3. CASE c = d /\ SendLeaf(d)
  <2>1. /\ queue[c] # <<>> /\ queue'[c] = Tail(queue[c])
        /\ view' = [view EXCEPT ![c][Head(queue[c]).path] = ValueOf(Head(queue[c]))]
    BY <1>3, <1>t DEF SendLeaf, Sending
  <2>2. Tidy(queue'[c], p)
    BY <1>s, <2>1, TailQueue
  <2>3. CASE Head(queue[c]).path # p
    <3>1. view'[c][p] = view[c][p]
      BY <1>t, <1>s, <2>1, <2>3 DEF TypeOK
    <3>2. \A w, v, V : Will(queue[c], p, w, v, V) => Will(queue'[c], p, w, v, V)
      BY <1>s, <2>1, <2>3, TailQueue
    <3> QED
      BY <1>f, <1>h, <1>s, <2>2, <3>1, <3>2 DEF Safe, Promise
  <2>4. CASE Head(queue[c]).path = p
    <3>1. 1 \in DOMAIN queue[c] /\ Head(queue[c]) = queue[c][1]
      BY <1>s, <2>1, EmptySeq
    <3>2. view'[c][p] =
            IF Head(queue[c]).value = Current THEN leaf["state"][p] ELSE Head(queue[c]).value
      BY <1>t, <1>s, <2>1, <2>4, <3>1 DEF TypeOK, ValueOf, Tidy
    <3>3. \A w, v, V : Will(queue[c], p, w, v, V) =>
            Will(queue'[c], p,
                 IF Head(queue[c]).value = Current THEN v ELSE Head(queue[c]).value, v, V)
      BY <1>s, <2>1, <2>4, TailQueue
    <3> QED
      BY <1>f, <1>h, <1>s, <2>2, <3>2, <3>3 DEF Safe, Promise
  <2> QED
    BY <2>3, <2>4
<1>4. CASE c = d /\ SendFails(d)
  <2>1. queue[c] # <<>> /\ queue'[c] = Tail(queue[c]) /\ ~connected[c]
    BY <1>4, <1>t DEF SendFails, Sending
  <2>2. Tidy(queue'[c], p)
    BY <1>s, <2>1, TailQueue
  <2>3. ~Follows(c)'
    BY <1>h, <2>1 DEF Follows
  <2> QED
    BY <2>2, <2>3 DEF Safe, Promise
<1> QED
  BY <1>1, <1>2, <1>3, <1>4 DEF Send

-----------------------------------------------------------------------------
LEMMA CacheStep == LossInv /\ [Next]_vars => LeavesInCache'
<1> SUFFICES ASSUME LossInv, [Next]_vars
             PROVE  LeavesInCache'
  OBVIOUS
<1>t. TypeOK /\ LeavesInCache
  BY DEF LossInv, SubInv
<1>1. ASSUME NEW k \in Caches, NEW p \in Paths, NEW v \in Values, WriteLeaf(k, p, v)
      PROVE  LeavesInCache'
  BY <1>1, <1>t DEF WriteLeaf, LeavesInCache, TypeOK
<1>2. ASSUME NEW k \in Caches, NEW p \in Paths, DeleteLeaf(k, p)
      PROVE  LeavesInCache'
  BY <1>2, <1>t DEF DeleteLeaf, LeavesInCache, TypeOK
<1>3. ASSUME UNCHANGED leaf
      PROVE  LeavesInCache'
  BY <1>3, <1>t DEF LeavesInCache
<1>4. ASSUME NEW c \in Streams, Subscribe(c) \/ Disconnect(c) \/ Walk(c) \/ Send(c)
      PROVE  UNCHANGED leaf
  BY <1>4 DEF cacheVars, Subscribe, Refuse, SubscribeOnce, SubscribePoll, SubscribeStream,
              SubscribeUnknown, Disconnect, Walk, WalkLeaf, WalkDone, WalkFails, CloseOnce,
              Send, SendSync, SendLeaf, SendFails, SenderStops
<1> QED
  BY <1>1, <1>2, <1>3, <1>4 DEF Next, vars, cacheVars

LEMMA LossStep == LossInv /\ [Next]_vars => LossInv'
<1> SUFFICES ASSUME LossInv, [Next]_vars
             PROVE  LossInv'
  OBVIOUS
<1>1. SubInv'
  BY SubInvStep DEF LossInv
<1>2. LeavesInCache'
  BY CacheStep
<1>3. ASSUME NEW c \in Streams, NEW p \in OwnPaths
      PROVE  Safe(c, p)'
  <2>s. Safe(c, p)
    BY DEF LossInv
  <2>1. ASSUME NEW k \in Caches, NEW r \in Paths, DeleteLeaf(k, r)
        PROVE  Safe(c, p)'
    BY <2>1, DeleteKeepsSafe
  <2>2. ASSUME NEW k \in Caches, NEW r \in Paths, NEW v \in Values, WriteLeaf(k, r, v)
        PROVE  Safe(c, p)'
    BY <2>2, WriteKeepsSafe
  <2>3. ASSUME NEW d \in Streams, Subscribe(d)
        PROVE  Safe(c, p)'
    BY <2>3, SubscribeKeepsSafe
  <2>4. ASSUME NEW d \in Streams, Disconnect(d)
        PROVE  Safe(c, p)'
    <3>1. Follows(c)' => Follows(c)
      BY <2>4 DEF Disconnect, Follows, LossInv, SubInv, TypeOK, queueVars
    <3> QED
      BY <2>4, <2>s, <3>1, Untouching DEF Disconnect, cacheVars, queueVars, clientVars
  <2>5. ASSUME NEW d \in Streams, Walk(d)
        PROVE  Safe(c, p)'
    BY <2>5, WalkKeepsSafe
  <2>6. ASSUME NEW d \in Streams, Send(d)
        PROVE  Safe(c, p)'
    BY <2>6, SendKeepsSafe
  <2>7. CASE UNCHANGED vars
    <3>1. Follows(c)' => Follows(c)
      BY <2>7 DEF vars, callVars, queueVars, Follows
    <3> QED
      BY <2>7, <2>s, <3>1, Untouching DEF vars, cacheVars, callVars, queueVars, clientVars
  <2> QED
    BY <2>1, <2>2, <2>3, <2>4, <2>5, <2>6, <2>7 DEF Next
<1> QED
  BY <1>1, <1>2, <1>3 DEF LossInv

(***************************************************************************)
(* No change of a leaf that only the state cache has is lost to a stream,  *)
(* however the walk, the events and the sender interleave.                 *)
(***************************************************************************)
THEOREM NothingLostCorrect == Spec => []NothingLost
BY LossInitial, LossStep, LossIsNothingLost, PTL DEF Spec
=============================================================================
