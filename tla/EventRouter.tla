---------------------------- MODULE EventRouter -----------------------------
(***************************************************************************)
(* The host-side event router (host_kits/events/pi_event_router.c).        *)
(*                                                                         *)
(* Any thread may publish; the host's main thread pumps, subscribes,       *)
(* unsubscribes, drops owners and resizes the queue, from its own loop or  *)
(* from inside a subscription callback that a pump is running.  Each       *)
(* stretch of code between an acquire and the next release of the router's *)
(* lock is one atomic step.  A pump is a frame on the main thread's stack: *)
(* a callback may call pump again, so frames nest (up to MaxDepth).        *)
(***************************************************************************)
EXTENDS Integers, Sequences, FiniteSets

CONSTANTS
  Topics,             \* topic names
  Owners,             \* owner tokens of plugins
  NoOwner,            \* the NULL owner: the host itself
  NoEvent,            \* an empty slot of the ring
  DefaultCapacity,    \* PI_PLUGIN_EVENT_ROUTER_DEFAULT_CAPACITY
  Capacities,         \* the arguments the host gives set_capacity
  HandleSpace,        \* number of values of a handle (2^32 in the code)
  OutOfMemory,        \* whether an allocation may fail
  ResizeInCallback,   \* whether set_capacity is called while a pump runs
  MaxDepth,           \* bound on nested pumps
  MaxPublished,       \* bound on publish() calls
  MaxSubscribes       \* bound on subscribe() calls

ASSUME RouterConstants ==
  /\ DefaultCapacity \in Nat \ {0}
  /\ Capacities \subseteq Nat
  /\ HandleSpace \in Nat /\ HandleSpace > 1
  /\ OutOfMemory \in BOOLEAN
  /\ ResizeInCallback \in BOOLEAN
  /\ MaxDepth \in Nat \ {0}
  /\ MaxPublished \in Nat
  /\ MaxSubscribes \in Nat
  /\ NoOwner \notin Owners

ASSUME NoEventIsNoEvent == NoEvent \notin [id : 1 .. MaxPublished, topic : Topics]

VARIABLES
  ring,               \* the queue's slots
  capacity,           \* number of slots
  head,               \* index of the oldest queued event
  queued,             \* number of queued events
  made,               \* contents of every subscription ever made
  subs,               \* the ones in the table, as indices into made; the
                      \* table is kept in the order they were made
  next_handle,        \* the last handle given out
  frames,             \* pumps in progress on the main thread, innermost last
  published,          \* stats: publish() calls accepted
  delivered,          \* stats: callbacks invoked
  dropped_full,       \* stats: events dropped
  subscriptions_dropped, \* stats: subscriptions removed by drop_owner()
  inside,             \* history: events published from a callback of the
                      \* running pump(s)
  received,           \* history: <<subscription, event>> of every callback
  dead,               \* history: subscriptions cancelled or orphaned
  handed              \* history: taken events whose callbacks have all run

queueVars == <<ring, capacity, head, queued>>
subVars   == <<made, subs, next_handle, dead>>
statVars  == <<published, delivered, dropped_full, subscriptions_dropped>>
vars == <<queueVars, subVars, frames, statVars, inside, received, handed>>

Event == [id : 1 .. MaxPublished, topic : Topics]

Subscription == [handle : Nat, topic : Topics, owner : Owners \cup {NoOwner}]

\* batch    events this pump may still take
\* event    the event it is handing out, with the subscriptions still to call
\* calling  the subscription whose callback is running (0: none)
\* known    how many subscriptions had ever been made when the pump started
\* snap     the same, when the event was taken
Frame ==
  [batch : Nat, phase : {"take", "call", "in"}, event : Event \cup {NoEvent},
   matches : SUBSET Nat, calling : Nat, delivered : Nat, skipped : BOOLEAN,
   known : Nat, snap : Nat]

TypeOK ==
  /\ capacity \in Nat \ {0}
  /\ ring \in [0 .. capacity - 1 -> Event \cup {NoEvent}]
  /\ head \in 0 .. capacity - 1
  /\ queued \in 0 .. capacity
  /\ made \in Seq(Subscription)
  /\ subs \subseteq DOMAIN made
  /\ dead \subseteq DOMAIN made
  /\ next_handle \in 0 .. HandleSpace - 1
  /\ frames \in Seq(Frame)
  /\ published \in 0 .. MaxPublished
  /\ delivered \in Nat
  /\ dropped_full \in Nat
  /\ subscriptions_dropped \in Nat
  /\ inside \subseteq Nat
  /\ received \subseteq Nat \X Nat
  /\ handed \in Nat

Init ==
  /\ capacity = DefaultCapacity
  /\ ring = [i \in 0 .. DefaultCapacity - 1 |-> NoEvent]
  /\ head = 0
  /\ queued = 0
  /\ made = <<>>
  /\ subs = {}
  /\ dead = {}
  /\ next_handle = 0
  /\ frames = <<>>
  /\ published = 0
  /\ delivered = 0
  /\ dropped_full = 0
  /\ subscriptions_dropped = 0
  /\ inside = {}
  /\ received = {}
  /\ handed = 0

-----------------------------------------------------------------------------
(* The ring                                                                *)

\* The slot k places after the oldest event.
SlotAt(k) == (head + k) % capacity

\* Where the oldest event will be once this one is taken.
NextHeadUnwrapped == head + 1
NextHead == (head + 1) % capacity

\* The queued events, oldest first.
Waiting == [k \in 1 .. queued |-> ring[SlotAt(k - 1)]]

\* The counter once n more events are dropped.
DroppedNotCounted(n) == dropped_full
Dropped(n) == dropped_full + n

-----------------------------------------------------------------------------
(* The main thread's stack                                                 *)

Top == frames[Len(frames)]

\* The innermost pump goes on as frame f.
SetTop(f) == frames' = [frames EXCEPT ![Len(frames)] = f]

Idle == frames = <<>>
InCallback == ~Idle /\ Top.phase = "in"

\* Host or plugin code, and not the pump, is running on the main thread.
MainThreadFree == Idle \/ InCallback

-----------------------------------------------------------------------------
(* publish(): from any thread                                              *)

\* The event takes the first free slot, or is dropped (full queue, or the
\* deep copy failed) and the drop counted.  Both return PI_OK.
Router_Publish(topic) ==
  /\ published < MaxPublished
  /\ published' = published + 1
  /\ \/ /\ queued < capacity
        /\ ring' = [ring EXCEPT ![SlotAt(queued)] =
                      [id |-> published + 1, topic |-> topic]]
        /\ queued' = queued + 1
        /\ UNCHANGED dropped_full
     \/ /\ queued >= capacity \/ OutOfMemory
        /\ dropped_full' = Dropped(1)
        /\ UNCHANGED <<ring, queued>>
  /\ UNCHANGED <<capacity, head, subVars, frames, delivered,
                 subscriptions_dropped, received, handed>>

WorkerPublish(topic) ==
  /\ Router_Publish(topic)
  /\ UNCHANGED inside

MainPublish(topic) ==
  /\ MainThreadFree
  /\ Router_Publish(topic)
  /\ inside' = IF InCallback THEN inside \cup {published + 1} ELSE inside

-----------------------------------------------------------------------------
(* subscribe(), unsubscribe(), drop_owner(): main thread                   *)

FindEverMade(handle) == {s \in DOMAIN made : made[s].handle = handle}
FindSubscription(handle) == {s \in subs : made[s].handle = handle}

\* s comes first in the table among S: the one a loop over the table meets.
Oldest(s, S) == s \in S /\ \A t \in S : s <= t

\* ++next_handle in HandleSpace values, skipping the invalid handle 0.
NextHandleNoSkip == (next_handle + 1) % HandleSpace
NextHandle ==
  LET h == (next_handle + 1) % HandleSpace
  IN  IF h = 0 THEN 1 ELSE h

\* A failed allocation leaves the table as it was, so it is no step.
Router_Subscribe(topic, owner) ==
  /\ MainThreadFree
  /\ Len(made) < MaxSubscribes
  /\ made' = Append(made, [handle |-> NextHandle, topic |-> topic,
                           owner |-> owner])
  /\ subs' = subs \cup {Len(made) + 1}
  /\ next_handle' = NextHandle
  /\ UNCHANGED <<queueVars, dead, frames, statVars, inside, received, handed>>

\* The holder of subscription s gives its handle back.
Router_Unsubscribe(s) ==
  /\ MainThreadFree
  /\ s \notin dead
  /\ \E found \in FindSubscription(made[s].handle) :
       /\ Oldest(found, FindSubscription(made[s].handle))
       /\ subs' = subs \ {found}
  /\ dead' = dead \cup {s}
  /\ UNCHANGED <<queueVars, made, next_handle, frames, statVars, inside,
                 received, handed>>

OwnedBy(owner) == {s \in subs : made[s].owner = owner}

Router_DropOwner(owner) ==
  /\ MainThreadFree
  /\ OwnedBy(owner) # {}
  /\ subs' = subs \ OwnedBy(owner)
  /\ dead' = dead \cup {s \in DOMAIN made : made[s].owner = owner}
  /\ subscriptions_dropped' = subscriptions_dropped + Cardinality(OwnedBy(owner))
  /\ UNCHANGED <<queueVars, made, next_handle, frames, published, delivered,
                 dropped_full, inside, received, handed>>

-----------------------------------------------------------------------------
(* set_capacity(): main thread                                             *)

\* What slot i of the new ring holds when the oldest `discard` events are lost.
SurvivorReversed(discard, i) == ring[SlotAt(queued - 1 - i)]
SurvivorOldest(discard, i) == ring[SlotAt(i)]
Survivor(discard, i) == ring[SlotAt(discard + i)]

\* The newest events that fit move to a new ring that starts at 0; the older
\* ones are freed and counted.  A failed allocation changes nothing.
SetCapacity(requested) ==
  LET size    == IF requested = 0 THEN DefaultCapacity ELSE requested
      keep    == IF queued < size THEN queued ELSE size
      discard == queued - keep
  IN  /\ Idle \/ (ResizeInCallback /\ InCallback)
      /\ size # capacity
      /\ ring' = [i \in 0 .. size - 1 |->
                    IF i < keep THEN Survivor(discard, i) ELSE NoEvent]
      /\ capacity' = size
      /\ head' = 0
      /\ queued' = keep
      /\ dropped_full' = Dropped(discard)
      /\ UNCHANGED <<subVars, frames, published, delivered,
                     subscriptions_dropped, inside, received, handed>>

-----------------------------------------------------------------------------
(* pump(): main thread                                                     *)

\* Events published from now on wait for a later pump.
BatchUnbounded == MaxPublished
BatchShort == IF queued > 1 THEN queued - 1 ELSE 0
Batch == queued

BeginPump ==
  /\ MainThreadFree
  /\ Len(frames) < MaxDepth
  /\ frames' = Append(frames,
       [batch |-> Batch, phase |-> "take", event |-> NoEvent, matches |-> {},
        calling |-> 0, delivered |-> 0, skipped |-> FALSE,
        known |-> Len(made), snap |-> 0])
  /\ UNCHANGED <<queueVars, subVars, statVars, inside, received, handed>>

MatchingButOldest(topic) ==
  LET S == {s \in subs : made[s].topic = topic}
  IN  {s \in S : ~Oldest(s, S)}
Matching(topic) == {s \in subs : made[s].topic = topic}

\* Under one hold of the lock: dequeue the oldest event and copy the matching
\* subscriptions, or, out of memory, give the event up.
TakeEvent ==
  /\ ~Idle
  /\ Top.phase = "take"
  /\ Top.batch > 0
  /\ queued > 0
  /\ LET event == ring[head]
         taken == [Top EXCEPT !.batch = @ - 1, !.phase = "call",
                              !.event = event, !.snap = Len(made)]
     IN  \/ SetTop([taken EXCEPT !.matches = Matching(event.topic)])
         \/ /\ OutOfMemory
            /\ subs # {}
            /\ SetTop([taken EXCEPT !.skipped = TRUE])
  /\ ring' = [ring EXCEPT ![head] = NoEvent]
  /\ head' = NextHead
  /\ queued' = queued - 1
  /\ UNCHANGED <<capacity, subVars, statVars, inside, received, handed>>

\* The matches still to serve once s has been.
NeverServed(s) == Top.matches
Unserved(s) == Top.matches \ {s}

\* Look the next match up again by its handle; call it if it is still there.
CallNext ==
  /\ ~Idle
  /\ Top.phase = "call"
  /\ \E s \in Top.matches :
       LET rest == [Top EXCEPT !.matches = Unserved(s)]
       IN  /\ Oldest(s, Top.matches)
           /\ \/ /\ FindSubscription(made[s].handle) # {}
                 /\ SetTop([rest EXCEPT !.phase = "in", !.calling = s])
                 /\ received' = received \cup {<<s, Top.event.id>>}
              \/ /\ FindSubscription(made[s].handle) = {}
                 /\ SetTop(rest)
                 /\ UNCHANGED received
  /\ UNCHANGED <<queueVars, subVars, statVars, inside, handed>>

\* The callback returns to the pump.
CallbackReturns ==
  /\ InCallback
  /\ SetTop([Top EXCEPT !.phase = "call", !.calling = 0, !.delivered = @ + 1])
  /\ UNCHANGED <<queueVars, subVars, statVars, inside, received, handed>>

\* The event's copies are freed; an event given up is counted as dropped.
FinishEvent ==
  /\ ~Idle
  /\ Top.phase = "call"
  /\ Top.matches = {}
  /\ SetTop([Top EXCEPT !.phase = "take", !.event = NoEvent,
                        !.skipped = FALSE, !.snap = 0])
  /\ \/ /\ Top.skipped
        /\ dropped_full' = Dropped(1)
        /\ UNCHANGED handed
     \/ /\ ~Top.skipped
        /\ handed' = handed + 1
        /\ UNCHANGED dropped_full
  /\ UNCHANGED <<queueVars, subVars, published, delivered,
                 subscriptions_dropped, inside, received>>

\* The pump's callbacks are added to the total.
Delivered(n) == delivered + n

\* The batch is done, or the queue ran empty under it.
EndPump ==
  /\ ~Idle
  /\ Top.phase = "take"
  /\ Top.batch = 0 \/ queued = 0
  /\ delivered' = Delivered(Top.delivered)
  /\ frames' = SubSeq(frames, 1, Len(frames) - 1)
  /\ inside' = IF Len(frames) = 1 THEN {} ELSE inside
  /\ UNCHANGED <<queueVars, subVars, published, dropped_full,
                 subscriptions_dropped, received, handed>>

-----------------------------------------------------------------------------
PumpStep ==
  \/ TakeEvent
  \/ CallNext
  \/ CallbackReturns
  \/ FinishEvent
  \/ EndPump

Next ==
  \/ \E topic \in Topics : WorkerPublish(topic)
  \/ \E topic \in Topics : MainPublish(topic)
  \/ \E topic \in Topics, owner \in Owners \cup {NoOwner} :
       Router_Subscribe(topic, owner)
  \/ \E s \in DOMAIN made : Router_Unsubscribe(s)
  \/ \E owner \in Owners : Router_DropOwner(owner)
  \/ \E requested \in Capacities : SetCapacity(requested)
  \/ BeginPump
  \/ PumpStep

Spec == Init /\ [][Next]_vars

\* The host calls pump once per iteration of its loop, and callbacks return.
FairSpec ==
  /\ Spec
  /\ WF_vars(Idle /\ BeginPump)
  /\ WF_vars(PumpStep)

-----------------------------------------------------------------------------
(* Properties                                                              *)

\* A slot of the ring holds an event exactly when it lies in the window of
\* `queued` slots from `head` (so destroying the router frees every event once,
\* and no pump takes an empty slot), and events wait in the order they were
\* published, whatever publishes, pumps and resizes came before.
RingWellFormed ==
  /\ \A i \in 0 .. capacity - 1 :
       ring[i] # NoEvent <=> (i - head) % capacity < queued
  /\ \A j, k \in 1 .. queued : j < k => Waiting[j].id < Waiting[k].id

\* Events held by a pump: every frame but the innermost is inside a callback.
InFlight ==
  IF Idle THEN 0
  ELSE IF Top.phase = "take" THEN Len(frames) - 1 ELSE Len(frames)

\* "Events may be dropped" is acceptable only if drops are observable: at every
\* moment each published event is queued, held by a pump, handed to all of its
\* subscribers, or counted in dropped_full.
Accounted ==
  published = queued + InFlight + handed + dropped_full

\* No live subscription has the invalid handle, and two live ones share a handle
\* only if the whole space of handles was given out in between, so unsubscribe
\* and the pump's second look-up hit the entry they mean.
HandlesUnique ==
  \A s, t \in subs :
    /\ made[s].handle # 0
    /\ s < t /\ made[s].handle = made[t].handle => t - s >= HandleSpace - 1

\* While a pump hands out an event, each subscription that existed when the pump
\* started, wants the event's topic and has not left is either already called or
\* still to be called, and no subscription is both: everyone gets it exactly
\* once, although callbacks add to and compact the table meanwhile.  An event the
\* pump gave up for want of memory, and will count as dropped, goes to nobody.
ExactlyOnce ==
  \A i \in DOMAIN frames :
    LET f      == frames[i]
        called == {s \in 1 .. f.snap : <<s, f.event.id>> \in received}
    IN  f.phase # "take" =>
          /\ called \cap f.matches = {}
          /\ f.skipped => called \cup f.matches = {}
          /\ ~f.skipped =>
               \A s \in 1 .. f.known :
                 s \notin dead /\ made[s].topic = f.event.topic =>
                   s \in called \cup f.matches

\* A callback starts: the innermost pump goes from looking up to calling.
CallStarts == ~Idle /\ Top.phase = "call" /\ frames' # frames /\ Top'.phase = "in"

\* No callback of a subscription that was cancelled, or whose owner was dropped,
\* is ever started again: not even by the pump in whose callback it left.
NoCallAfterLeave == [][CallStarts => Top'.calling \notin dead]_vars

\* A subscription's callback never sees an event twice, and sees events in the
\* order they were published (queue order survives resizes and full queues).
OnceInOrder ==
  [][CallStarts => \A p \in received : p[1] = Top'.calling => p[2] < Top.event.id]_vars

\* The reentrancy rule: a pump never delivers an event that was published from
\* inside one of its own callbacks.
ReentrancyRule == InCallback => Top.event.id \notin inside

\* A pump delivers only to the subscriptions that existed when it started, as
\* the header promises; the code looks the subscriptions up event by event, so
\* one that a callback makes gets the rest of the batch.
\* (The code does not keep it: README.md, section 3.)
PumpStartSubscribers == InCallback => Top.calling <= Top.known

\* Under a host loop that keeps pumping, a subscriber of a queued event gets it
\* unless the subscriber leaves first (nothing resizes the queue or runs out of
\* memory meanwhile), or the counter of handles has come round to its handle: then
\* whoever cancels the other subscription takes this one out of the table.
Shared(s) == s \in DOMAIN made /\ FindEverMade(made[s].handle) # {s}
EventReachesSubscriber ==
  \A s \in 1 .. MaxSubscribes, k \in 1 .. MaxPublished :
    (s \in subs /\ \E i \in 1 .. queued : Waiting[i].id = k /\ Waiting[i].topic = made[s].topic)
      ~> (<<s, k>> \in received \/ s \in dead \/ Shared(s))

\* The router implements a bounded queue that never loses an event silently.
Queue == INSTANCE EventQueue WITH
           pending <- Waiting, bound <- capacity,
           lost <- dropped_full, inflight <- InFlight,
           Bound <- {DefaultCapacity} \cup (Capacities \ {0})
ImplementsQueue == Queue!Init /\ [][Queue!Next]_(Queue!qvars)
=============================================================================
