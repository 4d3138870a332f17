------------------------- MODULE EventRouterProofs --------------------------
(***************************************************************************)
(* What is true of the event router whatever the topics, owners,           *)
(* capacities and bounds: its type invariant and the accounting of every   *)
(* published event; that it implements EventQueue; that subscriptions do   *)
(* not clash and nobody is called after leaving; that every other          *)
(* subscription is called exactly once, and, while no callback pumps, in   *)
(* order and never with what the pump's own callbacks published.           *)
(***************************************************************************)
EXTENDS EventRouter, TLAPS, FiniteSetTheorems, SequenceTheorems

-----------------------------------------------------------------------------
(* Arithmetic of the ring and of the stack                                 *)

\* The remainder of a number below twice the capacity: the ring wraps once.
LEMMA WrapOnce ==
  ASSUME NEW c \in Nat \ {0}, NEW x \in Nat, x < c + c
  PROVE  x % c = IF x < c THEN x ELSE x - c
  OBVIOUS

\* The remainder of a difference of two slots: the ring wraps back once.
LEMMA WrapBack ==
  ASSUME NEW c \in Nat \ {0}, NEW i \in 0 .. c - 1, NEW h \in 0 .. c - 1
  PROVE  (i - h) % c = IF h <= i THEN i - h ELSE i - h + c
  OBVIOUS

\* The innermost pump of a busy main thread is a frame.
LEMMA TopType ==
  ASSUME frames \in Seq(Frame), ~Idle
  PROVE  /\ Top \in Frame
         /\ Len(frames) \in Nat \ {0}
<1>1. frames # <<>>
  BY DEF Idle
<1>2. Len(frames) \in Nat \ {0}
  BY <1>1, EmptySeq, LenProperties
<1> QED
  BY <1>2, ElementOfSeq DEF Top

\* Replacing the innermost frame leaves the others, and their number, alone.
LEMMA SetTopType ==
  ASSUME frames \in Seq(Frame), frames # <<>>, NEW f \in Frame, SetTop(f)
  PROVE  /\ frames' \in Seq(Frame)
         /\ Len(frames') = Len(frames)
         /\ frames'[Len(frames)] = f
         /\ \A i \in 1 .. Len(frames) - 1 : frames'[i] = frames[i]
  BY DEF SetTop

\* Popping the innermost frame leaves the others alone.
LEMMA PopType ==
  ASSUME frames \in Seq(Frame), frames # <<>>
  PROVE  /\ SubSeq(frames, 1, Len(frames) - 1) \in Seq(Frame)
         /\ Len(SubSeq(frames, 1, Len(frames) - 1)) = Len(frames) - 1
         /\ \A i \in 1 .. Len(frames) - 1 :
              SubSeq(frames, 1, Len(frames) - 1)[i] = frames[i]
<1> DEFINE n == Len(frames) - 1
<1>1. n \in Nat
  BY EmptySeq, LenProperties
<1>2. \A i \in 1 .. n : frames[i] \in Frame
  BY <1>1, ElementOfSeq
<1> HIDE DEF n
<1>3. /\ SubSeq(frames, 1, n) \in Seq(Frame)
      /\ Len(SubSeq(frames, 1, n)) = IF 1 <= n THEN n - 1 + 1 ELSE 0
      /\ \A i \in 1 .. n - 1 + 1 : SubSeq(frames, 1, n)[i] = frames[1 + i - 1]
  <2>1. 1 \in Int /\ n \in Int
    BY <1>1
  <2> QED
    BY <1>2, <2>1, SubSeqProperties
<1>4. Len(SubSeq(frames, 1, n)) = n
  BY <1>1, <1>3
<1>5. \A i \in 1 .. n : SubSeq(frames, 1, n)[i] = frames[i]
  <2>1. \A i \in 1 .. n : 1 + i - 1 = i /\ i \in 1 .. n - 1 + 1
    BY <1>1
  <2> QED
    BY <1>3, <2>1
<1> QED
  BY <1>3, <1>4, <1>5 DEF n

\* Every slot reached from the head lies in the ring.
LEMMA SlotType ==
  ASSUME capacity \in Nat \ {0}, head \in 0 .. capacity - 1, NEW k \in 0 .. capacity
  PROVE  /\ SlotAt(k) \in 0 .. capacity - 1
         /\ SlotAt(k) = IF head + k < capacity THEN head + k
                                               ELSE head + k - capacity
<1> DEFINE x == head + k
<1>1. x \in Nat /\ x < capacity + capacity
  OBVIOUS
<1> HIDE DEF x
<1>2. x % capacity = IF x < capacity THEN x ELSE x - capacity
  BY <1>1, WrapOnce
<1>3. x % capacity \in 0 .. capacity - 1
  BY <1>1, <1>2
<1> QED
  BY <1>2, <1>3 DEF SlotAt, x

\* Counting the subscriptions of an owner gives a number.
LEMMA OwnedType ==
  ASSUME TypeOK, NEW owner
  PROVE  Cardinality(OwnedBy(owner)) \in Nat
<1>1. OwnedBy(owner) \subseteq 1 .. Len(made) /\ Len(made) \in Nat
  BY LenProperties DEF TypeOK, OwnedBy
<1>2. IsFiniteSet(1 .. Len(made))
  BY <1>1, FS_Interval
<1>3. IsFiniteSet(OwnedBy(owner))
  BY <1>1, <1>2, FS_Subset
<1> QED
  BY <1>3, FS_CardinalityType

-----------------------------------------------------------------------------
(* The inductive invariant.  TypeOK alone is not inductive: a callback is  *)
(* recorded with the identity of the event its pump holds, which is an     *)
(* event only because the slot a pump takes from is never empty; and the   *)
(* accounting of events in flight relies on every pump but the innermost   *)
(* being inside a callback.                                                *)

\* A pump past its "take" phase holds an event; outer pumps run a callback.
FramesShape ==
  \A i \in 1 .. Len(frames) :
    /\ frames[i].phase # "take" => frames[i].event \in Event
    /\ i < Len(frames) => frames[i].phase = "in"

\* How many places after the oldest event slot i lies.
Place(i) == (i - head) % capacity

\* The slots of the window, and no others, are taken, in publication order.
RingInv ==
  /\ \A i \in 0 .. capacity - 1 : ring[i] # NoEvent <=> Place(i) < queued
  /\ \A k \in 1 .. queued : Waiting[k].id <= published
  /\ \A j, k \in 1 .. queued : j < k => Waiting[j].id < Waiting[k].id

IInv == TypeOK /\ FramesShape /\ RingInv /\ Accounted

\* A slot is as far from the head as SlotAt says, and within the ring.
LEMMA PlaceOfSlot ==
  ASSUME capacity \in Nat \ {0}, head \in 0 .. capacity - 1,
         NEW k \in 0 .. capacity - 1
  PROVE  Place(SlotAt(k)) = k
<1>1. /\ SlotAt(k) \in 0 .. capacity - 1
      /\ SlotAt(k) = IF head + k < capacity THEN head + k
                                            ELSE head + k - capacity
  BY SlotType
<1> DEFINE i == SlotAt(k)
<1> HIDE DEF i
<1>2. i \in 0 .. capacity - 1
  BY <1>1 DEF i
<1>3. (i - head) % capacity = IF head <= i THEN i - head ELSE i - head + capacity
  BY <1>2, WrapBack
<1> QED
  BY <1>1, <1>2, <1>3 DEF Place, i

\* Conversely each slot is found at its place, and places are below capacity.
LEMMA SlotOfPlace ==
  ASSUME capacity \in Nat \ {0}, head \in 0 .. capacity - 1,
         NEW i \in 0 .. capacity - 1
  PROVE  /\ Place(i) \in 0 .. capacity - 1
         /\ SlotAt(Place(i)) = i
<1>1. Place(i) = IF head <= i THEN i - head ELSE i - head + capacity
  BY WrapBack DEF Place
<1>2. Place(i) \in 0 .. capacity - 1
  BY <1>1
<1>3. SlotAt(Place(i)) = IF head + Place(i) < capacity THEN head + Place(i)
                                             ELSE head + Place(i) - capacity
  BY <1>2, SlotType
<1> QED
  BY <1>1, <1>2, <1>3

\* Each waiting event is an event, held in a slot of the window.
LEMMA WaitingType ==
  ASSUME TypeOK, RingInv, NEW k \in 1 .. queued
  PROVE  /\ Waiting[k] = ring[SlotAt(k - 1)]
         /\ Waiting[k] \in Event
<1>1. k - 1 \in 0 .. capacity - 1 /\ k - 1 < queued
  BY DEF TypeOK
<1>2. SlotAt(k - 1) \in 0 .. capacity - 1 /\ Place(SlotAt(k - 1)) = k - 1
  BY <1>1, SlotType, PlaceOfSlot DEF TypeOK
<1>3. ring[SlotAt(k - 1)] # NoEvent
  BY <1>1, <1>2 DEF RingInv
<1>4. ring[SlotAt(k - 1)] \in Event
  BY <1>2, <1>3 DEF TypeOK
<1> QED
  BY <1>4 DEF Waiting

\* The slot a pump takes from holds the oldest waiting event.
LEMMA HeadIsOldest ==
  ASSUME TypeOK, RingInv, queued > 0
  PROVE  ring[head] = Waiting[1] /\ ring[head] \in Event
<1>1. SlotAt(0) = head
  BY SlotType DEF TypeOK
<1>2. 1 \in 1 .. queued
  BY DEF TypeOK
<1> QED
  BY <1>1, <1>2, WaitingType

-----------------------------------------------------------------------------
(* Type correctness                                                        *)

LEMMA PublishType ==
  ASSUME RouterConstants, TypeOK, NEW topic \in Topics, Router_Publish(topic),
         inside' \in {inside, inside \cup {published + 1}}
  PROVE  TypeOK'
<1>1. /\ published \in 0 .. MaxPublished /\ MaxPublished \in Nat
      /\ published < MaxPublished
      /\ dropped_full \in Nat /\ inside \subseteq Nat
      /\ queued \in 0 .. capacity /\ capacity \in Nat
      /\ ring \in [0 .. capacity - 1 -> Event \cup {NoEvent}]
  BY DEF TypeOK, RouterConstants, Router_Publish
<1>2. inside' \subseteq Nat
  BY <1>1
<1>3. published' \in 0 .. MaxPublished
  BY <1>1 DEF Router_Publish
<1>4. /\ ring' \in [0 .. capacity - 1 -> Event \cup {NoEvent}]
      /\ queued' \in 0 .. capacity
      /\ dropped_full' \in Nat
  <2>1. [id |-> published + 1, topic |-> topic] \in Event
    BY <1>1 DEF Event
  <2>2. CASE /\ queued < capacity
             /\ ring' = [ring EXCEPT ![SlotAt(queued)] =
                           [id |-> published + 1, topic |-> topic]]
             /\ queued' = queued + 1
             /\ UNCHANGED dropped_full
    <3> DEFINE e == [id |-> published + 1, topic |-> topic]
    <3>1. e \in Event \cup {NoEvent}
      BY <2>1
    <3> HIDE DEF e
    <3>2. ring' = [ring EXCEPT ![SlotAt(queued)] = e]
      BY <2>2 DEF e
    <3>3. ring' \in [0 .. capacity - 1 -> Event \cup {NoEvent}]
      BY <1>1, <3>1, <3>2
    <3>4. queued' \in 0 .. capacity /\ dropped_full' \in Nat
      BY <1>1, <2>2
    <3> QED
      BY <3>3, <3>4
  <2>3. CASE dropped_full' = Dropped(1) /\ UNCHANGED <<ring, queued>>
    BY <1>1, <2>3 DEF Dropped
  <2> QED
    BY <2>2, <2>3 DEF Router_Publish
<1> QED
  BY <1>2, <1>3, <1>4 DEF Router_Publish, subVars, TypeOK

LEMMA SubscribeType ==
  ASSUME RouterConstants, TypeOK, NEW topic \in Topics,
         NEW owner \in Owners \cup {NoOwner}, Router_Subscribe(topic, owner)
  PROVE  TypeOK'
<1>1. NextHandle \in 0 .. HandleSpace - 1
  BY DEF NextHandle, RouterConstants, TypeOK
<1>2. [handle |-> NextHandle, topic |-> topic, owner |-> owner] \in Subscription
  BY <1>1 DEF Subscription, RouterConstants
<1>3. /\ made' \in Seq(Subscription)
      /\ Len(made') = Len(made) + 1
      /\ Len(made) \in Nat
  BY <1>2, AppendProperties, LenProperties DEF Router_Subscribe, TypeOK
<1>4. subs' \subseteq DOMAIN made' /\ dead' \subseteq DOMAIN made'
  BY <1>3, LenProperties DEF Router_Subscribe, TypeOK
<1> QED
  BY <1>1, <1>3, <1>4 DEF Router_Subscribe, queueVars, statVars, TypeOK

LEMMA UnsubscribeType ==
  ASSUME TypeOK, NEW s \in DOMAIN made, Router_Unsubscribe(s)
  PROVE  TypeOK'
  BY DEF TypeOK, Router_Unsubscribe, queueVars, statVars

LEMMA DropOwnerType ==
  ASSUME TypeOK, NEW owner \in Owners, Router_DropOwner(owner)
  PROVE  TypeOK'
<1>1. subscriptions_dropped' \in Nat
  BY OwnedType DEF TypeOK, Router_DropOwner
<1>2. subs' \subseteq DOMAIN made /\ dead' \subseteq DOMAIN made
  BY DEF TypeOK, Router_DropOwner
<1> QED
  BY <1>1, <1>2 DEF TypeOK, Router_DropOwner, queueVars

LEMMA SetCapacityType ==
  ASSUME RouterConstants, TypeOK, NEW requested \in Capacities,
         SetCapacity(requested)
  PROVE  TypeOK'
<1> DEFINE size == IF requested = 0 THEN DefaultCapacity ELSE requested
           keep == IF queued < size THEN queued ELSE size
           discard == queued - keep
<1>1. size \in Nat \ {0} /\ keep \in 0 .. size /\ discard \in 0 .. queued
      /\ keep + discard = queued
  BY DEF RouterConstants, TypeOK
<1>2. ASSUME NEW i \in 0 .. size - 1, i < keep
      PROVE  Survivor(discard, i) \in Event \cup {NoEvent}
  <2>1. discard + i \in 0 .. capacity
    BY <1>1, <1>2 DEF TypeOK
  <2>2. SlotAt(discard + i) \in 0 .. capacity - 1
    BY <2>1, SlotType DEF TypeOK
  <2> QED
    BY <2>2 DEF Survivor, TypeOK
<1>3. ring' \in [0 .. size - 1 -> Event \cup {NoEvent}]
  BY <1>2 DEF SetCapacity
<1>4. dropped_full' \in Nat
  BY <1>1 DEF SetCapacity, Dropped, TypeOK
<1> QED
  BY <1>1, <1>3, <1>4 DEF SetCapacity, subVars, TypeOK

LEMMA BeginPumpType ==
  ASSUME TypeOK, BeginPump
  PROVE  TypeOK'
<1> DEFINE new == [batch |-> Batch, phase |-> "take", event |-> NoEvent,
                   matches |-> {}, calling |-> 0, delivered |-> 0,
                   skipped |-> FALSE, known |-> Len(made), snap |-> 0]
<1>1. Len(made) \in Nat
  BY LenProperties DEF TypeOK
<1>2. new \in Frame
  BY <1>1 DEF TypeOK, Frame, Batch
<1>3. frames' \in Seq(Frame)
  BY <1>2, AppendProperties DEF TypeOK, BeginPump
<1> QED
  BY <1>3 DEF TypeOK, BeginPump, queueVars, subVars, statVars

\* The subscriptions matching a topic are numbers.
LEMMA MatchingType ==
  ASSUME TypeOK, NEW topic
  PROVE  Matching(topic) \in SUBSET Nat
  BY LenProperties DEF TypeOK, Matching

LEMMA TakeEventType ==
  ASSUME TypeOK, TakeEvent
  PROVE  TypeOK'
<1>1. /\ frames \in Seq(Frame) /\ frames # <<>>
      /\ Top \in Frame
      /\ Len(made) \in Nat
  BY TopType, LenProperties DEF TypeOK, TakeEvent, Idle
<1>2. /\ ring[head] \in Event \cup {NoEvent}
      /\ Top.batch > 0 /\ queued > 0
  BY DEF TypeOK, TakeEvent
<1> DEFINE event == ring[head]
           taken == [Top EXCEPT !.batch = @ - 1, !.phase = "call",
                                !.event = event, !.snap = Len(made)]
<1>3. \/ SetTop([taken EXCEPT !.matches = Matching(event.topic)])
      \/ SetTop([taken EXCEPT !.skipped = TRUE])
  BY DEF TakeEvent
<1>4. taken \in Frame
  <2>1. Top.batch - 1 \in Nat
    BY <1>1, <1>2 DEF Frame
  <2>2. event \in Event \cup {NoEvent}
    BY <1>2
  <2> HIDE DEF event
  <2> QED
    BY <1>1, <2>1, <2>2 DEF Frame
<1>5. Matching(event.topic) \in SUBSET Nat
  BY MatchingType
<1>6. frames' \in Seq(Frame)
  <2> HIDE DEF taken, event
  <2>1. /\ [taken EXCEPT !.matches = Matching(event.topic)] \in Frame
        /\ [taken EXCEPT !.skipped = TRUE] \in Frame
    BY <1>4, <1>5 DEF Frame
  <2> QED
    BY <1>1, <1>3, <2>1, SetTopType
<1>7. ring' \in [0 .. capacity - 1 -> Event \cup {NoEvent}]
  <2>1. ring' = [ring EXCEPT ![head] = NoEvent]
    BY DEF TakeEvent
  <2> QED
    BY <2>1 DEF TypeOK
<1>8. queued' \in 0 .. capacity
  BY <1>2 DEF TypeOK, TakeEvent
<1>9. head' \in 0 .. capacity - 1
  <2>1. SlotAt(1) \in 0 .. capacity - 1
    BY SlotType DEF TypeOK
  <2> QED
    BY <2>1 DEF TakeEvent, NextHead, SlotAt
<1> QED
  BY <1>6, <1>7, <1>8, <1>9 DEF TypeOK, TakeEvent, subVars, statVars

LEMMA CallNextType ==
  ASSUME TypeOK, FramesShape, CallNext
  PROVE  TypeOK'
<1>1. frames \in Seq(Frame) /\ frames # <<>> /\ Top \in Frame
      /\ Top.phase = "call"
  BY TopType DEF TypeOK, CallNext, Idle
<1>2. PICK s \in Top.matches :
        LET rest == [Top EXCEPT !.matches = Unserved(s)]
        IN  \/ /\ SetTop([rest EXCEPT !.phase = "in", !.calling = s])
               /\ received' = received \cup {<<s, Top.event.id>>}
            \/ /\ SetTop(rest)
               /\ UNCHANGED received
  BY DEF CallNext
<1> DEFINE rest == [Top EXCEPT !.matches = Unserved(s)]
<1>3. s \in Nat /\ Unserved(s) \in SUBSET Nat
  BY <1>1, <1>2 DEF Frame, Unserved
<1>4. /\ rest \in Frame
      /\ [rest EXCEPT !.phase = "in", !.calling = s] \in Frame
  BY <1>1, <1>3 DEF Frame
<1>5. frames' \in Seq(Frame)
  BY <1>1, <1>2, <1>4, SetTopType
<1>6. received' \subseteq Nat \X Nat
  <2>1. Top.event \in Event
    BY <1>1, TopType DEF FramesShape, Top, Idle
  <2>2. Top.event.id \in Nat
    BY <2>1 DEF Event
  <2>3. received \subseteq Nat \X Nat
    BY DEF TypeOK
  <2> QED
    BY <1>2, <1>3, <2>2, <2>3
<1> QED
  BY <1>5, <1>6 DEF TypeOK, CallNext, queueVars, subVars, statVars

LEMMA CallbackReturnsType ==
  ASSUME TypeOK, CallbackReturns
  PROVE  TypeOK'
<1>1. frames \in Seq(Frame) /\ frames # <<>> /\ Top \in Frame
  BY TopType DEF TypeOK, CallbackReturns, InCallback, Idle
<1>2. [Top EXCEPT !.phase = "call", !.calling = 0, !.delivered = @ + 1] \in Frame
  <2>1. Top.delivered + 1 \in Nat
    BY <1>1 DEF Frame
  <2> QED
    BY <1>1, <2>1 DEF Frame
<1>3. frames' \in Seq(Frame)
  BY <1>1, <1>2, SetTopType DEF CallbackReturns
<1> QED
  BY <1>3 DEF TypeOK, CallbackReturns, queueVars, subVars, statVars

LEMMA FinishEventType ==
  ASSUME TypeOK, FinishEvent
  PROVE  TypeOK'
<1>1. frames \in Seq(Frame) /\ frames # <<>> /\ Top \in Frame
  BY TopType DEF TypeOK, FinishEvent, Idle
<1>2. [Top EXCEPT !.phase = "take", !.event = NoEvent, !.skipped = FALSE,
                  !.snap = 0] \in Frame
  BY <1>1 DEF Frame
<1>3. frames' \in Seq(Frame)
  BY <1>1, <1>2, SetTopType DEF FinishEvent
<1>4. dropped_full' \in Nat /\ handed' \in Nat
  BY DEF TypeOK, FinishEvent, Dropped
<1> QED
  BY <1>3, <1>4 DEF TypeOK, FinishEvent, queueVars, subVars

LEMMA EndPumpType ==
  ASSUME TypeOK, EndPump
  PROVE  TypeOK'
<1>1. frames \in Seq(Frame) /\ frames # <<>> /\ Top \in Frame
  BY TopType DEF TypeOK, EndPump, Idle
<1>2. frames' \in Seq(Frame)
  BY <1>1, PopType DEF EndPump
<1>3. delivered' \in Nat
  <2>1. Top.delivered \in Nat
    BY <1>1 DEF Frame
  <2> QED
    BY <2>1 DEF TypeOK, EndPump, Delivered
<1>4. inside' \subseteq Nat
  BY DEF TypeOK, EndPump
<1> QED
  BY <1>2, <1>3, <1>4 DEF TypeOK, EndPump, queueVars, subVars

-----------------------------------------------------------------------------
(* The stack                                                               *)

\* What replacing the innermost frame does to the stack and to the number of
\* events in flight.
LEMMA SetTopShape ==
  ASSUME TypeOK, FramesShape, ~Idle, NEW f \in Frame, SetTop(f),
         f.phase # "take" => f.event \in Event
  PROVE  /\ FramesShape'
         /\ InFlight' = IF f.phase = "take" THEN Len(frames) - 1 ELSE Len(frames)
<1>1. /\ frames \in Seq(Frame) /\ frames # <<>>
      /\ Len(frames) \in Nat \ {0}
  BY TopType DEF TypeOK, Idle
<1>2. /\ frames' \in Seq(Frame)
      /\ Len(frames') = Len(frames)
      /\ frames'[Len(frames)] = f
      /\ \A i \in 1 .. Len(frames) - 1 : frames'[i] = frames[i]
  BY <1>1, SetTopType
<1>3. FramesShape'
  BY <1>1, <1>2 DEF FramesShape
<1>4. frames' # <<>>
  BY <1>1, <1>2, EmptySeq
<1>5. InFlight' = IF f.phase = "take" THEN Len(frames) - 1 ELSE Len(frames)
  BY <1>2, <1>4 DEF InFlight, Idle, Top
<1> QED
  BY <1>3, <1>5

\* A pump starts with nothing in flight.
LEMMA BeginPumpShape ==
  ASSUME TypeOK, FramesShape, BeginPump
  PROVE  FramesShape' /\ InFlight' = InFlight
<1> DEFINE new == [batch |-> Batch, phase |-> "take", event |-> NoEvent,
                   matches |-> {}, calling |-> 0, delivered |-> 0,
                   skipped |-> FALSE, known |-> Len(made), snap |-> 0]
<1>1. frames \in Seq(Frame) /\ Len(frames) \in Nat
  BY LenProperties DEF TypeOK
<1>2. frames' = Append(frames, new) /\ new.phase = "take"
  BY DEF BeginPump
<1> HIDE DEF new
<1>3. /\ frames' \in Seq(Frame)
      /\ Len(frames') = Len(frames) + 1
      /\ frames'[Len(frames) + 1] = new
      /\ \A i \in 1 .. Len(frames) : frames'[i] = frames[i]
  <2>1. new \in Frame
    BY LenProperties DEF TypeOK, Frame, Batch, new
  <2> QED
    BY <1>1, <1>2, <2>1, AppendProperties
<1>4. frames' # <<>>
  BY <1>1, <1>3, EmptySeq
<1>5. FramesShape'
  <2>1. frames # <<>> => frames[Len(frames)].phase = "in"
    BY DEF BeginPump, MainThreadFree, InCallback, Idle, Top
  <2>2. Len(frames) > 0 => frames # <<>>
    BY <1>1, EmptySeq
  <2> QED
    BY <1>1, <1>2, <1>3, <2>1, <2>2 DEF FramesShape
<1>6. InFlight' = Len(frames)
  BY <1>1, <1>2, <1>3, <1>4 DEF InFlight, Idle, Top
<1>7. InFlight = Len(frames)
  <2>1. CASE Idle
    BY <2>1, EmptySeq DEF InFlight, Idle
  <2>2. CASE ~Idle
    BY <2>2 DEF BeginPump, MainThreadFree, InCallback, InFlight
  <2> QED
    BY <2>1, <2>2
<1> QED
  BY <1>5, <1>6, <1>7

\* A pump ends with nothing in flight.
LEMMA EndPumpShape ==
  ASSUME TypeOK, FramesShape, EndPump
  PROVE  FramesShape' /\ InFlight' = InFlight
<1>1. /\ frames \in Seq(Frame) /\ frames # <<>>
      /\ Len(frames) \in Nat \ {0}
      /\ Top.phase = "take"
  BY TopType DEF TypeOK, EndPump, Idle
<1>2. /\ frames' \in Seq(Frame)
      /\ Len(frames') = Len(frames) - 1
      /\ \A i \in 1 .. Len(frames) - 1 : frames'[i] = frames[i]
  BY <1>1, PopType DEF EndPump
<1>3. FramesShape'
  BY <1>1, <1>2 DEF FramesShape
<1>4. InFlight = Len(frames) - 1
  BY <1>1 DEF InFlight, Idle
<1>5. InFlight' = Len(frames) - 1
  <2>0. Len(frames) = 1 \/ Len(frames) > 1
    <3>1. \A n \in Nat \ {0} : n = 1 \/ n > 1
      OBVIOUS
    <3> QED
      BY <1>1, <3>1
  <2>1. CASE Len(frames) = 1
    <3>1. frames' = <<>>
      BY <1>2, <2>1, EmptySeq
    <3> QED
      BY <2>1, <3>1 DEF InFlight, Idle
  <2>2. CASE Len(frames) > 1
    <3>1. frames' # <<>>
      BY <1>2, <2>2, EmptySeq
    <3>2. frames'[Len(frames')].phase = "in"
      BY <1>1, <1>2, <2>2 DEF FramesShape
    <3> QED
      BY <1>2, <3>1, <3>2 DEF InFlight, Idle, Top
  <2> QED
    BY <2>0, <2>1, <2>2
<1> QED
  BY <1>3, <1>4, <1>5

\* A step that leaves the stack alone leaves what it holds alone.
LEMMA StackUnchanged ==
  ASSUME FramesShape, UNCHANGED frames
  PROVE  FramesShape' /\ InFlight' = InFlight
  BY DEF FramesShape, InFlight, Idle, Top

-----------------------------------------------------------------------------
(* The queue                                                               *)

\* A published event goes to the back of the queue, behind older ones.
LEMMA AcceptRing ==
  ASSUME TypeOK, RingInv, NEW e \in Event, e.id = published + 1,
         queued < capacity, published' = published + 1,
         ring' = [ring EXCEPT ![SlotAt(queued)] = e],
         queued' = queued + 1, UNCHANGED <<capacity, head>>
  PROVE  /\ RingInv'
         /\ \A k \in 1 .. queued : Waiting'[k] = Waiting[k]
         /\ Waiting'[queued + 1] = e
<1>1. /\ capacity \in Nat \ {0} /\ head \in 0 .. capacity - 1
      /\ queued \in 0 .. capacity - 1
      /\ published \in Nat
      /\ ring \in [0 .. capacity - 1 -> Event \cup {NoEvent}]
  BY DEF TypeOK
<1>2. e # NoEvent
  BY NoEventIsNoEvent DEF Event
<1>3. \A i : Place(i)' = Place(i)
  BY DEF Place
<1>4. \A k : SlotAt(k)' = SlotAt(k)
  BY DEF SlotAt
<1>5. SlotAt(queued) \in 0 .. capacity - 1 /\ Place(SlotAt(queued)) = queued
  BY <1>1, SlotType, PlaceOfSlot
<1>6. ASSUME NEW i \in 0 .. capacity - 1
      PROVE  ring'[i] # NoEvent <=> Place(i) < queued + 1
  <2>1. CASE i = SlotAt(queued)
    BY <1>1, <1>2, <1>5, <2>1
  <2>2. CASE i # SlotAt(queued)
    <3>1. Place(i) \in 0 .. capacity - 1 /\ Place(i) # queued
      BY <1>1, <2>2, SlotOfPlace
    <3>2. ring'[i] = ring[i]
      BY <1>1, <2>2
    <3>3. ring[i] # NoEvent <=> Place(i) < queued
      BY DEF RingInv
    <3> QED
      BY <1>1, <3>1, <3>2, <3>3
  <2> QED
    BY <2>1, <2>2
<1>7. ASSUME NEW k \in 1 .. queued
      PROVE  Waiting'[k] = Waiting[k]
  <2>1. /\ k - 1 \in 0 .. capacity - 1
        /\ SlotAt(k - 1) \in 0 .. capacity - 1
        /\ SlotAt(k - 1) # SlotAt(queued)
    <3>1. k - 1 \in 0 .. capacity - 1 /\ k - 1 # queued
      BY <1>1
    <3> QED
      BY <1>1, <1>5, <3>1, SlotType, PlaceOfSlot
  <2>2. k \in 1 .. queued + 1
    BY <1>1
  <2> QED
    BY <1>1, <1>4, <2>1, <2>2 DEF Waiting
<1>8. Waiting'[queued + 1] = e
  <2>1. queued + 1 \in 1 .. queued + 1 /\ queued + 1 - 1 = queued
    BY <1>1
  <2> QED
    BY <1>1, <1>4, <1>5, <2>1 DEF Waiting
<1>9. ASSUME NEW k \in 1 .. queued
      PROVE  Waiting[k].id \in Nat /\ Waiting[k].id <= published
  BY <1>9, WaitingType DEF RingInv, Event
<1>10. \A k \in 1 .. queued + 1 : Waiting'[k].id <= published + 1
  BY <1>1, <1>7, <1>8, <1>9
<1>11. \A j, k \in 1 .. queued + 1 : j < k => Waiting'[j].id < Waiting'[k].id
  <2>1. SUFFICES ASSUME NEW j \in 1 .. queued + 1, NEW k \in 1 .. queued + 1,
                        j < k
                 PROVE  Waiting'[j].id < Waiting'[k].id
    OBVIOUS
  <2>2. j \in 1 .. queued
    BY <1>1, <2>1
  <2>3. CASE k \in 1 .. queued
    BY <1>7, <2>1, <2>2, <2>3 DEF RingInv
  <2>4. CASE k = queued + 1
    BY <1>1, <1>7, <1>8, <1>9, <2>2, <2>4
  <2> QED
    BY <1>1, <2>3, <2>4
<1> QED
  BY <1>3, <1>6, <1>7, <1>8, <1>10, <1>11 DEF RingInv

\* Taking the oldest event moves every other one place forward.
LEMMA TakeRing ==
  ASSUME TypeOK, RingInv, queued > 0, published' = published,
         ring' = [ring EXCEPT ![head] = NoEvent], head' = NextHead,
         queued' = queued - 1, UNCHANGED capacity
  PROVE  /\ RingInv'
         /\ \A k \in 1 .. queued - 1 : Waiting'[k] = Waiting[k + 1]
<1>1. /\ capacity \in Nat \ {0} /\ head \in 0 .. capacity - 1
      /\ queued \in 1 .. capacity
      /\ ring \in [0 .. capacity - 1 -> Event \cup {NoEvent}]
  BY DEF TypeOK
<1>2. head' = IF head + 1 < capacity THEN head + 1 ELSE 0
  <2>1. SlotAt(1) = IF head + 1 < capacity THEN head + 1 ELSE head + 1 - capacity
    BY <1>1, SlotType
  <2>2. ~(head + 1 < capacity) => head + 1 - capacity = 0
    BY <1>1
  <2> QED
    BY <2>1, <2>2 DEF NextHead, SlotAt
<1>3. head' \in 0 .. capacity - 1
  BY <1>1, <1>2
<1>4. ASSUME NEW i \in 0 .. capacity - 1
      PROVE  Place(i)' = IF i = head THEN capacity - 1 ELSE Place(i) - 1
  <2>1. Place(i) = IF head <= i THEN i - head ELSE i - head + capacity
    BY <1>1, WrapBack DEF Place
  <2>2. (i - head') % capacity = IF head' <= i THEN i - head'
                                               ELSE i - head' + capacity
    BY <1>1, <1>3, WrapBack
  <2>3. Place(i)' = (i - head') % capacity
    BY DEF Place
  <2> QED
    BY <1>1, <1>2, <2>1, <2>2, <2>3
<1>5. ASSUME NEW i \in 0 .. capacity - 1
      PROVE  ring'[i] # NoEvent <=> Place(i)' < queued - 1
  <2>1. CASE i = head
    BY <1>1, <1>4, <2>1
  <2>2. CASE i # head
    <3>1. ring'[i] = ring[i]
      BY <1>1, <2>2
    <3>2. ring[i] # NoEvent <=> Place(i) < queued
      BY DEF RingInv
    <3>3. Place(i) \in 0 .. capacity - 1
      BY <1>1, SlotOfPlace
    <3> QED
      BY <1>1, <1>4, <2>2, <3>1, <3>2, <3>3
  <2> QED
    BY <2>1, <2>2
<1>6. ASSUME NEW k \in 1 .. queued - 1
      PROVE  Waiting'[k] = Waiting[k + 1]
  <2>1. k \in 0 .. capacity - 1 /\ k - 1 \in 0 .. capacity - 1
    BY <1>1
  <2>2. SlotAt(k) \in 0 .. capacity - 1
        /\ SlotAt(k) = IF head + k < capacity THEN head + k
                                              ELSE head + k - capacity
    BY <1>1, <2>1, SlotType
  <2>3. SlotAt(k - 1)' = (head' + (k - 1)) % capacity
    BY DEF SlotAt
  <2>4. (head' + (k - 1)) % capacity = SlotAt(k)
    <3> DEFINE x == head' + (k - 1)
    <3>1. x \in Nat /\ x < capacity + capacity
      BY <1>1, <1>3, <2>1
    <3> HIDE DEF x
    <3>2. x % capacity = IF x < capacity THEN x ELSE x - capacity
      BY <1>1, <3>1, WrapOnce
    <3> QED
      BY <1>1, <1>2, <2>1, <2>2, <3>2 DEF x
  <2>5. SlotAt(k) # head
    BY <1>1, <2>1, <2>2
  <2>6. ring'[SlotAt(k)] = ring[SlotAt(k)]
    BY <1>1, <2>2, <2>5
  <2>7. Waiting'[k] = ring'[SlotAt(k - 1)']
    BY <1>1 DEF Waiting
  <2>8. Waiting[k + 1] = ring[SlotAt(k)]
    <3>1. k + 1 \in 1 .. queued /\ k + 1 - 1 = k
      BY <1>1
    <3> QED
      BY <3>1 DEF Waiting
  <2> QED
    BY <2>3, <2>4, <2>6, <2>7, <2>8
<1>7. \A k \in 1 .. queued - 1 : Waiting'[k].id <= published
  BY <1>1, <1>6 DEF RingInv
<1>8. \A j, k \in 1 .. queued - 1 : j < k => Waiting'[j].id < Waiting'[k].id
  <2>1. SUFFICES ASSUME NEW j \in 1 .. queued - 1, NEW k \in 1 .. queued - 1,
                        j < k
                 PROVE  Waiting[j + 1].id < Waiting[k + 1].id
    BY <1>6
  <2>2. j + 1 \in 1 .. queued /\ k + 1 \in 1 .. queued /\ j + 1 < k + 1
    BY <1>1, <2>1
  <2> QED
    BY <2>2 DEF RingInv
<1> QED
  BY <1>5, <1>6, <1>7, <1>8 DEF RingInv

\* Resizing keeps the newest events that fit, in order, from slot 0 on.
LEMMA ResizeRing ==
  ASSUME TypeOK, RingInv, NEW size \in Nat \ {0}, NEW keep \in Nat,
         keep <= queued, keep <= size, published' = published,
         ring' = [i \in 0 .. size - 1 |->
                    IF i < keep THEN Survivor(queued - keep, i) ELSE NoEvent],
         capacity' = size, head' = 0, queued' = keep
  PROVE  /\ RingInv'
         /\ \A k \in 1 .. keep : Waiting'[k] = Waiting[queued - keep + k]
<1>1. /\ capacity \in Nat \ {0} /\ head \in 0 .. capacity - 1
      /\ queued \in 0 .. capacity
  BY DEF TypeOK
<1> DEFINE discard == queued - keep
<1>2. discard \in Nat /\ discard + keep = queued
  BY <1>1
<1> HIDE DEF discard
<1>3. ASSUME NEW k \in 1 .. keep
      PROVE  /\ discard + k \in 1 .. queued
             /\ Survivor(discard, k - 1) = Waiting[discard + k]
  <2>1. discard + k \in 1 .. queued /\ (discard + k) - 1 = discard + (k - 1)
    BY <1>1, <1>2
  <2>2. Waiting[discard + k] = ring[SlotAt((discard + k) - 1)]
    <3> DEFINE n == discard + k
    <3>1. n \in 1 .. queued
      BY <2>1
    <3> HIDE DEF n
    <3>2. Waiting[n] = ring[SlotAt(n - 1)]
      BY <3>1 DEF Waiting
    <3> QED
      BY <3>2 DEF n
  <2> QED
    BY <2>1, <2>2 DEF Survivor
<1>4. ASSUME NEW i \in 0 .. size - 1
      PROVE  /\ Place(i)' = i
             /\ i \in 0 .. size - 1 /\ size \in Nat \ {0}
  <2>1. (i - 0) % size = IF 0 <= i THEN i - 0 ELSE i - 0 + size
    <3>1. 0 \in 0 .. size - 1
      OBVIOUS
    <3> QED
      BY <3>1, WrapBack
  <2> QED
    BY <2>1 DEF Place
<1>5. ASSUME NEW i \in 0 .. size - 1
      PROVE  ring'[i] # NoEvent <=> i < keep
  <2>1. CASE i < keep
    <3>1. i + 1 \in 1 .. keep /\ i + 1 - 1 = i
      BY <2>1
    <3>2. ring'[i] = Waiting[discard + (i + 1)]
      BY <1>3, <2>1, <3>1 DEF discard
    <3>3. Waiting[discard + (i + 1)] \in Event
      BY <1>3, <3>1, WaitingType
    <3> QED
      BY <2>1, <3>2, <3>3, NoEventIsNoEvent DEF Event
  <2>2. CASE ~(i < keep)
    BY <2>2
  <2> QED
    BY <2>1, <2>2
<1>6. ASSUME NEW k \in 1 .. keep
      PROVE  Waiting'[k] = Waiting[discard + k]
  <2>1. k - 1 \in 0 .. size - 1 /\ k - 1 < keep
    OBVIOUS
  <2>2. SlotAt(k - 1)' = k - 1
    <3>1. (0 + (k - 1)) % size = k - 1
      <4>1. k - 1 \in Nat /\ k - 1 < size + size /\ 0 + (k - 1) = k - 1
        BY <2>1
      <4>2. (k - 1) % size = IF k - 1 < size THEN k - 1 ELSE k - 1 - size
        BY <4>1, WrapOnce
      <4> QED
        BY <2>1, <4>1, <4>2
    <3> QED
      BY <3>1 DEF SlotAt
  <2>3. ring'[k - 1] = Survivor(discard, k - 1)
    BY <2>1 DEF discard
  <2>4. Waiting'[k] = ring'[SlotAt(k - 1)']
    BY DEF Waiting
  <2> QED
    BY <1>3, <2>2, <2>3, <2>4
<1>7. \A k \in 1 .. keep : Waiting'[k].id <= published
  BY <1>3, <1>6 DEF RingInv
<1>8. \A j, k \in 1 .. keep : j < k => Waiting'[j].id < Waiting'[k].id
  <2>1. SUFFICES ASSUME NEW j \in 1 .. keep, NEW k \in 1 .. keep, j < k
                 PROVE  Waiting[discard + j].id < Waiting[discard + k].id
    BY <1>6
  <2>2. /\ discard + j \in 1 .. queued /\ discard + k \in 1 .. queued
        /\ discard + j < discard + k
    BY <1>2, <1>3, <2>1
  <2> QED
    BY <2>2 DEF RingInv
<1> QED
  BY <1>4, <1>5, <1>6, <1>7, <1>8 DEF RingInv, discard

\* A step that touches neither the queue nor the count of publications.
LEMMA RingUnchanged ==
  ASSUME RingInv, UNCHANGED <<queueVars, published>>
  PROVE  RingInv' /\ Waiting' = Waiting
  BY DEF RingInv, queueVars, Place, Waiting, SlotAt

-----------------------------------------------------------------------------
(* The invariant is inductive                                              *)

LEMMA InitInv ==
  ASSUME RouterConstants, Init
  PROVE  IInv
<1>1. TypeOK
  BY EmptySeq DEF Init, TypeOK, RouterConstants
<1>2. frames = <<>> /\ Len(frames) = 0
  BY EmptySeq DEF Init
<1>3. FramesShape
  BY <1>2 DEF FramesShape
<1>4. Accounted
  BY <1>2 DEF Init, Accounted, InFlight, Idle
<1>5. RingInv
  <2>1. ASSUME NEW i \in 0 .. capacity - 1
        PROVE  ring[i] # NoEvent <=> Place(i) < queued
    <3>1. Place(i) \in 0 .. capacity - 1
      BY <1>1, SlotOfPlace DEF TypeOK
    <3>2. ring[i] = NoEvent /\ queued = 0
      BY <2>1 DEF Init
    <3> QED
      BY <1>1, <3>1, <3>2 DEF TypeOK
  <2> QED
    BY <2>1 DEF RingInv, Init
<1> QED
  BY <1>1, <1>3, <1>4, <1>5 DEF IInv

LEMMA PublishInv ==
  ASSUME RouterConstants, IInv, NEW topic \in Topics, Router_Publish(topic),
         inside' \in {inside, inside \cup {published + 1}}
  PROVE  IInv'
<1>1. TypeOK'
  BY PublishType DEF IInv
<1>2. FramesShape' /\ InFlight' = InFlight
  BY StackUnchanged DEF IInv, Router_Publish
<1>3. /\ queued \in Nat /\ dropped_full \in Nat /\ handed \in Nat
      /\ InFlight \in Nat
      /\ published = queued + InFlight + handed + dropped_full
      /\ published' = published + 1 /\ handed' = handed
      /\ capacity' = capacity /\ head' = head
  <2>1. InFlight \in Nat
    BY TopType DEF IInv, TypeOK, InFlight, Idle
  <2> QED
    BY <2>1 DEF IInv, TypeOK, Accounted, Router_Publish
<1> DEFINE e == [id |-> published + 1, topic |-> topic]
<1>4. CASE /\ queued < capacity
           /\ ring' = [ring EXCEPT ![SlotAt(queued)] = e]
           /\ queued' = queued + 1
           /\ UNCHANGED dropped_full
  <2>1. e \in Event /\ e.id = published + 1
    BY DEF Event, IInv, TypeOK, Router_Publish, RouterConstants
  <2> HIDE DEF e
  <2>2. RingInv'
    BY <1>3, <1>4, <2>1, AcceptRing DEF IInv
  <2>3. Accounted'
    BY <1>2, <1>3, <1>4 DEF Accounted
  <2> QED
    BY <1>1, <1>2, <2>2, <2>3 DEF IInv
<1>5. CASE dropped_full' = Dropped(1) /\ UNCHANGED <<ring, queued>>
  <2>1. UNCHANGED <<ring, capacity, head, queued>>
    BY <1>3, <1>5
  <2>2. /\ \A i \in 0 .. capacity - 1 : Place(i)' = Place(i)
        /\ Waiting' = Waiting
    BY <2>1 DEF Place, Waiting, SlotAt
  <2>3. ASSUME NEW k \in 1 .. queued
        PROVE  Waiting[k].id <= published + 1
    <3>1. Waiting[k].id \in Nat /\ Waiting[k].id <= published /\ published \in Nat
      BY <2>3, WaitingType DEF IInv, RingInv, Event, TypeOK
    <3> QED
      BY <3>1
  <2>4. RingInv'
    BY <1>3, <2>1, <2>2, <2>3 DEF RingInv, IInv
  <2>5. Accounted'
    BY <1>2, <1>3, <1>5 DEF Accounted, Dropped
  <2> QED
    BY <1>1, <1>2, <2>4, <2>5 DEF IInv
<1> QED
  BY <1>4, <1>5 DEF Router_Publish

LEMMA TableInv ==
  ASSUME IInv, TypeOK',
         UNCHANGED <<queueVars, frames, published, dropped_full, handed>>
  PROVE  IInv'
<1>1. FramesShape' /\ InFlight' = InFlight
  BY StackUnchanged DEF IInv
<1>2. RingInv'
  BY RingUnchanged DEF IInv
<1>3. Accounted'
  BY <1>1 DEF Accounted, IInv, queueVars
<1> QED
  BY <1>1, <1>2, <1>3 DEF IInv

LEMMA SetCapacityInv ==
  ASSUME RouterConstants, IInv, NEW requested \in Capacities,
         SetCapacity(requested)
  PROVE  IInv'
<1>1. TypeOK'
  BY SetCapacityType DEF IInv
<1>2. FramesShape' /\ InFlight' = InFlight
  BY StackUnchanged DEF IInv, SetCapacity
<1> DEFINE size == IF requested = 0 THEN DefaultCapacity ELSE requested
           keep == IF queued < size THEN queued ELSE size
<1>3. /\ size \in Nat \ {0} /\ keep \in Nat /\ keep <= queued /\ keep <= size
      /\ queued \in Nat
  BY DEF RouterConstants, IInv, TypeOK
<1>4. /\ ring' = [i \in 0 .. size - 1 |->
                    IF i < keep THEN Survivor(queued - keep, i) ELSE NoEvent]
      /\ capacity' = size /\ head' = 0 /\ queued' = keep
      /\ dropped_full' = dropped_full + (queued - keep)
      /\ published' = published /\ handed' = handed
  BY DEF SetCapacity, Dropped
<1> HIDE DEF size, keep
<1>5. RingInv'
  BY <1>3, <1>4, ResizeRing DEF IInv
<1>6. Accounted'
  <2>1. InFlight \in Nat
    BY TopType DEF IInv, TypeOK, InFlight, Idle
  <2>2. dropped_full \in Nat /\ handed \in Nat /\
        published = queued + InFlight + handed + dropped_full
    BY DEF IInv, TypeOK, Accounted
  <2> QED
    BY <1>2, <1>3, <1>4, <2>1, <2>2 DEF Accounted
<1> QED
  BY <1>1, <1>2, <1>5, <1>6 DEF IInv

LEMMA BeginPumpInv ==
  ASSUME IInv, BeginPump
  PROVE  IInv'
<1>1. TypeOK'
  BY BeginPumpType DEF IInv
<1>2. FramesShape' /\ InFlight' = InFlight
  BY BeginPumpShape DEF IInv
<1>3. RingInv'
  BY RingUnchanged DEF IInv, BeginPump, statVars
<1>4. Accounted'
  BY <1>2 DEF Accounted, IInv, BeginPump, queueVars, statVars
<1> QED
  BY <1>1, <1>2, <1>3, <1>4 DEF IInv

LEMMA TakeEventInv ==
  ASSUME IInv, TakeEvent
  PROVE  IInv'
<1>1. TypeOK'
  BY TakeEventType DEF IInv
<1>2. /\ ~Idle /\ Top \in Frame /\ Top.phase = "take" /\ Top.batch > 0
      /\ Len(frames) \in Nat \ {0} /\ Len(made) \in Nat
      /\ queued > 0 /\ queued \in Nat
      /\ ring' = [ring EXCEPT ![head] = NoEvent]
      /\ head' = NextHead /\ queued' = queued - 1
      /\ UNCHANGED <<capacity, published, dropped_full, handed>>
  BY TopType, LenProperties DEF IInv, TypeOK, TakeEvent, statVars
<1> DEFINE event == ring[head]
           taken == [Top EXCEPT !.batch = @ - 1, !.phase = "call",
                                !.event = event, !.snap = Len(made)]
           served == [taken EXCEPT !.matches = Matching(event.topic)]
           spoilt == [taken EXCEPT !.skipped = TRUE]
<1>3. event \in Event
  BY <1>2, HeadIsOldest DEF IInv
<1>4. /\ taken \in Frame
      /\ taken.phase = "call" /\ taken.event \in Event
  <2>1. Top.batch - 1 \in Nat
    BY <1>2 DEF Frame
  <2> HIDE DEF event
  <2> QED
    BY <1>2, <1>3, <2>1 DEF Frame
<1>5. SetTop(served) \/ SetTop(spoilt)
  BY DEF TakeEvent
<1>6. /\ served \in Frame /\ served.phase = "call" /\ served.event \in Event
      /\ spoilt \in Frame /\ spoilt.phase = "call" /\ spoilt.event \in Event
  <2>1. Matching(event.topic) \in SUBSET Nat
    BY MatchingType DEF IInv
  <2> HIDE DEF taken, event
  <2> QED
    BY <1>4, <2>1 DEF Frame
<1> HIDE DEF served, spoilt
<1>7. FramesShape' /\ InFlight' = Len(frames)
  BY <1>2, <1>5, <1>6, SetTopShape DEF IInv
<1>8. RingInv'
  BY <1>2, TakeRing DEF IInv
<1>9. Accounted'
  <2>1. InFlight = Len(frames) - 1
    BY <1>2 DEF InFlight
  <2>2. /\ dropped_full \in Nat /\ handed \in Nat
        /\ published = queued + InFlight + handed + dropped_full
    BY DEF IInv, TypeOK, Accounted
  <2> QED
    BY <1>2, <1>7, <2>1, <2>2 DEF Accounted
<1> QED
  BY <1>1, <1>7, <1>8, <1>9 DEF IInv

LEMMA CallNextInv ==
  ASSUME IInv, CallNext
  PROVE  IInv'
<1>1. TypeOK'
  BY CallNextType DEF IInv
<1>2. /\ ~Idle /\ Top \in Frame /\ Top.phase = "call"
      /\ frames \in Seq(Frame)
      /\ Len(frames) \in Nat \ {0}
  BY TopType DEF IInv, TypeOK, CallNext
<1>3. PICK s \in Top.matches :
        LET rest == [Top EXCEPT !.matches = Unserved(s)]
        IN  SetTop([rest EXCEPT !.phase = "in", !.calling = s]) \/ SetTop(rest)
  BY DEF CallNext
<1> DEFINE rest   == [Top EXCEPT !.matches = Unserved(s)]
           called == [rest EXCEPT !.phase = "in", !.calling = s]
<1>4. s \in Nat /\ Unserved(s) \in SUBSET Nat
  BY <1>2, <1>3 DEF Frame, Unserved
<1>5. Top.event \in Event
  BY <1>2 DEF IInv, FramesShape, Top
<1>6. /\ rest \in Frame /\ rest.phase = "call" /\ rest.event \in Event
      /\ called \in Frame /\ called.phase = "in" /\ called.event \in Event
  BY <1>2, <1>4, <1>5 DEF Frame
<1>7. SetTop(called) \/ SetTop(rest)
  BY <1>3
<1> HIDE DEF called, rest
<1>8. FramesShape' /\ InFlight' = Len(frames)
  BY <1>2, <1>6, <1>7, SetTopShape DEF IInv
<1>9. RingInv'
  BY RingUnchanged DEF IInv, CallNext, statVars
<1>10. Accounted'
  <2>1. InFlight = Len(frames)
    BY <1>2 DEF InFlight
  <2> QED
    BY <1>8, <2>1 DEF Accounted, IInv, CallNext, queueVars, statVars
<1> QED
  BY <1>1, <1>8, <1>9, <1>10 DEF IInv

LEMMA CallbackReturnsInv ==
  ASSUME IInv, CallbackReturns
  PROVE  IInv'
<1>1. TypeOK'
  BY CallbackReturnsType DEF IInv
<1>2. /\ ~Idle /\ Top \in Frame /\ Top.phase = "in"
      /\ Len(frames) \in Nat \ {0}
  BY TopType DEF IInv, TypeOK, CallbackReturns, InCallback
<1> DEFINE f == [Top EXCEPT !.phase = "call", !.calling = 0, !.delivered = @ + 1]
<1>3. Top.event \in Event
  BY <1>2 DEF IInv, FramesShape, Top
<1>4. f \in Frame /\ f.phase = "call" /\ f.event \in Event
  <2>1. Top.delivered + 1 \in Nat
    BY <1>2 DEF Frame
  <2> QED
    BY <1>2, <1>3, <2>1 DEF Frame
<1>5. SetTop(f)
  BY DEF CallbackReturns
<1> HIDE DEF f
<1>6. FramesShape' /\ InFlight' = Len(frames)
  BY <1>2, <1>4, <1>5, SetTopShape DEF IInv
<1>7. RingInv'
  BY RingUnchanged DEF IInv, CallbackReturns, statVars
<1>8. Accounted'
  <2>1. InFlight = Len(frames)
    BY <1>2 DEF InFlight
  <2> QED
    BY <1>6, <2>1 DEF Accounted, IInv, CallbackReturns, queueVars, statVars
<1> QED
  BY <1>1, <1>6, <1>7, <1>8 DEF IInv

LEMMA FinishEventInv ==
  ASSUME IInv, FinishEvent
  PROVE  IInv'
<1>1. TypeOK'
  BY FinishEventType DEF IInv
<1>2. /\ ~Idle /\ Top \in Frame /\ Top.phase = "call"
      /\ Len(frames) \in Nat \ {0}
  BY TopType DEF IInv, TypeOK, FinishEvent
<1> DEFINE f == [Top EXCEPT !.phase = "take", !.event = NoEvent,
                            !.skipped = FALSE, !.snap = 0]
<1>3. f \in Frame /\ f.phase = "take"
  BY <1>2 DEF Frame
<1>4. SetTop(f)
  BY DEF FinishEvent
<1> HIDE DEF f
<1>5. FramesShape' /\ InFlight' = Len(frames) - 1
  BY <1>2, <1>3, <1>4, SetTopShape DEF IInv
<1>6. RingInv'
  BY RingUnchanged DEF IInv, FinishEvent
<1>7. Accounted'
  <2>1. InFlight = Len(frames)
    BY <1>2 DEF InFlight
  <2>2. /\ dropped_full \in Nat /\ handed \in Nat /\ queued \in Nat
        /\ published = queued + InFlight + handed + dropped_full
    BY DEF IInv, TypeOK, Accounted
  <2>3. /\ published' = published /\ queued' = queued
        /\ \/ dropped_full' = dropped_full + 1 /\ handed' = handed
           \/ handed' = handed + 1 /\ dropped_full' = dropped_full
    BY DEF FinishEvent, queueVars, Dropped
  <2> QED
    BY <1>2, <1>5, <2>1, <2>2, <2>3 DEF Accounted
<1> QED
  BY <1>1, <1>5, <1>6, <1>7 DEF IInv

LEMMA EndPumpInv ==
  ASSUME IInv, EndPump
  PROVE  IInv'
<1>1. TypeOK'
  BY EndPumpType DEF IInv
<1>2. FramesShape' /\ InFlight' = InFlight
  BY EndPumpShape DEF IInv
<1>3. RingInv'
  BY RingUnchanged DEF IInv, EndPump
<1>4. Accounted'
  BY <1>2 DEF Accounted, IInv, EndPump, queueVars
<1> QED
  BY <1>1, <1>2, <1>3, <1>4 DEF IInv

-----------------------------------------------------------------------------
(* The theorems                                                            *)

LEMMA NextInv ==
  ASSUME RouterConstants, IInv, [Next]_vars
  PROVE  IInv'
<1>1. TypeOK
  BY DEF IInv
<1>2. ASSUME NEW topic \in Topics, WorkerPublish(topic)
      PROVE  IInv'
  BY <1>2, PublishInv DEF WorkerPublish
<1>3. ASSUME NEW topic \in Topics, MainPublish(topic)
      PROVE  IInv'
  BY <1>3, PublishInv DEF MainPublish
<1>4. ASSUME NEW topic \in Topics, NEW owner \in Owners \cup {NoOwner},
             Router_Subscribe(topic, owner)
      PROVE  IInv'
  <2>1. TypeOK'
    BY <1>1, <1>4, SubscribeType
  <2> QED
    BY <1>4, <2>1, TableInv DEF Router_Subscribe, statVars
<1>5. ASSUME NEW s \in DOMAIN made, Router_Unsubscribe(s)
      PROVE  IInv'
  <2>1. TypeOK'
    BY <1>1, <1>5, UnsubscribeType
  <2> QED
    BY <1>5, <2>1, TableInv DEF Router_Unsubscribe, statVars
<1>6. ASSUME NEW owner \in Owners, Router_DropOwner(owner)
      PROVE  IInv'
  <2>1. TypeOK'
    BY <1>1, <1>6, DropOwnerType
  <2> QED
    BY <1>6, <2>1, TableInv DEF Router_DropOwner
<1>7. ASSUME NEW requested \in Capacities, SetCapacity(requested)
      PROVE  IInv'
  BY <1>7, SetCapacityInv
<1>8. CASE BeginPump
  BY <1>8, BeginPumpInv
<1>9. CASE PumpStep
  BY <1>9, TakeEventInv, CallNextInv, CallbackReturnsInv, FinishEventInv,
     EndPumpInv DEF PumpStep
<1>10. CASE UNCHANGED vars
  <2>1. TypeOK'
    BY <1>1, <1>10 DEF TypeOK, vars, queueVars, subVars, statVars
  <2> QED
    BY <1>10, <2>1, TableInv DEF vars, statVars
<1> QED
  BY <1>2, <1>3, <1>4, <1>5, <1>6, <1>7, <1>8, <1>9, <1>10 DEF Next

LEMMA Inductive == Spec => []IInv
<1>1. Init => IInv
  BY RouterConstants, InitInv
<1>2. IInv /\ [Next]_vars => IInv'
  BY RouterConstants, NextInv
<1> QED
  BY <1>1, <1>2, PTL DEF Spec

\* The router's variables keep their types, for any topics, owners, capacities
\* and numbers of calls: in particular the head stays inside the ring through
\* every resize and the queue depth never exceeds the capacity.
THEOREM TypeCorrect == Spec => []TypeOK
<1>1. IInv => TypeOK
  BY DEF IInv
<1> QED
  BY <1>1, Inductive, PTL

\* The slots that hold an event are those of the window of `queued` slots from
\* the head, and the events in it wait in the order they were published:
\* publish, take and resize never lose track of a slot, whatever the capacity.
THEOREM RingCorrect == Spec => []RingWellFormed
<1>1. IInv => RingWellFormed
  BY DEF IInv, RingInv, RingWellFormed, Place
<1> QED
  BY <1>1, Inductive, PTL

\* No event disappears silently: at every moment what publish() accepted is
\* queued, held by a pump, handed out, or counted in dropped_full.
THEOREM EveryEventAccounted == Spec => []Accounted
<1>1. IInv => Accounted
  BY DEF IInv
<1> QED
  BY <1>1, Inductive, PTL

-----------------------------------------------------------------------------
(***************************************************************************)
(* The event router implements EventQueue: seen through the events waiting *)
(* in its ring and its counters it is a bounded first-in first-out queue   *)
(* that never loses an event without counting it.                          *)
(***************************************************************************)

\* The waiting events are a sequence of events as long as the queue is deep.
LEMMA WaitingSeq ==
  ASSUME TypeOK, RingInv
  PROVE  Waiting \in Seq(Event) /\ Len(Waiting) = queued
<1>1. queued \in Nat
  BY DEF TypeOK
<1>2. \A k \in 1 .. queued : Waiting[k] \in Event
  BY WaitingType
<1>3. Waiting = [k \in 1 .. queued |-> Waiting[k]]
  BY DEF Waiting
<1> QED
  BY <1>1, <1>2, <1>3

\* The number of events in flight is a number.
LEMMA InFlightType ==
  ASSUME TypeOK
  PROVE  InFlight \in Nat
  BY TopType DEF TypeOK, InFlight, Idle

\* What the accounting says about the numbers of a state.
LEMMA Numbers ==
  ASSUME IInv
  PROVE  /\ queued \in Nat /\ InFlight \in Nat /\ handed \in Nat
         /\ dropped_full \in Nat
         /\ published = queued + InFlight + handed + dropped_full
  BY InFlightType DEF IInv, TypeOK, Accounted

\* The same of the state a step leads to.
LEMMA NumbersNext ==
  (IInv => /\ queued \in Nat /\ InFlight \in Nat /\ handed \in Nat
           /\ dropped_full \in Nat
           /\ published = queued + InFlight + handed + dropped_full
           /\ Waiting \in Seq(Event) /\ Len(Waiting) = queued)'
<1>1. IInv => /\ queued \in Nat /\ InFlight \in Nat /\ handed \in Nat
              /\ dropped_full \in Nat
              /\ published = queued + InFlight + handed + dropped_full
              /\ Waiting \in Seq(Event) /\ Len(Waiting) = queued
  BY Numbers, WaitingSeq DEF IInv
<1> QED
  BY <1>1, PTL

LEMMA PublishRefines ==
  ASSUME RouterConstants, IInv, IInv', NEW topic \in Topics,
         Router_Publish(topic)
  PROVE  Queue!Next
<1>1. /\ queued \in Nat /\ InFlight' = InFlight /\ handed' = handed
      /\ published' = published + 1 /\ capacity' = capacity /\ head' = head
  BY Numbers, StackUnchanged DEF IInv, Router_Publish
<1>2. Waiting \in Seq(Event) /\ Len(Waiting) = queued
  BY WaitingSeq DEF IInv
<1>3. Waiting' \in Seq(Event) /\ Len(Waiting') = queued'
  BY NumbersNext
<1> DEFINE e == [id |-> published + 1, topic |-> topic]
<1>4. CASE /\ queued < capacity
           /\ ring' = [ring EXCEPT ![SlotAt(queued)] = e]
           /\ queued' = queued + 1
           /\ UNCHANGED dropped_full
  <2>1. e \in Event /\ e.id = published + 1
    BY DEF Event, IInv, TypeOK, Router_Publish, RouterConstants
  <2> HIDE DEF e
  <2>2. /\ \A k \in 1 .. queued : Waiting'[k] = Waiting[k]
        /\ Waiting'[queued + 1] = e
    BY <1>1, <1>4, <2>1, AcceptRing DEF IInv
  <2>3. /\ Append(Waiting, e) \in Seq(Event)
        /\ Len(Append(Waiting, e)) = queued + 1
        /\ \A k \in 1 .. queued : Append(Waiting, e)[k] = Waiting[k]
        /\ Append(Waiting, e)[queued + 1] = e
    BY <1>2, <2>1, AppendProperties
  <2>4. \A k \in 1 .. queued + 1 : Waiting'[k] = Append(Waiting, e)[k]
    BY <1>1, <2>2, <2>3
  <2>5. Waiting' = Append(Waiting, e)
    BY <1>3, <1>4, <2>3, <2>4, SeqEqual
  <2>6. Queue!Accept(e)
    BY <1>1, <1>2, <1>4, <2>5 DEF Queue!Accept
  <2> QED
    BY <2>1, <2>6 DEF Queue!Next
<1>5. CASE dropped_full' = Dropped(1) /\ UNCHANGED <<ring, queued>>
  <2>1. Waiting' = Waiting
    BY <1>1, <1>5 DEF Waiting, SlotAt
  <2>2. Queue!Refuse
    BY <1>1, <1>5, <2>1 DEF Queue!Refuse, Dropped
  <2> QED
    BY <2>2 DEF Queue!Next
<1> QED
  BY <1>4, <1>5 DEF Router_Publish

LEMMA TakeRefines ==
  ASSUME IInv, IInv', TakeEvent
  PROVE  Queue!Take
<1>1. /\ queued > 0 /\ queued' = queued - 1
      /\ ring' = [ring EXCEPT ![head] = NoEvent] /\ head' = NextHead
      /\ UNCHANGED <<capacity, published, dropped_full, handed>>
  BY DEF TakeEvent, statVars
<1>2. queued \in Nat /\ InFlight' = InFlight + 1
  <2>1. /\ queued' \in Nat /\ InFlight' \in Nat /\ handed' \in Nat
        /\ dropped_full' \in Nat
        /\ published' = queued' + InFlight' + handed' + dropped_full'
    BY NumbersNext
  <2> QED
    BY <1>1, <2>1, Numbers
<1>3. Waiting \in Seq(Event) /\ Len(Waiting) = queued
  BY WaitingSeq DEF IInv
<1>4. Waiting' \in Seq(Event) /\ Len(Waiting') = queued'
  BY NumbersNext
<1>5. Waiting # <<>>
  BY <1>1, <1>2, <1>3, EmptySeq
<1>6. /\ Tail(Waiting) \in Seq(Event)
      /\ Len(Tail(Waiting)) = queued - 1
      /\ \A k \in 1 .. queued - 1 : Tail(Waiting)[k] = Waiting[k + 1]
  BY <1>3, <1>5, HeadTailProperties
<1>7. \A k \in 1 .. queued - 1 : Waiting'[k] = Waiting[k + 1]
  BY <1>1, TakeRing DEF IInv
<1>8. Waiting' = Tail(Waiting)
  BY <1>1, <1>4, <1>6, <1>7, SeqEqual
<1> QED
  BY <1>1, <1>2, <1>5, <1>8 DEF Queue!Take

LEMMA FinishRefines ==
  ASSUME IInv, IInv', FinishEvent
  PROVE  Queue!Settle
<1>1. /\ UNCHANGED <<queueVars, published>>
      /\ \/ handed' = handed + 1 /\ dropped_full' = dropped_full
         \/ dropped_full' = dropped_full + 1 /\ handed' = handed
  BY DEF FinishEvent, Dropped
<1>2. InFlight > 0 /\ InFlight' = InFlight - 1
  <2>1. /\ queued' \in Nat /\ InFlight' \in Nat /\ handed' \in Nat
        /\ dropped_full' \in Nat
        /\ published' = queued' + InFlight' + handed' + dropped_full'
    BY NumbersNext
  <2>2. queued' = queued /\ published' = published
    BY <1>1 DEF queueVars
  <2> QED
    BY <1>1, <2>1, <2>2, Numbers
<1>3. Waiting' = Waiting /\ capacity' = capacity
  BY <1>1, RingUnchanged DEF IInv, queueVars
<1> QED
  BY <1>1, <1>2, <1>3 DEF Queue!Settle

LEMMA ResizeRefines ==
  ASSUME RouterConstants, IInv, IInv', NEW requested \in Capacities,
         SetCapacity(requested)
  PROVE  Queue!Next
<1> DEFINE size == IF requested = 0 THEN DefaultCapacity ELSE requested
           keep == IF queued < size THEN queued ELSE size
           excess == IF Len(Waiting) > size THEN Len(Waiting) - size ELSE 0
<1>1. Waiting \in Seq(Event) /\ Len(Waiting) = queued
  BY WaitingSeq DEF IInv
<1>2. Waiting' \in Seq(Event) /\ Len(Waiting') = queued'
  BY NumbersNext
<1>3. /\ size \in {DefaultCapacity} \cup (Capacities \ {0})
      /\ size \in Nat \ {0} /\ keep \in Nat /\ keep <= queued /\ keep <= size
      /\ queued \in Nat /\ excess = queued - keep
  <2>1. /\ size \in {DefaultCapacity} \cup (Capacities \ {0})
        /\ size \in Nat \ {0} /\ queued \in Nat
    BY DEF RouterConstants, IInv, TypeOK
  <2> HIDE DEF size
  <2> QED
    BY <1>1, <2>1
<1>4. /\ ring' = [i \in 0 .. size - 1 |->
                    IF i < keep THEN Survivor(queued - keep, i) ELSE NoEvent]
      /\ capacity' = size /\ head' = 0 /\ queued' = keep
      /\ dropped_full' = dropped_full + (queued - keep)
      /\ published' = published /\ handed' = handed
      /\ UNCHANGED frames
  BY DEF SetCapacity, Dropped
<1> HIDE DEF size, keep
<1>5. \A k \in 1 .. keep : Waiting'[k] = Waiting[queued - keep + k]
  BY <1>3, <1>4, ResizeRing DEF IInv
<1> DEFINE rest == SubSeq(Waiting, excess + 1, Len(Waiting))
<1>6. /\ rest \in Seq(Event)
      /\ Len(rest) = keep
      /\ \A k \in 1 .. keep : rest[k] = Waiting[queued - keep + k]
  <2> HIDE DEF excess
  <2>1. excess \in Nat /\ queued - excess = keep
    BY <1>3
  <2>2. \A k \in excess + 1 .. Len(Waiting) : Waiting[k] \in Event
    BY <1>1, <2>1, ElementOfSeq
  <2>3. /\ rest \in Seq(Event)
        /\ Len(rest) = IF excess + 1 <= queued
                         THEN queued - (excess + 1) + 1 ELSE 0
        /\ \A k \in 1 .. queued - (excess + 1) + 1 :
             rest[k] = Waiting[excess + 1 + k - 1]
    <3>1. excess + 1 \in Int /\ Len(Waiting) \in Int
      BY <1>1, <1>3, <2>1
    <3> QED
      BY <1>1, <2>2, <3>1, SubSeqProperties
  <2> HIDE DEF rest
  <2>4. Len(rest) = keep
    BY <1>3, <2>1, <2>3
  <2>5. \A k \in 1 .. keep : /\ k \in 1 .. queued - (excess + 1) + 1
                             /\ excess + 1 + k - 1 = queued - keep + k
    BY <1>3, <2>1
  <2> QED
    BY <2>3, <2>4, <2>5
<1> HIDE DEF rest
<1>7. Waiting' = rest
  <2>1. Len(Waiting') = Len(rest)
    BY <1>2, <1>4, <1>6
  <2>2. \A k \in 1 .. Len(Waiting') : Waiting'[k] = rest[k]
    BY <1>2, <1>4, <1>5, <1>6
  <2> QED
    BY <1>2, <1>6, <2>1, <2>2, SeqEqual
<1>8. InFlight' = InFlight
  BY <1>4, StackUnchanged DEF IInv
<1>9. Queue!Resize(size)
  BY <1>3, <1>4, <1>7, <1>8 DEF Queue!Resize, rest
<1> QED
  BY <1>3, <1>9 DEF Queue!Next

\* A step that changes neither the ring nor the counters of events.
LEMMA Stutters ==
  ASSUME IInv, IInv', UNCHANGED <<queueVars, published, dropped_full, handed>>
  PROVE  UNCHANGED Queue!qvars
<1>1. Waiting' = Waiting /\ capacity' = capacity
  BY RingUnchanged DEF IInv, queueVars
<1>2. /\ queued' \in Nat /\ InFlight' \in Nat /\ handed' \in Nat
      /\ dropped_full' \in Nat
      /\ published' = queued' + InFlight' + handed' + dropped_full'
  BY NumbersNext
<1>3. InFlight' = InFlight
  BY <1>2, Numbers DEF queueVars
<1> QED
  BY <1>1, <1>3 DEF Queue!qvars

LEMMA InitRefines ==
  ASSUME RouterConstants, Init
  PROVE  Queue!Init
<1>1. TypeOK /\ RingInv
  BY InitInv DEF IInv
<1>2. Waiting = <<>>
  BY <1>1, WaitingSeq, EmptySeq DEF Init
<1> QED
  BY <1>2 DEF Queue!Init, Init, InFlight, Idle

LEMMA StepRefines ==
  ASSUME RouterConstants, IInv, IInv', [Next]_vars
  PROVE  [Queue!Next]_(Queue!qvars)
<1>1. ASSUME NEW topic \in Topics, Router_Publish(topic)
      PROVE  Queue!Next
  BY <1>1, PublishRefines
<1>2. ASSUME NEW topic \in Topics, NEW owner \in Owners \cup {NoOwner},
             Router_Subscribe(topic, owner)
      PROVE  UNCHANGED Queue!qvars
  BY <1>2, Stutters DEF Router_Subscribe, statVars
<1>3. ASSUME NEW s \in DOMAIN made, Router_Unsubscribe(s)
      PROVE  UNCHANGED Queue!qvars
  BY <1>3, Stutters DEF Router_Unsubscribe, statVars
<1>4. ASSUME NEW owner \in Owners, Router_DropOwner(owner)
      PROVE  UNCHANGED Queue!qvars
  BY <1>4, Stutters DEF Router_DropOwner
<1>5. ASSUME NEW requested \in Capacities, SetCapacity(requested)
      PROVE  Queue!Next
  BY <1>5, ResizeRefines
<1>6. CASE BeginPump \/ CallNext \/ CallbackReturns
  BY <1>6, Stutters DEF BeginPump, CallNext, CallbackReturns, statVars
<1>7. CASE TakeEvent
  BY <1>7, TakeRefines DEF Queue!Next
<1>8. CASE FinishEvent
  BY <1>8, FinishRefines DEF Queue!Next
<1>9. CASE EndPump
  BY <1>9, Stutters DEF EndPump
<1>10. CASE UNCHANGED vars
  BY <1>10, Stutters DEF vars, statVars
<1> QED
  BY <1>1, <1>2, <1>3, <1>4, <1>5, <1>6, <1>7, <1>8, <1>9, <1>10
     DEF Next, PumpStep, WorkerPublish, MainPublish

\* The router is a bounded FIFO queue that counts what it loses: every publish
\* is an acceptance at the back or a counted refusal, every pump takes the
\* oldest event, every resize keeps the newest events, for any capacities.
THEOREM RouterImplementsQueue == Spec => ImplementsQueue
<1>1. Init => Queue!Init
  BY RouterConstants, InitRefines
<1>2. IInv /\ IInv' /\ [Next]_vars => [Queue!Next]_(Queue!qvars)
  BY RouterConstants, StepRefines
<1> QED
  BY <1>1, <1>2, Inductive, PTL DEF Spec, ImplementsQueue

-----------------------------------------------------------------------------
(***************************************************************************)
(* The subscriptions of the router.  The counter that makes their handles  *)
(* wraps around and skips the invalid handle, and still no handle comes    *)
(* back before all the others were given out; hence, with fewer            *)
(* subscriptions than handles, no callback starts after its subscription   *)
(* has left.                                                               *)
(***************************************************************************)

-----------------------------------------------------------------------------
(* Handles                                                                 *)

\* The handle given out j subscriptions before the last one.
Earlier(j) ==
  IF j < next_handle THEN next_handle - j
                     ELSE next_handle - j + (HandleSpace - 1)

\* The last round of handles counts down from the last one given out; and what
\* HandlesUnique says holds of subscriptions that have left the table, too.
HandleInv ==
  /\ made # <<>> => next_handle # 0
  /\ \A j \in 0 .. HandleSpace - 2 :
       j < Len(made) => made[Len(made) - j].handle = Earlier(j)
  /\ \A s \in DOMAIN made : made[s].handle # 0
  /\ \A s, t \in DOMAIN made :
       s < t /\ made[s].handle = made[t].handle => t - s >= HandleSpace - 1

\* The counter goes up by one, or from the last value to 1.
LEMMA NextHandleStep ==
  ASSUME RouterConstants, TypeOK
  PROVE  NextHandle = IF next_handle < HandleSpace - 1 THEN next_handle + 1 ELSE 1
<1> DEFINE x == next_handle + 1
<1>1. /\ HandleSpace \in Nat \ {0} /\ next_handle \in 0 .. HandleSpace - 1
      /\ x \in Nat /\ x < HandleSpace + HandleSpace
  BY DEF RouterConstants, TypeOK
<1> HIDE DEF x
<1>2. x % HandleSpace = IF x < HandleSpace THEN x ELSE x - HandleSpace
  BY <1>1, WrapOnce
<1>3. NextHandle = LET h == x % HandleSpace IN IF h = 0 THEN 1 ELSE h
  BY DEF NextHandle, x
<1>4. CASE x < HandleSpace
  BY <1>1, <1>2, <1>3, <1>4 DEF x
<1>5. CASE ~(x < HandleSpace)
  BY <1>1, <1>2, <1>3, <1>5 DEF x
<1> QED
  BY <1>4, <1>5

\* Handles are made only here: the new one is the successor of the last, and
\* every other place in the round moves back by one.
LEMMA SubscribeHandles ==
  ASSUME RouterConstants, TypeOK, HandleInv, NEW topic \in Topics,
         NEW owner \in Owners \cup {NoOwner}, Router_Subscribe(topic, owner)
  PROVE  HandleInv'
<1> DEFINE L == Len(made)
           N == HandleSpace - 1
           n == next_handle
           m == NextHandle
           h(s) == made[s].handle
           g(s) == made'[s].handle
<1>1. /\ L \in Nat /\ N \in Nat \ {0} /\ n \in 0 .. N
      /\ DOMAIN made = 1 .. L
  BY LenProperties DEF RouterConstants, TypeOK
<1>2. m = IF n < N THEN n + 1 ELSE 1
  BY NextHandleStep
<1>3. /\ Len(made') = L + 1 /\ DOMAIN made' = 1 .. L + 1
      /\ g(L + 1) = m
      /\ \A s \in 1 .. L : g(s) = h(s)
      /\ next_handle' = m
  BY DEF Router_Subscribe, TypeOK
<1>4. /\ \A j \in 0 .. N - 1 :
           j < L => h(L - j) = IF j < n THEN n - j ELSE n - j + N
      /\ \A s \in 1 .. L : h(s) # 0
      /\ \A s, t \in 1 .. L : s < t /\ h(s) = h(t) => t - s >= N
      /\ n = 0 => L = 0
  <2>1. L # 0 => made # <<>>
    BY <1>1
  <2>2. HandleSpace - 2 = N - 1
    BY DEF RouterConstants
  <2> QED
    BY <1>1, <2>1, <2>2 DEF HandleInv, Earlier
<1> HIDE DEF L, N, n, m, h, g
<1>5. m \in 1 .. N
  BY <1>1, <1>2
<1>6. ASSUME NEW j \in 0 .. N - 1, j < L + 1
      PROVE  g(L + 1 - j) = IF j < m THEN m - j ELSE m - j + N
  <2>1. CASE j = 0
    BY <1>1, <1>3, <1>5, <2>1
  <2>2. CASE j # 0
    <3> DEFINE i == j - 1
    <3>1. /\ i \in 0 .. N - 1 /\ i < L /\ j = i + 1
          /\ L - i \in 1 .. L /\ L + 1 - j = L - i
      BY <1>1, <1>6, <2>2
    <3> HIDE DEF i
    <3>2. g(L + 1 - j) = IF i < n THEN n - i ELSE n - i + N
      BY <1>3, <1>4, <3>1
    <3>3. L # 0 /\ n # 0
      BY <1>1, <1>4, <3>1
    <3>4. CASE n < N
      BY <1>1, <1>2, <3>1, <3>2, <3>4
    <3>5. CASE n = N
      BY <1>1, <1>2, <3>1, <3>2, <3>5
    <3> QED
      BY <1>1, <3>4, <3>5
  <2> QED
    BY <2>1, <2>2
<1>7. \A s \in 1 .. L + 1 : g(s) # 0
  BY <1>1, <1>3, <1>4, <1>5
<1>8. ASSUME NEW s \in 1 .. L + 1, NEW t \in 1 .. L + 1, s < t, g(s) = g(t)
      PROVE  t - s >= N
  <2>1. CASE t <= L
    BY <1>1, <1>3, <1>4, <1>8, <2>1
  <2>2. CASE t = L + 1
    <3> DEFINE j == L + 1 - s
    <3>1. /\ j \in Nat \ {0} /\ j < L + 1 /\ s = L + 1 - j /\ t - s = j
      BY <1>1, <1>8, <2>2
    <3> HIDE DEF j
    <3>2. g(s) = m
      BY <1>3, <1>8, <2>2
    <3>3. SUFFICES ASSUME j < N
                   PROVE  FALSE
      BY <1>1, <3>1
    <3>4. j \in 0 .. N - 1
      BY <1>1, <3>1, <3>3
    <3>5. m = IF j < m THEN m - j ELSE m - j + N
      BY <1>6, <3>1, <3>2, <3>4
    <3> QED
      BY <1>1, <1>5, <3>1, <3>3, <3>5
  <2> QED
    BY <1>1, <2>1, <2>2
<1> QED
  <2>1. HandleSpace - 2 = N - 1 /\ HandleSpace - 1 = N
    BY <1>1 DEF N, RouterConstants
  <2>2. m # 0
    BY <1>5, <1>1
  <2> QED
    BY <1>1, <1>3, <1>6, <1>7, <1>8, <2>1, <2>2 DEF HandleInv, Earlier, g

\* Everything else leaves the counter and the list of subscriptions alone.
LEMMA HandlesKept ==
  ASSUME HandleInv, UNCHANGED <<made, next_handle>>
  PROVE  HandleInv'
  BY DEF HandleInv, Earlier

LEMMA HandlesInductive ==
  ASSUME RouterConstants, TypeOK, HandleInv, [Next]_vars
  PROVE  HandleInv'
<1>1. ASSUME NEW topic \in Topics, NEW owner \in Owners \cup {NoOwner},
             Router_Subscribe(topic, owner)
      PROVE  HandleInv'
  BY <1>1, SubscribeHandles
<1>2. CASE \E topic \in Topics : WorkerPublish(topic) \/ MainPublish(topic)
  BY <1>2, HandlesKept DEF WorkerPublish, MainPublish, Router_Publish, subVars
<1>3. CASE \E s \in DOMAIN made : Router_Unsubscribe(s)
  BY <1>3, HandlesKept DEF Router_Unsubscribe
<1>4. CASE \E owner \in Owners : Router_DropOwner(owner)
  BY <1>4, HandlesKept DEF Router_DropOwner
<1>5. CASE \E requested \in Capacities : SetCapacity(requested)
  BY <1>5, HandlesKept DEF SetCapacity, subVars
<1>6. CASE BeginPump
  BY <1>6, HandlesKept DEF BeginPump, subVars
<1>7. CASE PumpStep
  BY <1>7, HandlesKept DEF PumpStep, TakeEvent, CallNext, CallbackReturns,
     FinishEvent, EndPump, subVars
<1>8. CASE UNCHANGED vars
  BY <1>8, HandlesKept DEF vars, subVars
<1> QED
  BY <1>1, <1>2, <1>3, <1>4, <1>5, <1>6, <1>7, <1>8 DEF Next

LEMMA HandlesHold == Spec => []HandleInv
<1>1. Init => HandleInv
  BY DEF Init, HandleInv
<1>2. TypeOK /\ HandleInv /\ [Next]_vars => HandleInv'
  BY RouterConstants, HandlesInductive
<1> QED
  BY <1>1, <1>2, TypeCorrect, PTL DEF Spec

\* No live subscription has the invalid handle 0, and a handle comes back only
\* after all the others were given out, however often the counter of
\* subscribe() wraps around and whatever was cancelled in between.
THEOREM HandlesNeverClash == Spec => []HandlesUnique
<1>1. TypeOK /\ HandleInv => HandlesUnique
  BY DEF TypeOK, HandleInv, HandlesUnique
<1> QED
  BY <1>1, TypeCorrect, HandlesHold, PTL

-----------------------------------------------------------------------------
(* Leaving: a pump looks the subscription up again by its handle before it *)
(* calls it, so the look-up has to find that subscription or none.         *)

\* Nothing in the table has left, and pumps only hold subscriptions made.
SubsInv ==
  /\ Len(made) <= MaxSubscribes
  /\ subs \cap dead = {}
  /\ \A i \in 1 .. Len(frames) : frames[i].matches \subseteq DOMAIN made

Fewer == MaxSubscribes < HandleSpace

\* With fewer subscriptions than handles no two share a handle.
LEMMA OneHolder ==
  ASSUME RouterConstants, TypeOK, HandleInv, SubsInv, Fewer,
         NEW s \in DOMAIN made, NEW t \in DOMAIN made,
         made[s].handle = made[t].handle
  PROVE  s = t
<1>1. /\ DOMAIN made = 1 .. Len(made) /\ Len(made) \in Nat
      /\ Len(made) <= HandleSpace - 1 /\ HandleSpace \in Nat
  BY LenProperties DEF RouterConstants, TypeOK, SubsInv, Fewer
<1>2. /\ s < t => t - s >= HandleSpace - 1
      /\ t < s => s - t >= HandleSpace - 1
  BY DEF HandleInv
<1> QED
  BY <1>1, <1>2

\* Looking a subscription up by its handle finds it, or nothing.
LEMMA LookUp ==
  ASSUME RouterConstants, TypeOK, HandleInv, SubsInv, Fewer,
         NEW s \in DOMAIN made
  PROVE  FindSubscription(made[s].handle) = subs \cap {s}
  BY OneHolder DEF FindSubscription, TypeOK

\* The innermost pump goes on with subscriptions that were made.
LEMMA SetTopMatches ==
  ASSUME TypeOK, SubsInv, NEW f, SetTop(f), f.matches \subseteq DOMAIN made,
         UNCHANGED <<made, subs, dead>>
  PROVE  SubsInv'
<1>1. /\ frames \in [1 .. Len(frames) -> Frame] /\ Len(frames) \in Nat
  BY LenProperties DEF TypeOK
<1>2. /\ DOMAIN frames' = 1 .. Len(frames)
      /\ \A i \in 1 .. Len(frames) :
           frames'[i] = IF i = Len(frames) THEN f ELSE frames[i]
  BY <1>1 DEF SetTop
<1>3. Len(frames') = Len(frames)
  BY <1>1 DEF SetTop, TypeOK
<1>4. \A i \in 1 .. Len(frames') : frames'[i].matches \subseteq DOMAIN made'
  BY <1>2, <1>3 DEF SubsInv
<1> QED
  BY <1>4 DEF SubsInv

LEMMA SubsKept ==
  ASSUME SubsInv, UNCHANGED <<made, subs, dead, frames>>
  PROVE  SubsInv'
  BY DEF SubsInv

LEMMA SubscribeSubs ==
  ASSUME RouterConstants, TypeOK, SubsInv, NEW topic \in Topics,
         NEW owner \in Owners \cup {NoOwner}, Router_Subscribe(topic, owner)
  PROVE  SubsInv'
<1>1. /\ Len(made) \in Nat /\ DOMAIN made = 1 .. Len(made)
      /\ Len(made') = Len(made) + 1 /\ DOMAIN made' = 1 .. Len(made) + 1
  BY LenProperties DEF TypeOK, Router_Subscribe
<1>2. Len(made') <= MaxSubscribes
  BY <1>1 DEF Router_Subscribe, RouterConstants
<1>3. subs' \cap dead' = {}
  BY <1>1 DEF Router_Subscribe, TypeOK, SubsInv
<1>4. DOMAIN made \subseteq DOMAIN made'
  BY <1>1
<1> QED
  BY <1>2, <1>3, <1>4 DEF SubsInv, Router_Subscribe

\* The entry that leaves the table is the one whose holder cancels it.
LEMMA UnsubscribeSubs ==
  ASSUME RouterConstants, TypeOK, HandleInv, SubsInv, Fewer,
         NEW s \in DOMAIN made, Router_Unsubscribe(s)
  PROVE  SubsInv'
<1>1. FindSubscription(made[s].handle) = subs \cap {s}
  BY LookUp
<1>2. subs' = subs \ {s} /\ dead' = dead \cup {s}
  BY <1>1 DEF Router_Unsubscribe, Oldest
<1> QED
  BY <1>2 DEF SubsInv, Router_Unsubscribe

LEMMA DropOwnerSubs ==
  ASSUME TypeOK, SubsInv, NEW owner \in Owners, Router_DropOwner(owner)
  PROVE  SubsInv'
<1>1. subs' \cap dead' = {}
  BY DEF SubsInv, Router_DropOwner, OwnedBy
<1> QED
  BY <1>1 DEF SubsInv, Router_DropOwner

LEMMA BeginPumpSubs ==
  ASSUME TypeOK, SubsInv, BeginPump
  PROVE  SubsInv'
<1> DEFINE new == [batch |-> Batch, phase |-> "take", event |-> NoEvent,
                   matches |-> {}, calling |-> 0, delivered |-> 0,
                   skipped |-> FALSE, known |-> Len(made), snap |-> 0]
<1>1. new.matches = {}
  OBVIOUS
<1>2. frames' = Append(frames, new)
  BY DEF BeginPump
<1> HIDE DEF new
<1>3. /\ Len(frames) \in Nat /\ Len(frames') = Len(frames) + 1
      /\ \A i \in 1 .. Len(frames) : frames'[i] = frames[i]
      /\ frames'[Len(frames) + 1] = new
  BY <1>2 DEF TypeOK
<1>4. UNCHANGED <<made, subs, dead>>
  BY DEF BeginPump, subVars
<1>5. \A i \in 1 .. Len(frames') : frames'[i].matches \subseteq DOMAIN made'
  BY <1>1, <1>3, <1>4 DEF SubsInv
<1> QED
  BY <1>4, <1>5 DEF SubsInv

\* Between its callbacks a pump only gives subscriptions up.
LEMMA PumpStepSubs ==
  ASSUME TypeOK, SubsInv, PumpStep
  PROVE  SubsInv'
<1>1. /\ frames \in Seq(Frame) /\ frames # <<>>
      /\ Top \in Frame /\ Len(frames) \in Nat \ {0}
  BY TopType DEF TypeOK, PumpStep, TakeEvent, CallNext, CallbackReturns,
     FinishEvent, EndPump, InCallback, Idle
<1>2. Top.matches \subseteq DOMAIN made
  BY <1>1 DEF SubsInv, Top
<1>3. UNCHANGED <<made, subs, dead>>
  BY DEF PumpStep, TakeEvent, CallNext, CallbackReturns, FinishEvent, EndPump,
     subVars
<1>4. CASE TakeEvent
  <2> DEFINE taken == [Top EXCEPT !.batch = @ - 1, !.phase = "call",
                                  !.event = ring[head], !.snap = Len(made)]
             found == [taken EXCEPT !.matches = Matching(ring[head].topic)]
             spoilt == [taken EXCEPT !.skipped = TRUE]
  <2>1. SetTop(found) \/ SetTop(spoilt)
    BY <1>4 DEF TakeEvent
  <2>2. /\ found.matches = Matching(ring[head].topic)
        /\ spoilt.matches = Top.matches
    BY <1>1 DEF Frame
  <2> HIDE DEF found, spoilt
  <2>3. Matching(ring[head].topic) \subseteq DOMAIN made
    BY DEF Matching, TypeOK
  <2> QED
    BY <1>2, <1>3, <2>1, <2>2, <2>3, SetTopMatches
<1>5. CASE CallNext
  <2>1. PICK s \in Top.matches :
          LET rest == [Top EXCEPT !.matches = Unserved(s)]
          IN  \/ SetTop([rest EXCEPT !.phase = "in", !.calling = s])
              \/ SetTop(rest)
    BY <1>5 DEF CallNext
  <2> DEFINE rest == [Top EXCEPT !.matches = Unserved(s)]
             called == [rest EXCEPT !.phase = "in", !.calling = s]
  <2>2. SetTop(called) \/ SetTop(rest)
    BY <2>1
  <2>3. rest.matches = Top.matches \ {s} /\ called.matches = Top.matches \ {s}
    BY <1>1 DEF Frame, Unserved
  <2> HIDE DEF rest, called
  <2> QED
    BY <1>2, <1>3, <2>2, <2>3, SetTopMatches
<1>6. CASE CallbackReturns
  <2> DEFINE f == [Top EXCEPT !.phase = "call", !.calling = 0, !.delivered = @ + 1]
  <2>1. SetTop(f)
    BY <1>6 DEF CallbackReturns
  <2>2. f.matches = Top.matches
    BY <1>1 DEF Frame
  <2> HIDE DEF f
  <2> QED
    BY <1>2, <1>3, <2>1, <2>2, SetTopMatches
<1>7. CASE FinishEvent
  <2> DEFINE f == [Top EXCEPT !.phase = "take", !.event = NoEvent,
                              !.skipped = FALSE, !.snap = 0]
  <2>1. SetTop(f)
    BY <1>7 DEF FinishEvent
  <2>2. f.matches = Top.matches
    BY <1>1 DEF Frame
  <2> HIDE DEF f
  <2> QED
    BY <1>2, <1>3, <2>1, <2>2, SetTopMatches
<1>8. CASE EndPump
  <2>1. /\ Len(frames') = Len(frames) - 1
        /\ \A i \in 1 .. Len(frames) - 1 : frames'[i] = frames[i]
    BY <1>1, <1>8, PopType DEF EndPump
  <2>2. \A i \in 1 .. Len(frames') : frames'[i].matches \subseteq DOMAIN made'
    BY <1>1, <1>3, <2>1 DEF SubsInv
  <2> QED
    BY <1>3, <2>2 DEF SubsInv
<1> QED
  BY <1>4, <1>5, <1>6, <1>7, <1>8 DEF PumpStep

LEMMA SubsInductive ==
  ASSUME RouterConstants, Fewer, TypeOK, HandleInv, SubsInv, [Next]_vars
  PROVE  SubsInv'
<1>1. CASE \E topic \in Topics : WorkerPublish(topic) \/ MainPublish(topic)
  BY <1>1, SubsKept DEF WorkerPublish, MainPublish, Router_Publish, subVars
<1>2. ASSUME NEW topic \in Topics, NEW owner \in Owners \cup {NoOwner},
             Router_Subscribe(topic, owner)
      PROVE  SubsInv'
  BY <1>2, SubscribeSubs
<1>3. CASE \E s \in DOMAIN made : Router_Unsubscribe(s)
  BY <1>3, UnsubscribeSubs
<1>4. CASE \E owner \in Owners : Router_DropOwner(owner)
  BY <1>4, DropOwnerSubs
<1>5. CASE \E requested \in Capacities : SetCapacity(requested)
  BY <1>5, SubsKept DEF SetCapacity, subVars
<1>6. CASE BeginPump
  BY <1>6, BeginPumpSubs
<1>7. CASE PumpStep
  BY <1>7, PumpStepSubs
<1>8. CASE UNCHANGED vars
  BY <1>8, SubsKept DEF vars, subVars
<1> QED
  BY <1>1, <1>2, <1>3, <1>4, <1>5, <1>6, <1>7, <1>8 DEF Next

\* A callback starts only in CallNext, for a subscription the look-up found.
LEMMA CalledIsAlive ==
  ASSUME RouterConstants, Fewer, TypeOK, HandleInv, SubsInv, [Next]_vars,
         CallStarts
  PROVE  Top'.calling \notin dead
<1>1. /\ frames \in Seq(Frame) /\ frames # <<>> /\ ~Idle
      /\ Top \in Frame /\ Len(frames) \in Nat \ {0}
      /\ Top.phase = "call" /\ frames' # frames /\ Top'.phase = "in"
      /\ frames \in [1 .. Len(frames) -> Frame]
  BY TopType, LenProperties DEF TypeOK, CallStarts, Idle
<1>2. ASSUME NEW f, SetTop(f)
      PROVE  Top' = f
  <2>1. frames' = [frames EXCEPT ![Len(frames)] = f]
    BY <1>2 DEF SetTop
  <2>2. DOMAIN frames' = 1 .. Len(frames) /\ frames'[Len(frames)] = f
    BY <1>1, <2>1
  <2>3. Len(frames') = Len(frames)
    BY <1>1, <2>1
  <2> QED
    BY <2>2, <2>3 DEF Top
<1>3. CallNext
  <2>1. ~TakeEvent /\ ~CallbackReturns /\ ~EndPump /\ ~BeginPump
    BY <1>1 DEF TakeEvent, CallbackReturns, EndPump, BeginPump, MainThreadFree,
       InCallback
  <2>2. ~FinishEvent
    <3> DEFINE f == [Top EXCEPT !.phase = "take", !.event = NoEvent,
                                !.skipped = FALSE, !.snap = 0]
    <3>1. f.phase = "take"
      BY <1>1 DEF Frame
    <3>2. FinishEvent => SetTop(f)
      BY DEF FinishEvent
    <3> HIDE DEF f
    <3> QED
      BY <1>1, <1>2, <3>1, <3>2
  <2>3. \A topic \in Topics : ~WorkerPublish(topic) /\ ~MainPublish(topic)
    BY <1>1 DEF WorkerPublish, MainPublish, Router_Publish
  <2>4. \A topic \in Topics, owner \in Owners \cup {NoOwner} :
          ~Router_Subscribe(topic, owner)
    BY <1>1 DEF Router_Subscribe
  <2>5. /\ \A s \in DOMAIN made : ~Router_Unsubscribe(s)
        /\ \A owner \in Owners : ~Router_DropOwner(owner)
        /\ \A requested \in Capacities : ~SetCapacity(requested)
        /\ ~ UNCHANGED vars
    BY <1>1 DEF Router_Unsubscribe, Router_DropOwner, SetCapacity, vars
  <2> QED
    BY <2>1, <2>2, <2>3, <2>4, <2>5 DEF Next, PumpStep
<1>4. PICK s \in Top.matches :
        LET rest == [Top EXCEPT !.matches = Unserved(s)]
        IN  \/ /\ FindSubscription(made[s].handle) # {}
               /\ SetTop([rest EXCEPT !.phase = "in", !.calling = s])
            \/ SetTop(rest)
  BY <1>3 DEF CallNext
<1> DEFINE rest == [Top EXCEPT !.matches = Unserved(s)]
           called == [rest EXCEPT !.phase = "in", !.calling = s]
<1>5. rest.phase = "call" /\ called.calling = s
  BY <1>1 DEF Frame
<1>6. \/ FindSubscription(made[s].handle) # {} /\ SetTop(called)
      \/ SetTop(rest)
  BY <1>4
<1> HIDE DEF rest, called
<1>7. FindSubscription(made[s].handle) # {} /\ Top'.calling = s
  BY <1>1, <1>2, <1>5, <1>6
<1>8. s \in DOMAIN made
  BY <1>1 DEF SubsInv, Top
<1>9. s \in subs
  BY <1>7, <1>8, LookUp
<1> QED
  BY <1>7, <1>9 DEF SubsInv

LEMMA SubsHold == Fewer => (Spec => []SubsInv)
<1> SUFFICES ASSUME Fewer
             PROVE  Spec => []SubsInv
  OBVIOUS
<1>1. Init => SubsInv
  BY RouterConstants DEF Init, SubsInv, RouterConstants
<1>2. TypeOK /\ HandleInv /\ SubsInv /\ [Next]_vars => SubsInv'
  BY RouterConstants, SubsInductive
<1> QED
  BY <1>1, <1>2, TypeCorrect, HandlesHold, PTL DEF Spec

\* No callback of a subscription that was cancelled, or whose owner was dropped,
\* is started again, by no pump and at no depth, as long as the program makes
\* fewer subscriptions than there are handles.
THEOREM NoLateCallback == Fewer => (Spec => NoCallAfterLeave)
<1> SUFFICES ASSUME Fewer
             PROVE  Spec => NoCallAfterLeave
  OBVIOUS
<1>1. TypeOK /\ HandleInv /\ SubsInv /\ [Next]_vars =>
        [CallStarts => Top'.calling \notin dead]_vars
  BY RouterConstants, CalledIsAlive
<1> QED
  BY <1>1, TypeCorrect, HandlesHold, SubsHold, PTL DEF Spec, NoCallAfterLeave

-----------------------------------------------------------------------------
(***************************************************************************)
(* Delivery: whatever callbacks do to the table and to the queue while a   *)
(* pump hands an event out, each subscription that was there when the      *)
(* pump started and has not left gets it exactly once.                     *)
(***************************************************************************)

-----------------------------------------------------------------------------
(* The invariant, over operators of the values they speak of               *)

\* Event number x was published and comes before the events that wait.
Older(x, last, waiting) ==
  x <= last /\ \A k \in DOMAIN waiting : x < waiting[k].id

\* Pump f holds subscriptions that were made when its event was taken, and none
\* between events.
Holds(f, table) ==
  /\ f.matches \subseteq 1 .. f.snap
  /\ f.snap <= Len(table)
  /\ f.known <= Len(table)
  /\ f.phase = "take" => f.matches = {} /\ ~f.skipped
  /\ f.phase # "take" => f.known <= f.snap

Called(f, calls) == {s \in 1 .. f.snap : <<s, f.event.id>> \in calls}

\* What ExactlyOnce says of pump f, and more: whoever was there when the event
\* was taken gets it, the subscriptions of this pump's callbacks included.
Exact(f, table, calls, left) ==
  f.phase # "take" =>
    /\ Called(f, calls) \cap f.matches = {}
    /\ f.skipped => Called(f, calls) \cup f.matches = {}
    /\ ~f.skipped =>
         \A s \in 1 .. f.snap :
           s \notin left /\ table[s].topic = f.event.topic =>
             s \in Called(f, calls) \cup f.matches

\* A subscription that was made and is not in the table has left.
Left == DOMAIN made \subseteq subs \cup dead

\* A nested pump serves a later event than the pumps below it.
Ascending ==
  \A i, j \in 1 .. Len(frames) :
    i < j /\ frames[j].phase # "take" => frames[i].event.id < frames[j].event.id

DeliveryInv ==
  /\ Left
  /\ Ascending
  /\ \A p \in received : Older(p[2], published, Waiting)
  /\ \A i \in 1 .. Len(frames) :
       /\ Holds(frames[i], made)
       /\ Exact(frames[i], made, received, dead)
       /\ frames[i].phase # "take" => Older(frames[i].event.id, published, Waiting)

-----------------------------------------------------------------------------
(* The queue: what was older than the waiting events stays older           *)

LEMMA WaitingDomain == DOMAIN Waiting = 1 .. queued
  BY DEF Waiting

LEMMA OlderPublish ==
  ASSUME RouterConstants, IInv, NEW topic \in Topics, Router_Publish(topic),
         NEW x \in Nat, Older(x, published, Waiting)
  PROVE  Older(x, published', Waiting')
<1> DEFINE e == [id |-> published + 1, topic |-> topic]
<1>1. /\ published \in Nat /\ published' = published + 1 /\ queued \in Nat
      /\ published < MaxPublished /\ MaxPublished \in Nat
  BY DEF IInv, TypeOK, Router_Publish, RouterConstants
<1>2. e \in Event /\ e.id = published + 1
  BY <1>1 DEF Event
<1>3. UNCHANGED <<capacity, head>>
  BY DEF Router_Publish
<1>4. CASE /\ queued < capacity
           /\ ring' = [ring EXCEPT ![SlotAt(queued)] = e]
           /\ queued' = queued + 1
  <2> HIDE DEF e
  <2>1. /\ \A k \in 1 .. queued : Waiting'[k] = Waiting[k]
        /\ Waiting'[queued + 1] = e
    BY <1>1, <1>2, <1>3, <1>4, AcceptRing DEF IInv
  <2>2. DOMAIN Waiting' = 1 .. queued + 1
    BY <1>4 DEF Waiting
  <2>3. x < published + 1
    BY <1>1 DEF Older
  <2> QED
    BY <1>1, <1>2, <2>1, <2>2, <2>3, WaitingDomain DEF Older
<1>5. CASE UNCHANGED <<ring, queued>>
  <2>1. Waiting' = Waiting
    BY <1>3, <1>5 DEF Waiting, SlotAt
  <2> QED
    BY <1>1, <2>1 DEF Older
<1> QED
  BY <1>4, <1>5 DEF Router_Publish

LEMMA OlderResize ==
  ASSUME RouterConstants, IInv, NEW requested \in Capacities,
         SetCapacity(requested), NEW x \in Nat, Older(x, published, Waiting)
  PROVE  Older(x, published', Waiting')
<1> DEFINE size == IF requested = 0 THEN DefaultCapacity ELSE requested
           keep == IF queued < size THEN queued ELSE size
<1>1. /\ size \in Nat \ {0} /\ keep \in Nat /\ keep <= queued /\ keep <= size
      /\ queued \in Nat
  BY DEF RouterConstants, IInv, TypeOK
<1>2. /\ published' = published /\ capacity' = size /\ head' = 0
      /\ queued' = keep
      /\ ring' = [i \in 0 .. size - 1 |->
                    IF i < keep THEN Survivor(queued - keep, i) ELSE NoEvent]
  BY DEF SetCapacity
<1> HIDE DEF size, keep
<1>3. \A k \in 1 .. keep : Waiting'[k] = Waiting[queued - keep + k]
  BY <1>1, <1>2, ResizeRing DEF IInv
<1>4. DOMAIN Waiting' = 1 .. keep
  BY <1>2 DEF Waiting
<1>5. \A k \in 1 .. keep : queued - keep + k \in 1 .. queued
  BY <1>1
<1> QED
  BY <1>2, <1>3, <1>4, <1>5, WaitingDomain DEF Older

\* The event a pump takes is older than those that stay, and what was older
\* than it still is.
LEMMA OlderTake ==
  ASSUME IInv, TakeEvent
  PROVE  /\ \A x \in Nat :
              Older(x, published, Waiting) =>
                x < ring[head].id /\ Older(x, published', Waiting')
         /\ ring[head] \in Event
         /\ Older(ring[head].id, published', Waiting')
<1>1. /\ queued > 0 /\ queued \in Nat /\ published' = published
      /\ ring' = [ring EXCEPT ![head] = NoEvent] /\ head' = NextHead
      /\ queued' = queued - 1 /\ capacity' = capacity
  BY DEF IInv, TypeOK, TakeEvent, statVars
<1>2. \A k \in 1 .. queued - 1 : Waiting'[k] = Waiting[k + 1]
  BY <1>1, TakeRing DEF IInv
<1>3. ring[head] = Waiting[1] /\ ring[head] \in Event
  BY <1>1, HeadIsOldest DEF IInv
<1>4. DOMAIN Waiting' = 1 .. queued - 1
  BY <1>1 DEF Waiting
<1>5. \A k \in 1 .. queued - 1 : k + 1 \in 1 .. queued /\ 1 < k + 1
  BY <1>1
<1>6. 1 \in 1 .. queued
  BY <1>1
<1>7. /\ Waiting[1].id <= published
      /\ \A k \in 1 .. queued - 1 : Waiting[1].id < Waiting[k + 1].id
  BY <1>5, <1>6 DEF IInv, RingInv
<1> QED
  BY <1>1, <1>2, <1>3, <1>4, <1>5, <1>6, <1>7, WaitingDomain DEF Older

LEMMA OlderUnchanged ==
  ASSUME IInv, UNCHANGED <<queueVars, published>>, NEW x \in Nat,
         Older(x, published, Waiting)
  PROVE  Older(x, published', Waiting')
  BY RingUnchanged DEF IInv

-----------------------------------------------------------------------------
(* Steps of the host and of publishers                                     *)

\* A frame is a frame, and past its "take" phase it holds an event's number.
LEMMA FramesTyped ==
  ASSUME IInv
  PROVE  /\ Len(frames) \in Nat
         /\ \A i \in 1 .. Len(frames) : frames[i] \in Frame
         /\ \A i \in 1 .. Len(frames) :
              frames[i].phase # "take" => frames[i].event.id \in Nat
<1>1. /\ Len(frames) \in Nat
      /\ \A i \in 1 .. Len(frames) : frames[i] \in Frame
  BY LenProperties DEF IInv, TypeOK
<1>2. MaxPublished \in Nat /\ \A e \in Event : e.id \in Nat
  BY RouterConstants DEF RouterConstants, Event
<1> QED
  BY <1>1, <1>2 DEF IInv, FramesShape

\* What a pump has done stays right when subscriptions come and leave.
LEMMA ExactKept ==
  ASSUME TypeOK, NEW f \in Frame, Holds(f, made), Exact(f, made, received, dead),
         NEW table, Len(table) \in Nat, Len(made) <= Len(table),
         \A s \in 1 .. Len(made) : table[s] = made[s],
         NEW left, dead \subseteq left
  PROVE  Holds(f, table) /\ Exact(f, table, received, left)
<1>1. f.snap \in Nat /\ f.known \in Nat /\ Len(made) \in Nat
  BY LenProperties DEF Frame, TypeOK
<1>2. Holds(f, table)
  BY <1>1 DEF Holds
<1>3. \A s \in 1 .. f.snap : table[s] = made[s]
  BY <1>1 DEF Holds
<1> QED
  BY <1>2, <1>3 DEF Exact

\* A step of the host, or of a publisher, leaves every pump's work right.
LEMMA HostDelivery ==
  ASSUME IInv, DeliveryInv, UNCHANGED <<frames, received>>,
         Len(made') \in Nat, Len(made) <= Len(made'),
         \A s \in 1 .. Len(made) : made'[s] = made[s],
         dead \subseteq dead', Left',
         \A x \in Nat : Older(x, published, Waiting) =>
                          Older(x, published', Waiting')
  PROVE  DeliveryInv'
<1>1. Ascending'
  BY DEF DeliveryInv, Ascending
<1>2. \A p \in received' : Older(p[2], published', Waiting')
  BY DEF DeliveryInv, IInv, TypeOK
<1>3. ASSUME NEW i \in 1 .. Len(frames')
      PROVE  /\ Holds(frames'[i], made')
             /\ Exact(frames'[i], made', received', dead')
             /\ frames'[i].phase # "take" =>
                  Older(frames'[i].event.id, published', Waiting')
  <2>1. /\ frames[i] \in Frame /\ Holds(frames[i], made)
        /\ Exact(frames[i], made, received, dead)
        /\ frames[i].phase # "take" =>
             /\ frames[i].event.id \in Nat
             /\ Older(frames[i].event.id, published, Waiting)
    BY <1>3, FramesTyped DEF DeliveryInv
  <2>2. Holds(frames[i], made') /\ Exact(frames[i], made', received, dead')
    BY <2>1, ExactKept DEF IInv
  <2> QED
    BY <2>1, <2>2
<1> QED
  BY <1>1, <1>2, <1>3 DEF DeliveryInv

LEMMA PublishDelivery ==
  ASSUME RouterConstants, IInv, DeliveryInv, NEW topic \in Topics,
         Router_Publish(topic)
  PROVE  DeliveryInv'
<1>1. UNCHANGED <<frames, received, made, subs, dead>> /\ Len(made) \in Nat
  BY LenProperties DEF Router_Publish, subVars, IInv, TypeOK
<1>2. Left'
  BY <1>1 DEF Left, DeliveryInv
<1>3. \A x \in Nat : Older(x, published, Waiting) => Older(x, published', Waiting')
  BY OlderPublish
<1> QED
  BY <1>1, <1>2, <1>3, HostDelivery

LEMMA ResizeDelivery ==
  ASSUME RouterConstants, IInv, DeliveryInv, NEW requested \in Capacities,
         SetCapacity(requested)
  PROVE  DeliveryInv'
<1>1. UNCHANGED <<frames, received, made, subs, dead>> /\ Len(made) \in Nat
  BY LenProperties DEF SetCapacity, subVars, IInv, TypeOK
<1>2. Left'
  BY <1>1 DEF Left, DeliveryInv
<1>3. \A x \in Nat : Older(x, published, Waiting) => Older(x, published', Waiting')
  BY OlderResize
<1> QED
  BY <1>1, <1>2, <1>3, HostDelivery

LEMMA SubscribeDelivery ==
  ASSUME RouterConstants, IInv, DeliveryInv, NEW topic \in Topics,
         NEW owner \in Owners \cup {NoOwner}, Router_Subscribe(topic, owner)
  PROVE  DeliveryInv'
<1>1. /\ Len(made) \in Nat /\ DOMAIN made = 1 .. Len(made)
      /\ Len(made') = Len(made) + 1 /\ DOMAIN made' = 1 .. Len(made) + 1
      /\ \A s \in 1 .. Len(made) : made'[s] = made[s]
  BY LenProperties DEF IInv, TypeOK, Router_Subscribe
<1>2. UNCHANGED <<frames, received, dead, queueVars, published>>
  BY DEF Router_Subscribe, statVars
<1>3. Left'
  BY <1>1, <1>2 DEF Left, DeliveryInv, Router_Subscribe
<1>4. \A x \in Nat : Older(x, published, Waiting) => Older(x, published', Waiting')
  BY <1>2, OlderUnchanged
<1> QED
  BY <1>1, <1>2, <1>3, <1>4, HostDelivery

LEMMA UnsubscribeDelivery ==
  ASSUME RouterConstants, Fewer, IInv, HandleInv, SubsInv, DeliveryInv,
         NEW s \in DOMAIN made, Router_Unsubscribe(s)
  PROVE  DeliveryInv'
<1>1. FindSubscription(made[s].handle) = subs \cap {s}
  BY LookUp DEF IInv
<1>2. subs' = subs \ {s} /\ dead' = dead \cup {s}
  BY <1>1 DEF Router_Unsubscribe, Oldest
<1>3. UNCHANGED <<made, frames, received, queueVars, published>> /\ Len(made) \in Nat
  BY LenProperties DEF Router_Unsubscribe, statVars, IInv, TypeOK
<1>4. Left'
  BY <1>2, <1>3 DEF Left, DeliveryInv
<1>5. \A x \in Nat : Older(x, published, Waiting) => Older(x, published', Waiting')
  BY <1>3, OlderUnchanged
<1> QED
  BY <1>2, <1>3, <1>4, <1>5, HostDelivery

LEMMA DropOwnerDelivery ==
  ASSUME IInv, DeliveryInv, NEW owner \in Owners, Router_DropOwner(owner)
  PROVE  DeliveryInv'
<1>1. /\ subs' = subs \ OwnedBy(owner)
      /\ dead' = dead \cup {s \in DOMAIN made : made[s].owner = owner}
  BY DEF Router_DropOwner
<1>2. UNCHANGED <<made, frames, received, queueVars, published>> /\ Len(made) \in Nat
  BY LenProperties DEF Router_DropOwner, IInv, TypeOK
<1>3. Left'
  BY <1>1, <1>2 DEF Left, DeliveryInv, OwnedBy
<1>4. \A x \in Nat : Older(x, published, Waiting) => Older(x, published', Waiting')
  BY <1>2, OlderUnchanged
<1> QED
  BY <1>1, <1>2, <1>3, <1>4, HostDelivery

-----------------------------------------------------------------------------
(* Steps of the pump                                                       *)

LEMMA BeginPumpDelivery ==
  ASSUME IInv, DeliveryInv, BeginPump
  PROVE  DeliveryInv'
<1> DEFINE new == [batch |-> Batch, phase |-> "take", event |-> NoEvent,
                   matches |-> {}, calling |-> 0, delivered |-> 0,
                   skipped |-> FALSE, known |-> Len(made), snap |-> 0]
<1>1. frames' = Append(frames, new)
  BY DEF BeginPump
<1>2. Len(made) \in Nat /\ frames \in Seq(Frame)
  BY LenProperties DEF IInv, TypeOK
<1>3. /\ new.phase = "take" /\ Holds(new, made)
      /\ Exact(new, made, received, dead)
  BY <1>2 DEF Holds, Exact
<1> HIDE DEF new
<1>4. /\ Len(frames) \in Nat /\ Len(frames') = Len(frames) + 1
      /\ \A i \in 1 .. Len(frames) : frames'[i] = frames[i]
      /\ frames'[Len(frames) + 1] = new
  BY <1>1, <1>2
<1>5. UNCHANGED <<made, subs, dead, received, queueVars, published>>
  BY DEF BeginPump, subVars, statVars
<1>6. Waiting' = Waiting
  BY <1>5, RingUnchanged DEF IInv
<1>7. Left'
  BY <1>5 DEF Left, DeliveryInv
<1>8. Ascending'
  BY <1>3, <1>4 DEF Ascending, DeliveryInv
<1>9. \A p \in received' : Older(p[2], published', Waiting')
  BY <1>5, <1>6 DEF DeliveryInv
<1>10. \A i \in 1 .. Len(frames') :
         /\ Holds(frames'[i], made')
         /\ Exact(frames'[i], made', received', dead')
         /\ frames'[i].phase # "take" =>
              Older(frames'[i].event.id, published', Waiting')
  BY <1>3, <1>4, <1>5, <1>6 DEF DeliveryInv
<1> QED
  BY <1>7, <1>8, <1>9, <1>10 DEF DeliveryInv

\* The innermost pump goes on as frame f, which does its work right, and what
\* the pumps below have done stays right.
LEMMA InnermostDelivery ==
  ASSUME IInv, DeliveryInv, ~Idle, NEW f, SetTop(f),
         UNCHANGED <<made, subs, dead>>,
         Holds(f, made), Exact(f, made, received', dead),
         f.phase # "take" =>
           /\ Older(f.event.id, published', Waiting')
           /\ \A i \in 1 .. Len(frames) - 1 : frames[i].event.id < f.event.id,
         \A i \in 1 .. Len(frames) - 1 : Exact(frames[i], made, received', dead),
         \A p \in received' : Older(p[2], published', Waiting'),
         \A x \in Nat : Older(x, published, Waiting) =>
                          Older(x, published', Waiting')
  PROVE  DeliveryInv'
<1>1. /\ frames \in [1 .. Len(frames) -> Frame] /\ Len(frames) \in Nat \ {0}
  BY TopType, LenProperties DEF IInv, TypeOK, Idle
<1>2. /\ frames' \in [1 .. Len(frames) -> {f} \cup Frame]
      /\ Len(frames') = Len(frames)
      /\ frames'[Len(frames)] = f
      /\ \A i \in 1 .. Len(frames) - 1 : frames'[i] = frames[i]
  BY <1>1 DEF SetTop
<1>3. \A i \in 1 .. Len(frames) : i = Len(frames) \/ i \in 1 .. Len(frames) - 1
  BY <1>1
<1>4. Left'
  BY DEF Left, DeliveryInv
<1>5. Ascending'
  <2> SUFFICES ASSUME NEW i \in 1 .. Len(frames), NEW j \in 1 .. Len(frames),
                      i < j, frames'[j].phase # "take"
               PROVE  frames'[i].event.id < frames'[j].event.id
    BY <1>2 DEF Ascending
  <2>1. i \in 1 .. Len(frames) - 1
    BY <1>1
  <2>2. CASE j = Len(frames)
    BY <1>2, <2>1, <2>2
  <2>3. CASE j \in 1 .. Len(frames) - 1
    BY <1>2, <2>1, <2>3 DEF DeliveryInv, Ascending
  <2> QED
    BY <1>3, <2>2, <2>3
<1>6. ASSUME NEW i \in 1 .. Len(frames)
      PROVE  /\ Holds(frames'[i], made')
             /\ Exact(frames'[i], made', received', dead')
             /\ frames'[i].phase # "take" =>
                  Older(frames'[i].event.id, published', Waiting')
  <2>1. CASE i = Len(frames)
    BY <1>2, <2>1
  <2>2. CASE i \in 1 .. Len(frames) - 1
    BY <1>2, <2>2, FramesTyped DEF DeliveryInv
  <2> QED
    BY <1>3, <2>1, <2>2
<1> QED
  BY <1>2, <1>4, <1>5, <1>6 DEF DeliveryInv

\* What is known of the innermost pump and of those below it.
LEMMA Innermost ==
  ASSUME IInv, DeliveryInv, ~Idle
  PROVE  /\ Top \in Frame /\ Len(frames) \in Nat \ {0}
         /\ Top = frames[Len(frames)]
         /\ Holds(Top, made) /\ Exact(Top, made, received, dead)
         /\ Top.phase # "take" =>
              /\ Top.event.id \in Nat
              /\ Older(Top.event.id, published, Waiting)
              /\ \A i \in 1 .. Len(frames) - 1 : frames[i].event.id < Top.event.id
         /\ \A i \in 1 .. Len(frames) - 1 :
              /\ frames[i] \in Frame
              /\ Exact(frames[i], made, received, dead)
              /\ frames[i].event.id \in Nat
              /\ Older(frames[i].event.id, published, Waiting)
<1>1. /\ Top \in Frame /\ Len(frames) \in Nat \ {0}
      /\ Top = frames[Len(frames)] /\ Len(frames) \in 1 .. Len(frames)
  BY TopType DEF IInv, TypeOK, Top
<1>2. \A i \in 1 .. Len(frames) - 1 :
        i \in 1 .. Len(frames) /\ i < Len(frames) /\ frames[i].phase # "take"
  BY <1>1 DEF IInv, FramesShape
<1> QED
  BY <1>1, <1>2, FramesTyped DEF DeliveryInv, Ascending

LEMMA TakeEventDelivery ==
  ASSUME IInv, DeliveryInv, TakeEvent
  PROVE  DeliveryInv'
<1> DEFINE e == ring[head]
           taken == [Top EXCEPT !.batch = @ - 1, !.phase = "call",
                                !.event = e, !.snap = Len(made)]
           found == [taken EXCEPT !.matches = Matching(e.topic)]
           spoilt == [taken EXCEPT !.skipped = TRUE]
<1>1. ~Idle /\ Top.phase = "take"
  BY DEF TakeEvent
<1>2. /\ Top \in Frame
      /\ Holds(Top, made)
      /\ \A i \in 1 .. Len(frames) - 1 :
           /\ Exact(frames[i], made, received, dead)
           /\ frames[i].event.id \in Nat
           /\ Older(frames[i].event.id, published, Waiting)
  BY <1>1, Innermost
<1>3. UNCHANGED <<made, subs, dead, received, published>> /\ Len(made) \in Nat
  BY LenProperties DEF TakeEvent, subVars, statVars, IInv, TypeOK
<1>4. /\ \A x \in Nat : Older(x, published, Waiting) =>
           x < e.id /\ Older(x, published', Waiting')
      /\ Older(e.id, published', Waiting')
      /\ e \in Event
  BY OlderTake
<1>5. SetTop(found) \/ SetTop(spoilt)
  BY DEF TakeEvent
<1>6. /\ found.phase = "call" /\ found.event = e /\ found.snap = Len(made)
      /\ found.matches = Matching(e.topic) /\ found.known = Top.known
      /\ found.skipped = Top.skipped
      /\ spoilt.phase = "call" /\ spoilt.event = e /\ spoilt.snap = Len(made)
      /\ spoilt.matches = {} /\ spoilt.known = Top.known /\ spoilt.skipped
  BY <1>1, <1>2 DEF Frame, Holds
<1> HIDE DEF e, found, spoilt
<1>7. Matching(e.topic) \subseteq 1 .. Len(made) /\ DOMAIN made = 1 .. Len(made)
  BY LenProperties DEF Matching, IInv, TypeOK
<1>8. Holds(found, made) /\ Holds(spoilt, made)
  BY <1>2, <1>3, <1>6, <1>7 DEF Holds
<1>9. \A p \in received : p[2] < e.id /\ Older(p[2], published', Waiting')
  BY <1>4 DEF DeliveryInv, IInv, TypeOK
<1>10. /\ Called(found, received) = {} /\ Called(spoilt, received) = {}
  <2>1. e.id \in Nat
    BY <1>4, RouterConstants DEF Event, RouterConstants
  <2>2. \A s \in Nat : <<s, e.id>> \notin received
    BY <1>9, <2>1
  <2> QED
    BY <1>3, <1>6, <2>2 DEF Called
<1>11. Exact(found, made, received, dead) /\ Exact(spoilt, made, received, dead)
  <2>1. \A s \in 1 .. Len(made) :
          s \notin dead /\ made[s].topic = e.topic => s \in Matching(e.topic)
    BY <1>7 DEF Matching, DeliveryInv, Left
  <2>2. ~Top.skipped
    BY <1>1, <1>2 DEF Holds
  <2> QED
    BY <1>6, <1>10, <2>1, <2>2 DEF Exact
<1>12. \A i \in 1 .. Len(frames) - 1 : frames[i].event.id < e.id
  BY <1>2, <1>4
<1>13. ASSUME NEW f \in {found, spoilt}, SetTop(f)
       PROVE  DeliveryInv'
  <2>1. /\ Holds(f, made) /\ Exact(f, made, received', dead)
        /\ f.event = e
    BY <1>3, <1>6, <1>8, <1>11, <1>13
  <2>2. /\ Older(f.event.id, published', Waiting')
        /\ \A i \in 1 .. Len(frames) - 1 : frames[i].event.id < f.event.id
    BY <1>4, <1>12, <2>1
  <2>3. /\ \A i \in 1 .. Len(frames) - 1 : Exact(frames[i], made, received', dead)
        /\ \A p \in received' : Older(p[2], published', Waiting')
    BY <1>2, <1>3, <1>9
  <2> QED
    BY <1>1, <1>3, <1>4, <1>13, <2>1, <2>2, <2>3, InnermostDelivery
<1> QED
  BY <1>5, <1>13

\* The look-up fails only for a subscription that has left; a call is recorded
\* for this pump's event alone.
LEMMA CallNextDelivery ==
  ASSUME RouterConstants, Fewer, IInv, HandleInv, SubsInv, DeliveryInv, CallNext
  PROVE  DeliveryInv'
<1>1. ~Idle /\ Top.phase = "call"
  BY DEF CallNext
<1>2. /\ Top \in Frame /\ Len(frames) \in Nat \ {0}
      /\ Top = frames[Len(frames)]
      /\ Holds(Top, made) /\ Exact(Top, made, received, dead)
      /\ Top.event.id \in Nat /\ Older(Top.event.id, published, Waiting)
      /\ \A i \in 1 .. Len(frames) - 1 :
           /\ frames[i].event.id < Top.event.id
           /\ frames[i] \in Frame
           /\ Exact(frames[i], made, received, dead)
           /\ frames[i].event.id \in Nat
  BY <1>1, Innermost
<1>3. UNCHANGED <<made, subs, dead, queueVars, published>>
  BY DEF CallNext, subVars, statVars
<1>4. Waiting' = Waiting
  BY <1>3, RingUnchanged DEF IInv
<1> DEFINE rest(s) == [Top EXCEPT !.matches = Unserved(s)]
           called(s) == [rest(s) EXCEPT !.phase = "in", !.calling = s]
<1>5. PICK s \in Top.matches :
        \/ /\ FindSubscription(made[s].handle) # {}
           /\ SetTop(called(s))
           /\ received' = received \cup {<<s, Top.event.id>>}
        \/ /\ FindSubscription(made[s].handle) = {}
           /\ SetTop(rest(s))
           /\ UNCHANGED received
  BY DEF CallNext
<1> DEFINE g == called(s)
           h == rest(s)
<1>6. /\ g.phase = "in" /\ g.event = Top.event /\ g.snap = Top.snap
      /\ g.matches = Top.matches \ {s} /\ g.skipped = Top.skipped
      /\ g.known = Top.known
      /\ h.phase = "call" /\ h.event = Top.event /\ h.snap = Top.snap
      /\ h.matches = Top.matches \ {s} /\ h.skipped = Top.skipped
      /\ h.known = Top.known
  BY <1>1, <1>2 DEF Frame, Unserved
<1>7. \/ /\ FindSubscription(made[s].handle) # {}
         /\ SetTop(g)
         /\ received' = received \cup {<<s, Top.event.id>>}
      \/ /\ FindSubscription(made[s].handle) = {}
         /\ SetTop(h)
         /\ UNCHANGED received
  BY <1>5
<1> HIDE DEF g, h, rest, called
<1>8. /\ s \in 1 .. Top.snap
      /\ Holds(g, made) /\ Holds(h, made)
  BY <1>1, <1>2, <1>6 DEF Holds
<1>9. \A x \in Nat : Older(x, published, Waiting) => Older(x, published', Waiting')
  BY <1>3, <1>4
<1>10. CASE /\ SetTop(g)
            /\ received' = received \cup {<<s, Top.event.id>>}
  <2>1. Called(g, received') = Called(Top, received) \cup {s}
    BY <1>6, <1>8, <1>10 DEF Called
  <2>2. Exact(g, made, received', dead)
    BY <1>1, <1>2, <1>6, <2>1 DEF Exact
  <2>3. ASSUME NEW i \in 1 .. Len(frames) - 1
        PROVE  Exact(frames[i], made, received', dead)
    <3>1. frames[i].event.id # Top.event.id
      BY <1>2, <2>3
    <3>2. Called(frames[i], received') = Called(frames[i], received)
      BY <1>10, <3>1 DEF Called
    <3> QED
      BY <1>2, <3>2 DEF Exact
  <2>4. \A p \in received' : Older(p[2], published', Waiting')
    BY <1>2, <1>3, <1>4, <1>10 DEF DeliveryInv
  <2>5. /\ Older(g.event.id, published', Waiting')
        /\ \A i \in 1 .. Len(frames) - 1 : frames[i].event.id < g.event.id
    BY <1>2, <1>3, <1>4, <1>6
  <2> QED
    BY <1>1, <1>3, <1>8, <1>9, <1>10, <2>2, <2>3, <2>4, <2>5, InnermostDelivery
<1>11. CASE /\ FindSubscription(made[s].handle) = {}
            /\ SetTop(h)
            /\ UNCHANGED received
  <2>1. s \in DOMAIN made
    BY <1>2 DEF SubsInv
  <2>2. s \in dead
    BY <1>11, <2>1, LookUp DEF IInv, DeliveryInv, Left
  <2>3. Called(h, received) = Called(Top, received)
    BY <1>6 DEF Called
  <2>4. Exact(h, made, received', dead)
    BY <1>1, <1>2, <1>6, <1>11, <2>2, <2>3 DEF Exact
  <2>5. /\ \A i \in 1 .. Len(frames) - 1 : Exact(frames[i], made, received', dead)
        /\ \A p \in received' : Older(p[2], published', Waiting')
    BY <1>2, <1>3, <1>4, <1>11 DEF DeliveryInv
  <2>6. /\ Older(h.event.id, published', Waiting')
        /\ \A i \in 1 .. Len(frames) - 1 : frames[i].event.id < h.event.id
    BY <1>2, <1>3, <1>4, <1>6
  <2> QED
    BY <1>1, <1>3, <1>8, <1>9, <1>11, <2>4, <2>5, <2>6, InnermostDelivery
<1> QED
  BY <1>7, <1>10, <1>11

LEMMA CallbackReturnsDelivery ==
  ASSUME IInv, DeliveryInv, CallbackReturns
  PROVE  DeliveryInv'
<1> DEFINE f == [Top EXCEPT !.phase = "call", !.calling = 0, !.delivered = @ + 1]
<1>1. ~Idle /\ Top.phase = "in" /\ SetTop(f)
  BY DEF CallbackReturns, InCallback
<1>2. /\ Top \in Frame
      /\ Holds(Top, made) /\ Exact(Top, made, received, dead)
      /\ Older(Top.event.id, published, Waiting)
      /\ \A i \in 1 .. Len(frames) - 1 :
           /\ frames[i].event.id < Top.event.id
           /\ Exact(frames[i], made, received, dead)
  BY <1>1, Innermost
<1>3. UNCHANGED <<made, subs, dead, received, queueVars, published>>
  BY DEF CallbackReturns, subVars, statVars
<1>4. Waiting' = Waiting
  BY <1>3, RingUnchanged DEF IInv
<1>5. /\ f.phase = "call" /\ f.event = Top.event /\ f.snap = Top.snap
      /\ f.matches = Top.matches /\ f.skipped = Top.skipped
      /\ f.known = Top.known
  BY <1>2 DEF Frame
<1> HIDE DEF f
<1>6. Holds(f, made) /\ Exact(f, made, received', dead)
  BY <1>1, <1>2, <1>3, <1>5 DEF Holds, Exact, Called
<1>7. /\ Older(f.event.id, published', Waiting')
      /\ \A i \in 1 .. Len(frames) - 1 :
           /\ frames[i].event.id < f.event.id
           /\ Exact(frames[i], made, received', dead)
      /\ \A p \in received' : Older(p[2], published', Waiting')
  BY <1>2, <1>3, <1>4, <1>5 DEF DeliveryInv
<1>8. \A x \in Nat : Older(x, published, Waiting) => Older(x, published', Waiting')
  BY <1>3, <1>4
<1> QED
  BY <1>1, <1>3, <1>6, <1>7, <1>8, InnermostDelivery

LEMMA FinishEventDelivery ==
  ASSUME IInv, DeliveryInv, FinishEvent
  PROVE  DeliveryInv'
<1> DEFINE f == [Top EXCEPT !.phase = "take", !.event = NoEvent,
                            !.skipped = FALSE, !.snap = 0]
<1>1. ~Idle /\ Top.phase = "call" /\ Top.matches = {} /\ SetTop(f)
  BY DEF FinishEvent
<1>2. /\ Top \in Frame /\ Holds(Top, made)
      /\ \A i \in 1 .. Len(frames) - 1 : Exact(frames[i], made, received, dead)
  BY <1>1, Innermost
<1>3. UNCHANGED <<made, subs, dead, received, queueVars, published>>
      /\ Len(made) \in Nat
  BY LenProperties DEF FinishEvent, subVars, IInv, TypeOK
<1>4. Waiting' = Waiting
  BY <1>3, RingUnchanged DEF IInv
<1>5. /\ f.phase = "take" /\ f.matches = {} /\ f.snap = 0
      /\ f.known = Top.known /\ ~f.skipped
  BY <1>1, <1>2 DEF Frame
<1> HIDE DEF f
<1>6. Holds(f, made) /\ Exact(f, made, received', dead)
  BY <1>2, <1>3, <1>5 DEF Holds, Exact
<1>7. /\ \A i \in 1 .. Len(frames) - 1 : Exact(frames[i], made, received', dead)
      /\ \A p \in received' : Older(p[2], published', Waiting')
  BY <1>2, <1>3, <1>4 DEF DeliveryInv
<1>8. \A x \in Nat : Older(x, published, Waiting) => Older(x, published', Waiting')
  BY <1>3, <1>4
<1> QED
  BY <1>1, <1>3, <1>5, <1>6, <1>7, <1>8, InnermostDelivery

LEMMA EndPumpDelivery ==
  ASSUME IInv, DeliveryInv, EndPump
  PROVE  DeliveryInv'
<1>1. frames \in Seq(Frame) /\ frames # <<>> /\ Len(frames) \in Nat \ {0}
  BY TopType DEF EndPump, IInv, TypeOK, Idle
<1>2. /\ Len(frames') = Len(frames) - 1
      /\ \A i \in 1 .. Len(frames) - 1 : frames'[i] = frames[i]
  BY <1>1, PopType DEF EndPump
<1>3. UNCHANGED <<made, subs, dead, received, queueVars, published>>
  BY DEF EndPump, subVars
<1>4. Waiting' = Waiting
  BY <1>3, RingUnchanged DEF IInv
<1>5. \A i \in 1 .. Len(frames') : i \in 1 .. Len(frames) /\ frames'[i] = frames[i]
  BY <1>1, <1>2
<1>6. Left'
  BY <1>3 DEF Left, DeliveryInv
<1>7. Ascending'
  BY <1>5 DEF Ascending, DeliveryInv
<1> QED
  BY <1>3, <1>4, <1>5, <1>6, <1>7 DEF DeliveryInv

-----------------------------------------------------------------------------
(* The theorem                                                             *)

LEMMA DeliveryInductive ==
  ASSUME RouterConstants, Fewer, IInv, HandleInv, SubsInv, DeliveryInv,
         [Next]_vars
  PROVE  DeliveryInv'
<1>1. CASE \E topic \in Topics : WorkerPublish(topic) \/ MainPublish(topic)
  BY <1>1, PublishDelivery DEF WorkerPublish, MainPublish
<1>2. ASSUME NEW topic \in Topics, NEW owner \in Owners \cup {NoOwner},
             Router_Subscribe(topic, owner)
      PROVE  DeliveryInv'
  BY <1>2, SubscribeDelivery
<1>3. CASE \E s \in DOMAIN made : Router_Unsubscribe(s)
  BY <1>3, UnsubscribeDelivery
<1>4. CASE \E owner \in Owners : Router_DropOwner(owner)
  BY <1>4, DropOwnerDelivery
<1>5. CASE \E requested \in Capacities : SetCapacity(requested)
  BY <1>5, ResizeDelivery
<1>6. CASE BeginPump
  BY <1>6, BeginPumpDelivery
<1>7. CASE PumpStep
  BY <1>7, TakeEventDelivery, CallNextDelivery, CallbackReturnsDelivery,
     FinishEventDelivery, EndPumpDelivery DEF PumpStep
<1>8. CASE UNCHANGED vars
  <2>1. UNCHANGED <<made, subs, dead, frames, received, queueVars, published>>
        /\ Len(made) \in Nat
    BY <1>8, LenProperties DEF vars, subVars, statVars, IInv, TypeOK
  <2>2. Left'
    BY <2>1 DEF Left, DeliveryInv
  <2>3. \A x \in Nat : Older(x, published, Waiting) =>
                         Older(x, published', Waiting')
    BY <2>1, OlderUnchanged
  <2> QED
    BY <2>1, <2>2, <2>3, HostDelivery
<1> QED
  BY <1>1, <1>2, <1>3, <1>4, <1>5, <1>6, <1>7, <1>8 DEF Next

\* Every subscription that existed when a pump started, wants the topic of an
\* event it takes and has not left is called for it once and only once, at every depth of
\* nested pumps, whatever the callbacks add, cancel, resize and publish, as long
\* as the program makes fewer subscriptions than there are handles.
THEOREM DeliveredExactlyOnce == Fewer => (Spec => []ExactlyOnce)
<1> SUFFICES ASSUME Fewer
             PROVE  Spec => []ExactlyOnce
  OBVIOUS
<1>1. Init => DeliveryInv
  <2> SUFFICES ASSUME Init
               PROVE  DeliveryInv
    OBVIOUS
  <2>1. DOMAIN made = {} /\ Len(frames) = 0
    BY DEF Init
  <2> QED
    BY <2>1 DEF Init, DeliveryInv, Left, Ascending
<1>2. IInv /\ HandleInv /\ SubsInv /\ DeliveryInv /\ [Next]_vars => DeliveryInv'
  BY RouterConstants, DeliveryInductive
<1>3. IInv /\ DeliveryInv => ExactlyOnce
  <2> SUFFICES ASSUME IInv, DeliveryInv
               PROVE  ExactlyOnce
    OBVIOUS
  <2>1. /\ DOMAIN frames = 1 .. Len(frames)
        /\ \A i \in 1 .. Len(frames) : frames[i] \in Frame
    BY LenProperties DEF IInv, TypeOK
  <2>2. ASSUME NEW i \in 1 .. Len(frames), frames[i].phase # "take"
        PROVE  1 .. frames[i].known \subseteq 1 .. frames[i].snap
    BY <2>1, <2>2 DEF DeliveryInv, Holds, Frame
  <2> QED
    BY <2>1, <2>2 DEF ExactlyOnce, DeliveryInv, Exact, Called
<1> QED
  BY <1>1, <1>2, <1>3, Inductive, HandlesHold, SubsHold, PTL DEF Spec

-----------------------------------------------------------------------------
(***************************************************************************)
(* The order of deliveries, and what a pump may not deliver, for callbacks *)
(* that do not pump: a nested pump serves later events before the outer    *)
(* one has served its own, and what a callback published before it nested. *)
(***************************************************************************)

NoNesting == MaxDepth = 1

\* What was delivered is older than what waits; what the pump hands out is the
\* newest of it and goes to those who have not seen it yet.
OrderInv ==
  /\ Len(frames) <= 1
  /\ \A p \in received : Older(p[2], published, Waiting)
  /\ ~Idle /\ Top.phase # "take" =>
       /\ Older(Top.event.id, published, Waiting)
       /\ \A p \in received : p[2] <= Top.event.id
       /\ \A s \in Top.matches : <<s, Top.event.id>> \notin received

\* The batch of a pump is waiting, and older than what its callbacks published.
BatchInv ==
  /\ Len(frames) <= 1
  /\ \A x \in inside : x <= published
  /\ Idle => inside = {}
  /\ ~Idle =>
       /\ Top.batch <= queued
       /\ \A k \in 1 .. Top.batch : Waiting[k].id \notin inside
       /\ Top.phase # "take" => Top.event.id <= published /\ Top.event.id \notin inside

LEMMA NewTop ==
  ASSUME IInv, ~Idle, NEW f, SetTop(f)
  PROVE  Len(frames') = Len(frames) /\ Top' = f /\ ~Idle'
<1>1. /\ frames \in [1 .. Len(frames) -> Frame] /\ Len(frames) \in Nat \ {0}
  BY TopType, LenProperties DEF IInv, TypeOK, Idle
<1>2. /\ frames' \in [1 .. Len(frames) -> {f} \cup Frame]
      /\ Len(frames') = Len(frames)
      /\ frames'[Len(frames)] = f
  BY <1>1 DEF SetTop
<1>3. frames' # <<>>
  BY <1>1, <1>2
<1>. QED
  BY <1>2, <1>3 DEF Top, Idle

\* Beginning a pump puts it on an empty stack, ending it empties the stack.
LEMMA OnlyPump ==
  ASSUME IInv, NoNesting, Len(frames) <= 1
  PROVE  /\ BeginPump => /\ Idle /\ ~Idle' /\ Len(frames') = 1
                         /\ Top'.phase = "take" /\ Top'.batch = queued
         /\ EndPump => Idle' /\ Len(frames') = 0 /\ inside' = {}
<1>1. frames \in Seq(Frame) /\ Len(frames) \in Nat
  BY LenProperties DEF IInv, TypeOK
<1>2. ASSUME BeginPump
      PROVE  /\ Idle /\ ~Idle' /\ Len(frames') = 1
             /\ Top'.phase = "take" /\ Top'.batch = queued
  <2> DEFINE new == [batch |-> Batch, phase |-> "take", event |-> NoEvent,
                     matches |-> {}, calling |-> 0, delivered |-> 0,
                     skipped |-> FALSE, known |-> Len(made), snap |-> 0]
  <2>1. frames' = Append(frames, new)
    BY <1>2 DEF BeginPump
  <2>2. new.phase = "take" /\ new.batch = queued
    BY DEF Batch
  <2> HIDE DEF new
  <2>3. Len(frames) = 0
    BY <1>1, <1>2 DEF BeginPump, NoNesting
  <2>4. frames = <<>>
    BY <1>1, <2>3, EmptySeq
  <2>5. Len(frames') = 1 /\ frames'[1] = new /\ frames' # <<>>
    BY <2>1, <2>4
  <2>. QED
    BY <2>2, <2>4, <2>5 DEF Idle, Top
<1>3. ASSUME EndPump
      PROVE  Idle' /\ Len(frames') = 0 /\ inside' = {}
  <2>1. ~Idle
    BY <1>3 DEF EndPump
  <2>2. Len(frames) \in Nat \ {0}
    BY <1>1, <2>1, TopType
  <2>3. Len(frames) = 1
    <3> DEFINE n == Len(frames)
    <3>1. n \in Nat /\ n # 0 /\ n <= 1
      BY <2>2
    <3> HIDE DEF n
    <3>2. n = 1
      BY <3>1
    <3>. QED
      BY <3>2 DEF n
  <2>4. frames # <<>>
    BY <2>1 DEF Idle
  <2>5. frames' \in Seq(Frame) /\ Len(frames') = 0
    BY <1>1, <1>3, <2>3, <2>4, PopType DEF EndPump
  <2>6. frames' = <<>>
    BY <2>5, EmptySeq
  <2>. QED
    BY <1>3, <2>3, <2>5, <2>6 DEF EndPump, Idle
<1>. QED
  BY <1>2, <1>3

-----------------------------------------------------------------------------
(* Order                                                                   *)

\* A step that delivers nothing and leaves the pump alone.
LEMMA HostOrder ==
  ASSUME IInv, OrderInv, UNCHANGED <<frames, received>>,
         \A x \in Nat : Older(x, published, Waiting) => Older(x, published', Waiting')
  PROVE  OrderInv'
<1>1. \A p \in received : p[2] \in Nat
  BY DEF IInv, TypeOK
<1>2. Top' = Top /\ (Idle' <=> Idle)
  BY DEF Top, Idle
<1>3. ~Idle /\ Top.phase # "take" => Top.event.id \in Nat
  <2>1. ~Idle => Top = frames[Len(frames)] /\ Len(frames) \in 1 .. Len(frames)
    BY TopType DEF IInv, TypeOK, Top
  <2>. QED
    BY <2>1, FramesTyped
<1>. QED
  BY <1>1, <1>2, <1>3 DEF OrderInv

LEMMA PumpOrder ==
  ASSUME IInv, OrderInv, ~Idle, NEW f, SetTop(f),
         \A p \in received' : Older(p[2], published', Waiting'),
         f.phase # "take" =>
           /\ Older(f.event.id, published', Waiting')
           /\ \A p \in received' : p[2] <= f.event.id
           /\ \A s \in f.matches : <<s, f.event.id>> \notin received'
  PROVE  OrderInv'
BY NewTop DEF OrderInv

LEMMA TakeOrder ==
  ASSUME IInv, OrderInv, TakeEvent
  PROVE  OrderInv'
<1> DEFINE e == ring[head]
           taken == [Top EXCEPT !.batch = @ - 1, !.phase = "call",
                                !.event = e, !.snap = Len(made)]
           found == [taken EXCEPT !.matches = Matching(e.topic)]
           spoilt == [taken EXCEPT !.skipped = TRUE]
<1>1. ~Idle /\ UNCHANGED received /\ Top \in Frame
  BY TopType DEF TakeEvent, IInv, TypeOK
<1>2. /\ \A x \in Nat : Older(x, published, Waiting) =>
           x < e.id /\ Older(x, published', Waiting')
      /\ Older(e.id, published', Waiting')
      /\ e \in Event
  BY OlderTake
<1>3. SetTop(found) \/ SetTop(spoilt)
  BY DEF TakeEvent
<1>4. found.event = e /\ spoilt.event = e
  BY <1>1 DEF Frame
<1> HIDE DEF e, found, spoilt
<1>5. e.id \in Nat
  BY <1>2, RouterConstants DEF Event, RouterConstants
<1>6. \A p \in received : p[2] \in Nat /\ p[2] < e.id /\ Older(p[2], published', Waiting')
  BY <1>2 DEF OrderInv, IInv, TypeOK
<1>7. \A s : <<s, e.id>> \notin received
  BY <1>5, <1>6
<1>8. \A p \in received : p[2] <= e.id
  BY <1>5, <1>6
<1>. QED
  BY <1>1, <1>2, <1>3, <1>4, <1>6, <1>7, <1>8, PumpOrder

LEMMA CallOrder ==
  ASSUME IInv, OrderInv, CallNext
  PROVE  /\ OrderInv'
         /\ CallStarts =>
              \A p \in received : p[1] = Top'.calling => p[2] < Top.event.id
<1>1. ~Idle /\ Top.phase = "call" /\ Top \in Frame
  BY TopType DEF CallNext, IInv, TypeOK
<1>2. UNCHANGED <<queueVars, published>>
  BY DEF CallNext, statVars
<1>3. Waiting' = Waiting /\ published' = published
  BY <1>2, RingUnchanged DEF IInv
<1>4. PICK s \in Top.matches :
        LET rest == [Top EXCEPT !.matches = Unserved(s)]
        IN  /\ Oldest(s, Top.matches)
            /\ \/ /\ FindSubscription(made[s].handle) # {}
                  /\ SetTop([rest EXCEPT !.phase = "in", !.calling = s])
                  /\ received' = received \cup {<<s, Top.event.id>>}
               \/ /\ FindSubscription(made[s].handle) = {}
                  /\ SetTop(rest)
                  /\ UNCHANGED received
  BY DEF CallNext
<1> DEFINE h == [Top EXCEPT !.matches = Unserved(s)]
           g == [h EXCEPT !.phase = "in", !.calling = s]
<1>5. /\ g.phase = "in" /\ g.event = Top.event /\ g.calling = s
      /\ g.matches = Top.matches \ {s}
      /\ h.phase = "call" /\ h.event = Top.event
      /\ h.matches = Top.matches \ {s}
  BY <1>1 DEF Frame, Unserved
<1>6. \/ SetTop(g) /\ received' = received \cup {<<s, Top.event.id>>}
      \/ SetTop(h) /\ UNCHANGED received
  BY <1>4
<1> HIDE DEF g, h
<1>7. /\ Older(Top.event.id, published, Waiting)
      /\ \A p \in received : p[2] <= Top.event.id
      /\ \A q \in Top.matches : <<q, Top.event.id>> \notin received
      /\ \A p \in received : Older(p[2], published, Waiting)
  BY <1>1 DEF OrderInv
<1>8. Top.event.id \in Nat
  <2>1. Top = frames[Len(frames)] /\ Len(frames) \in 1 .. Len(frames)
    BY <1>1, TopType DEF IInv, TypeOK, Top
  <2>. QED
    BY <1>1, <2>1, FramesTyped
<1>9. CASE SetTop(g) /\ received' = received \cup {<<s, Top.event.id>>}
  <2>1. /\ \A p \in received' : Older(p[2], published', Waiting') /\ p[2] <= Top.event.id
        /\ \A q \in g.matches : <<q, Top.event.id>> \notin received'
    BY <1>3, <1>5, <1>7, <1>8, <1>9
  <2>2. OrderInv'
    BY <1>1, <1>3, <1>5, <1>7, <1>9, <2>1, PumpOrder
  <2>3. Top'.calling = s
    BY <1>1, <1>5, <1>9, NewTop
  <2>4. ASSUME NEW p \in received, p[1] = s
        PROVE  p[2] < Top.event.id
    <3>1. p = <<s, p[2]>> /\ p[2] \in Nat
      BY <2>4 DEF IInv, TypeOK
    <3>2. p[2] # Top.event.id
      BY <1>7, <3>1
    <3>. QED
      BY <1>7, <1>8, <3>1, <3>2
  <2>. QED
    BY <2>2, <2>3, <2>4
<1>10. CASE SetTop(h) /\ UNCHANGED received
  <2>1. /\ \A p \in received' : Older(p[2], published', Waiting') /\ p[2] <= Top.event.id
        /\ \A q \in h.matches : <<q, Top.event.id>> \notin received'
    BY <1>3, <1>5, <1>7, <1>10
  <2>2. OrderInv'
    BY <1>1, <1>3, <1>5, <1>7, <1>10, <2>1, PumpOrder
  <2>3. Top'.phase = "call"
    BY <1>1, <1>5, <1>10, NewTop
  <2>. QED
    BY <2>2, <2>3 DEF CallStarts
<1>. QED
  BY <1>6, <1>9, <1>10

LEMMA PumpedOrder ==
  ASSUME IInv, OrderInv, CallbackReturns \/ FinishEvent
  PROVE  OrderInv'
<1> DEFINE f == [Top EXCEPT !.phase = "call", !.calling = 0, !.delivered = @ + 1]
           g == [Top EXCEPT !.phase = "take", !.event = NoEvent,
                            !.skipped = FALSE, !.snap = 0]
<1>1. ~Idle /\ Top \in Frame /\ UNCHANGED <<received, queueVars, published>>
  BY TopType DEF CallbackReturns, FinishEvent, InCallback, statVars, IInv, TypeOK
<1>2. Waiting' = Waiting
  BY <1>1, RingUnchanged DEF IInv
<1>3. /\ f.phase = "call" /\ f.event = Top.event /\ f.matches = Top.matches
      /\ g.phase = "take"
  BY <1>1 DEF Frame
<1>4. \/ SetTop(f) /\ Top.phase = "in"
      \/ SetTop(g)
  BY DEF CallbackReturns, FinishEvent, InCallback
<1> HIDE DEF f, g
<1>5. \A p \in received' : Older(p[2], published', Waiting')
  BY <1>1, <1>2 DEF OrderInv
<1>6. CASE SetTop(f) /\ Top.phase = "in"
  <2>1. /\ Older(Top.event.id, published', Waiting')
        /\ \A p \in received' : p[2] <= Top.event.id
        /\ \A s \in Top.matches : <<s, Top.event.id>> \notin received'
    BY <1>1, <1>2, <1>6 DEF OrderInv
  <2>. QED
    BY <1>1, <1>3, <1>5, <1>6, <2>1, PumpOrder
<1>7. CASE SetTop(g)
  BY <1>1, <1>3, <1>5, <1>7, PumpOrder
<1>. QED
  BY <1>4, <1>6, <1>7

\* Only CallNext starts a callback.
LEMMA WhoCalls ==
  ASSUME IInv, [Next]_vars, CallStarts
  PROVE  CallNext
<1>1. ~Idle /\ Top.phase = "call" /\ frames' # frames /\ Top'.phase = "in"
  BY DEF CallStarts
<1>2. Top \in Frame
  BY <1>1, TopType DEF IInv, TypeOK
<1>3. PumpStep
  BY <1>1 DEF Next, WorkerPublish, MainPublish, Router_Publish, Router_Subscribe,
     Router_Unsubscribe, Router_DropOwner, SetCapacity, BeginPump, MainThreadFree,
     InCallback, vars
<1>4. ~FinishEvent
  <2> DEFINE g == [Top EXCEPT !.phase = "take", !.event = NoEvent,
                              !.skipped = FALSE, !.snap = 0]
  <2>1. g.phase = "take"
    BY <1>2 DEF Frame
  <2> HIDE DEF g
  <2>2. SetTop(g) => Top' = g
    BY <1>1, NewTop
  <2>3. FinishEvent => SetTop(g)
    BY DEF FinishEvent, g
  <2>. QED
    BY <1>1, <2>1, <2>2, <2>3
<1>. QED
  BY <1>1, <1>3, <1>4 DEF PumpStep, TakeEvent, CallbackReturns, EndPump, InCallback

LEMMA OrderInductive ==
  ASSUME RouterConstants, NoNesting, IInv, OrderInv, [Next]_vars
  PROVE  OrderInv'
<1>1. ASSUME NEW topic \in Topics, Router_Publish(topic)
      PROVE  OrderInv'
  <2>1. UNCHANGED <<frames, received>>
    BY <1>1 DEF Router_Publish
  <2>2. \A x \in Nat : Older(x, published, Waiting) => Older(x, published', Waiting')
    BY <1>1, OlderPublish
  <2>. QED
    BY <2>1, <2>2, HostOrder
<1>2. ASSUME NEW requested \in Capacities, SetCapacity(requested)
      PROVE  OrderInv'
  <2>1. UNCHANGED <<frames, received>>
    BY <1>2 DEF SetCapacity
  <2>2. \A x \in Nat : Older(x, published, Waiting) => Older(x, published', Waiting')
    BY <1>2, OlderResize
  <2>. QED
    BY <2>1, <2>2, HostOrder
<1>3. CASE \/ \E topic \in Topics, owner \in Owners \cup {NoOwner} :
                Router_Subscribe(topic, owner)
           \/ \E s \in DOMAIN made : Router_Unsubscribe(s)
           \/ \E owner \in Owners : Router_DropOwner(owner)
           \/ UNCHANGED vars
  <2>1. UNCHANGED <<frames, received, queueVars, published>>
    BY <1>3 DEF Router_Subscribe, Router_Unsubscribe, Router_DropOwner, statVars, vars
  <2>2. \A x \in Nat : Older(x, published, Waiting) => Older(x, published', Waiting')
    BY <2>1, OlderUnchanged
  <2>. QED
    BY <2>1, <2>2, HostOrder
<1>4. CASE BeginPump \/ EndPump
  <2>1. UNCHANGED <<received, queueVars, published>>
    BY <1>4 DEF BeginPump, EndPump, statVars
  <2>2. Waiting' = Waiting
    BY <2>1, RingUnchanged DEF IInv
  <2>3. Len(frames) <= 1
    BY DEF OrderInv
  <2>4. CASE BeginPump
    <3>1. Len(frames') = 1 /\ Top'.phase = "take"
      BY <2>3, <2>4, OnlyPump
    <3>. QED
      BY <2>1, <2>2, <3>1 DEF OrderInv
  <2>5. CASE EndPump
    <3>1. Len(frames') = 0 /\ Idle'
      BY <2>3, <2>5, OnlyPump
    <3>. QED
      BY <2>1, <2>2, <3>1 DEF OrderInv
  <2>. QED
    BY <1>4, <2>4, <2>5
<1>5. CASE TakeEvent \/ CallNext \/ CallbackReturns \/ FinishEvent
  BY <1>5, TakeOrder, CallOrder, PumpedOrder
<1>. QED
  BY <1>1, <1>2, <1>3, <1>4, <1>5 DEF Next, PumpStep, WorkerPublish, MainPublish

\* With callbacks that do not pump, a subscription sees each event at most once
\* and in the order they were published, whatever is resized, dropped, cancelled
\* and added meanwhile.
THEOREM DeliveredInOrder == NoNesting => (Spec => OnceInOrder)
<1> SUFFICES ASSUME NoNesting
             PROVE  Spec => OnceInOrder
  OBVIOUS
<1>1. Init => OrderInv
  <2> SUFFICES ASSUME Init
               PROVE  OrderInv
    OBVIOUS
  <2>1. Len(frames) = 0 /\ Idle /\ received = {}
    BY DEF Init, Idle
  <2>. QED
    BY <2>1 DEF OrderInv
<1>2. IInv /\ OrderInv /\ [Next]_vars => OrderInv'
  BY RouterConstants, OrderInductive
<1>3. IInv /\ OrderInv /\ [Next]_vars =>
        [CallStarts => \A p \in received : p[1] = Top'.calling => p[2] < Top.event.id]_vars
  BY WhoCalls, CallOrder
<1>. QED
  BY <1>1, <1>2, <1>3, Inductive, PTL DEF Spec, OnceInOrder

-----------------------------------------------------------------------------
(* What a pump may not deliver                                             *)

\* The pump goes on as f while nothing is published.
LEMMA PumpBatch ==
  ASSUME IInv, BatchInv, ~Idle, NEW f, SetTop(f), UNCHANGED <<inside, published>>,
         f.batch <= queued', \A k \in 1 .. f.batch : Waiting'[k].id \notin inside,
         f.phase # "take" => f.event.id <= published /\ f.event.id \notin inside
  PROVE  BatchInv'
<1>1. Len(frames') = Len(frames) /\ Top' = f /\ ~Idle'
  BY NewTop
<1>. QED
  BY <1>1 DEF BatchInv

LEMMA TakeBatch ==
  ASSUME IInv, BatchInv, TakeEvent
  PROVE  BatchInv'
<1> DEFINE e == ring[head]
           taken == [Top EXCEPT !.batch = @ - 1, !.phase = "call",
                                !.event = e, !.snap = Len(made)]
           found == [taken EXCEPT !.matches = Matching(e.topic)]
           spoilt == [taken EXCEPT !.skipped = TRUE]
<1>1. ~Idle /\ UNCHANGED <<inside, published>> /\ Top.batch > 0 /\ queued > 0
  BY DEF TakeEvent, statVars
<1>2. Top \in Frame /\ Top.batch \in Nat /\ queued \in Nat
  BY <1>1, TopType DEF IInv, TypeOK, Frame
<1>3. SetTop(found) \/ SetTop(spoilt)
  BY DEF TakeEvent
<1>4. /\ found.event = e /\ found.batch = Top.batch - 1
      /\ spoilt.event = e /\ spoilt.batch = Top.batch - 1
  BY <1>2 DEF Frame
<1> HIDE DEF e, found, spoilt
<1>5. e = Waiting[1] /\ Older(e.id, published', Waiting')
  BY <1>1, HeadIsOldest, OlderTake DEF IInv, e
<1>6. /\ ring' = [ring EXCEPT ![head] = NoEvent] /\ head' = NextHead
      /\ queued' = queued - 1 /\ capacity' = capacity
  BY DEF TakeEvent
<1>7. \A k \in 1 .. queued - 1 : Waiting'[k] = Waiting[k + 1]
  BY <1>1, <1>6, TakeRing DEF IInv
<1>8. Top.batch <= queued /\ \A k \in 1 .. Top.batch : Waiting[k].id \notin inside
  BY <1>1 DEF BatchInv
<1>9. e.id \notin inside /\ e.id <= published
  BY <1>1, <1>2, <1>5, <1>8 DEF Older
<1>10. /\ Top.batch - 1 <= queued'
       /\ \A k \in 1 .. Top.batch - 1 : Waiting'[k].id \notin inside
  <2>1. \A k \in 1 .. Top.batch - 1 : k \in 1 .. queued - 1 /\ k + 1 \in 1 .. Top.batch
    BY <1>2, <1>8
  <2>. QED
    BY <1>2, <1>6, <1>7, <1>8, <2>1
<1>. QED
  BY <1>1, <1>3, <1>4, <1>9, <1>10, PumpBatch

LEMMA PumpedBatch ==
  ASSUME IInv, BatchInv, CallNext \/ CallbackReturns \/ FinishEvent
  PROVE  BatchInv'
<1>1. ~Idle /\ UNCHANGED <<inside, queueVars, published>>
  BY DEF CallNext, CallbackReturns, FinishEvent, InCallback, statVars
<1>2. Top \in Frame
  BY <1>1, TopType DEF IInv, TypeOK
<1>3. Waiting' = Waiting /\ queued' = queued
  BY <1>1, RingUnchanged DEF IInv, queueVars
<1>4. PICK f : /\ SetTop(f) /\ f.batch = Top.batch
               /\ f.phase # "take" => Top.phase # "take" /\ f.event = Top.event
  <2>1. CASE CallNext
    <3>1. Top.phase = "call"
      BY <2>1 DEF CallNext
    <3>2. PICK s \in Top.matches :
            LET rest == [Top EXCEPT !.matches = Unserved(s)]
            IN  \/ SetTop([rest EXCEPT !.phase = "in", !.calling = s])
                \/ SetTop(rest)
      BY <2>1, Zenon DEF CallNext
    <3> DEFINE h == [Top EXCEPT !.matches = Unserved(s)]
               g == [h EXCEPT !.phase = "in", !.calling = s]
    <3>3. /\ g.event = Top.event /\ g.batch = Top.batch
          /\ h.event = Top.event /\ h.batch = Top.batch
      BY <1>2 DEF Frame
    <3>4. SetTop(g) \/ SetTop(h)
      BY <3>2
    <3> HIDE DEF g, h
    <3>. QED
      BY <3>1, <3>3, <3>4
  <2>2. CASE CallbackReturns
    <3> DEFINE g == [Top EXCEPT !.phase = "call", !.calling = 0, !.delivered = @ + 1]
    <3>1. SetTop(g) /\ Top.phase = "in"
      BY <2>2 DEF CallbackReturns, InCallback
    <3>2. g.event = Top.event /\ g.batch = Top.batch
      BY <1>2 DEF Frame
    <3> HIDE DEF g
    <3>. QED
      BY <3>1, <3>2
  <2>3. CASE FinishEvent
    <3> DEFINE g == [Top EXCEPT !.phase = "take", !.event = NoEvent,
                                !.skipped = FALSE, !.snap = 0]
    <3>1. SetTop(g)
      BY <2>3 DEF FinishEvent
    <3>2. g.phase = "take" /\ g.batch = Top.batch
      BY <1>2 DEF Frame
    <3> HIDE DEF g
    <3>. QED
      BY <3>1, <3>2
  <2>. QED
    BY <2>1, <2>2, <2>3
<1>5. /\ f.batch <= queued' /\ \A k \in 1 .. f.batch : Waiting'[k].id \notin inside
      /\ f.phase # "take" => f.event.id <= published /\ f.event.id \notin inside
  BY <1>1, <1>3, <1>4 DEF BatchInv
<1>. QED
  BY <1>1, <1>4, <1>5, PumpBatch

\* An event that is published gets a number nobody has seen, behind the batch.
LEMMA PublishBatch ==
  ASSUME RouterConstants, IInv, BatchInv, NEW topic \in Topics,
         WorkerPublish(topic) \/ MainPublish(topic)
  PROVE  BatchInv'
<1> DEFINE e == [id |-> published + 1, topic |-> topic]
<1>1. /\ Router_Publish(topic) /\ UNCHANGED frames
      /\ inside' \subseteq inside \cup {published + 1}
      /\ Idle => inside' = inside
  BY DEF WorkerPublish, MainPublish, Router_Publish, InCallback
<1>2. /\ published \in Nat /\ published' = published + 1 /\ queued \in Nat
      /\ published < MaxPublished /\ MaxPublished \in Nat
      /\ UNCHANGED <<capacity, head>>
  BY <1>1 DEF IInv, TypeOK, Router_Publish, RouterConstants
<1>3. e \in Event /\ e.id = published + 1
  BY <1>2 DEF Event
<1>4. Top' = Top /\ (Idle' <=> Idle) /\ Len(frames') = Len(frames)
  BY <1>1 DEF Top, Idle
<1>5. \A x \in inside : x \in Nat /\ x <= published
  BY DEF BatchInv, IInv, TypeOK
<1>6. \A x \in inside' : x <= published'
  BY <1>1, <1>2, <1>5
<1>7. queued <= queued' /\ \A k \in 1 .. queued : Waiting'[k] = Waiting[k]
  <2>1. CASE /\ queued < capacity
             /\ ring' = [ring EXCEPT ![SlotAt(queued)] = e]
             /\ queued' = queued + 1
    <3> HIDE DEF e
    <3>1. \A k \in 1 .. queued : Waiting'[k] = Waiting[k]
      BY <1>2, <1>3, <2>1, AcceptRing DEF IInv
    <3>. QED
      BY <1>2, <2>1, <3>1
  <2>2. CASE UNCHANGED <<ring, queued>>
    <3>1. Waiting' = Waiting
      BY <1>2, <2>2 DEF Waiting, SlotAt
    <3>. QED
      BY <1>2, <2>2, <3>1
  <2>. QED
    BY <1>1, <2>1, <2>2 DEF Router_Publish
<1>8. CASE Idle
  BY <1>1, <1>4, <1>6, <1>8 DEF BatchInv
<1>9. CASE ~Idle
  <2>1. Top.batch \in Nat /\ Top.batch <= queued
    BY <1>9, TopType DEF BatchInv, IInv, TypeOK, Frame
  <2>2. Top.batch <= queued'
    <3>1. queued' \in Nat
      BY <1>1, <1>2 DEF Router_Publish
    <3>. QED
      BY <1>2, <1>7, <2>1, <3>1
  <2>3. \A k \in 1 .. Top.batch : Waiting'[k].id \notin inside'
    <3> SUFFICES ASSUME NEW k \in 1 .. Top.batch
                 PROVE  Waiting'[k].id \notin inside'
      OBVIOUS
    <3>1. k \in 1 .. queued
      BY <1>2, <2>1
    <3>2. Waiting'[k] = Waiting[k] /\ Waiting[k] \in Event /\ Waiting[k].id <= published
      BY <1>7, <3>1, WaitingType DEF IInv, RingInv
    <3>3. Waiting[k].id # published + 1
      BY <1>2, <3>2 DEF Event
    <3>4. Waiting[k].id \notin inside
      BY <1>9 DEF BatchInv
    <3>. QED
      BY <1>1, <3>2, <3>3, <3>4
  <2>4. Top.phase # "take" => Top.event.id <= published' /\ Top.event.id \notin inside'
    <3> SUFFICES ASSUME Top.phase # "take"
                 PROVE  Top.event.id <= published' /\ Top.event.id \notin inside'
      OBVIOUS
    <3>1. Top = frames[Len(frames)] /\ Len(frames) \in 1 .. Len(frames)
      BY <1>9, TopType DEF IInv, TypeOK, Top
    <3>2. Top.event.id \in Nat
      BY <3>1, FramesTyped
    <3>3. Top.event.id <= published /\ Top.event.id \notin inside
      BY <1>9 DEF BatchInv
    <3>. QED
      BY <1>1, <1>2, <3>2, <3>3
  <2>5. Len(frames') <= 1
    BY <1>4 DEF BatchInv
  <2>. QED
    BY <1>4, <1>6, <1>9, <2>2, <2>3, <2>4, <2>5 DEF BatchInv
<1>. QED
  BY <1>8, <1>9

LEMMA BatchInductive ==
  ASSUME RouterConstants, NoNesting, ~ResizeInCallback, IInv, BatchInv, [Next]_vars
  PROVE  BatchInv'
<1>1. CASE \E topic \in Topics : WorkerPublish(topic) \/ MainPublish(topic)
  BY <1>1, PublishBatch
<1>2. ASSUME NEW requested \in Capacities, SetCapacity(requested)
      PROVE  BatchInv'
  <2>1. Idle /\ UNCHANGED <<frames, inside, published>>
    BY <1>2 DEF SetCapacity
  <2>2. Idle' /\ Len(frames') = Len(frames)
    BY <2>1 DEF Idle
  <2>. QED
    BY <2>1, <2>2 DEF BatchInv
<1>3. CASE \/ \E topic \in Topics, owner \in Owners \cup {NoOwner} :
                Router_Subscribe(topic, owner)
           \/ \E s \in DOMAIN made : Router_Unsubscribe(s)
           \/ \E owner \in Owners : Router_DropOwner(owner)
           \/ UNCHANGED vars
  <2>1. UNCHANGED <<frames, inside, queueVars, published>>
    BY <1>3 DEF Router_Subscribe, Router_Unsubscribe, Router_DropOwner, statVars, vars
  <2>2. Waiting' = Waiting /\ queued' = queued /\ Top' = Top /\ (Idle' <=> Idle)
        /\ Len(frames') = Len(frames)
    BY <2>1, RingUnchanged DEF IInv, queueVars, Top, Idle
  <2>. QED
    BY <2>1, <2>2 DEF BatchInv
<1>4. CASE BeginPump
  <2>1. UNCHANGED <<inside, queueVars, published>> /\ Len(frames) <= 1
    BY <1>4 DEF BeginPump, statVars, BatchInv
  <2>2. Waiting' = Waiting /\ queued' = queued /\ queued \in Nat
    BY <2>1, RingUnchanged DEF IInv, queueVars, TypeOK
  <2>3. Idle /\ ~Idle' /\ Len(frames') = 1 /\ Top'.phase = "take" /\ Top'.batch = queued
    BY <1>4, <2>1, OnlyPump
  <2>4. inside = {}
    BY <2>3 DEF BatchInv
  <2>. QED
    BY <2>1, <2>2, <2>3, <2>4 DEF BatchInv
<1>5. CASE EndPump
  <2>1. Len(frames) <= 1
    BY DEF BatchInv
  <2>2. Idle' /\ Len(frames') = 0 /\ inside' = {}
    BY <1>5, <2>1, OnlyPump
  <2>. QED
    BY <2>2 DEF BatchInv
<1>6. CASE TakeEvent \/ CallNext \/ CallbackReturns \/ FinishEvent
  BY <1>6, TakeBatch, PumpedBatch
<1>. QED
  BY <1>1, <1>2, <1>3, <1>4, <1>5, <1>6 DEF Next, PumpStep

\* With callbacks that neither pump nor resize the queue, a pump never delivers
\* an event that was published from one of its own callbacks, whatever other
\* threads publish in between.
THEOREM OwnPublishingWaits ==
  NoNesting /\ ~ResizeInCallback => (Spec => []ReentrancyRule)
<1> SUFFICES ASSUME NoNesting, ~ResizeInCallback
             PROVE  Spec => []ReentrancyRule
  OBVIOUS
<1>1. Init => BatchInv
  <2> SUFFICES ASSUME Init
               PROVE  BatchInv
    OBVIOUS
  <2>1. Len(frames) = 0 /\ Idle /\ inside = {}
    BY DEF Init, Idle
  <2>. QED
    BY <2>1 DEF BatchInv
<1>2. IInv /\ BatchInv /\ [Next]_vars => BatchInv'
  BY RouterConstants, BatchInductive
<1>3. BatchInv => ReentrancyRule
  BY DEF BatchInv, ReentrancyRule, InCallback
<1>. QED
  BY <1>1, <1>2, <1>3, Inductive, PTL DEF Spec

=============================================================================
