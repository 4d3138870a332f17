--------------------------- MODULE HostSessionProofs --------------------------
(***************************************************************************)
(* What a session keeps for every number of slots, all modules and all     *)
(* plugins: no code of an unloaded module runs, every reference is held by *)
(* one slot, and a terminated plugin is quiet; views are on record and     *)
(* detached before they are released, gates come before instances, and the *)
(* session implements SlotTable.                                           *)
(*                                                                         *)
(* The inductive invariant relates four things that the code changes at    *)
(* different steps of a load or a teardown: what a slot holds, the         *)
(* references to its instance, who may still run the instance's code, and  *)
(* how often its module is mapped.                                         *)
(***************************************************************************)
EXTENDS HostSession, FiniteSetTheorems, TLAPS

\* A plugin does not subscribe in the calls that come after its owner is dropped.
Mannered == SubscribesIn \cap {"detach", "terminate"} = {}

-----------------------------------------------------------------------------
(* The inductive invariant                                                 *)

\* An instance belongs to the slot it was created for, and to its module.
SlotShape ==
  \A s \in Slots :
    /\ slots[s].plugin # 0 =>
         /\ slots[s].plugin \in DOMAIN objects
         /\ slots[s].module = objects[slots[s].plugin].dll
    /\ slots[s].view \/ slots[s].service \/ slots[s].sink => slots[s].plugin # 0
    /\ slots[s].view_attached => slots[s].view
    /\ slots[s].factory => slots[s].module # NoDll
    /\ ~slots[s].in_use => slots[s] = EmptySlot

OneOwner ==
  \A s, t \in Slots : slots[s].plugin # 0 /\ slots[s].plugin = slots[t].plugin => s = t

\* What the slot holds at each step of an operation on it.
Building == {"factory", "gates", "create", "initialize", "query"}
ThreadShape ==
  /\ thread.op = "none" <=> thread.step = "none"
  /\ thread.op # "none" => thread.slot \in Slots /\ Current.in_use
  /\ thread.step = "load" => thread.dll \in Dlls /\ Current.module = NoDll
  /\ thread.step \in Building => thread.dll \in Dlls /\ Current.module = thread.dll
  /\ thread.step \in {"load", "factory", "gates", "create"} =>
       Current.plugin = 0 /\ Len(objects) < MaxObjects
  /\ thread.step \in {"load", "factory"} => ~Current.factory
  /\ thread.step \in {"gates", "create", "initialize", "query"} => Current.factory
  /\ thread.step \in {"initialize", "query"} =>
       /\ Current.plugin # 0
       /\ ~Current.view /\ ~Current.service /\ ~Current.sink

TearDownShape ==
  /\ thread.step \in {"events", "view", "terminate", "release", "module"} =>
       ~Current.service
  /\ thread.step \in {"view", "terminate", "release", "module"} =>
       ~Current.sink /\ Current.plugin \notin subscribed
  /\ thread.step \in {"terminate", "release", "module"} => ~Current.view
  /\ thread.step \in {"release", "module"} => Current.plugin = 0
  /\ thread.step = "module" => ~Current.factory

\* The references to an instance are those of the slot that owns it.
One(held) == IF held THEN 1 ELSE 0
RefsCounted ==
  /\ \A s \in Slots : slots[s].plugin # 0 =>
       LET refs == objects[slots[s].plugin].refs
       IN  /\ refs["plugin"] = 1
           /\ refs["view"] = One(slots[s].view)
           /\ refs["service"] = One(slots[s].service)
           /\ refs["sink"] = One(slots[s].sink)
  /\ \A i \in DOMAIN objects : (\A s \in Slots : slots[s].plugin # i) =>
       \A kind \in Interface : objects[i].refs[kind] = 0

\* Whoever may run later is still owned by a slot.
OwnedWhileActive ==
  /\ \A i \in DOMAIN objects : objects[i].running =>
       \E s \in Slots : slots[s].plugin = i /\ slots[s].service
  /\ \A i \in subscribed : \E s \in Slots : slots[s].plugin = i
  /\ \A i \in DOMAIN objects : objects[i].state = "terminated" =>
       \A s \in Slots : slots[s].plugin # i
  /\ ~HasEvents => subscribed = {}

\* A module is mapped once for each slot that has it.
ModulesCounted ==
  \A d \in Dlls :
    /\ mapped[d] = Cardinality(Using(d))
    /\ factory_refs[d] = Cardinality(Using(d))
          + Cardinality({s \in Using(d) : slots[s].factory}) + lost[d]

IInv ==
  /\ TypeOK
  /\ SlotShape
  /\ OneOwner
  /\ ThreadShape
  /\ TearDownShape
  /\ RefsCounted
  /\ OwnedWhileActive
  /\ ModulesCounted
  /\ ~stray

-----------------------------------------------------------------------------
(* Slots, instances and modules                                            *)

LEMMA EmptyIsASlot == EmptySlot \in Slot
  BY SessionConstants DEF SessionConstants, Slot, EmptySlot

LEMMA EmptyHoldsNothing ==
  /\ ~EmptySlot.in_use /\ EmptySlot.module = NoDll /\ ~EmptySlot.factory
  /\ EmptySlot.plugin = 0 /\ ~EmptySlot.view /\ ~EmptySlot.service
  /\ ~EmptySlot.sink /\ ~EmptySlot.view_attached
  BY DEF EmptySlot

LEMMA OneInstanceChanged ==
  ASSUME NEW q \in Seq(Object), NEW i \in DOMAIN q, NEW n \in Object
  PROVE  LET r == [q EXCEPT ![i] = n]
         IN  /\ r \in Seq(Object) /\ Len(r) = Len(q) /\ DOMAIN r = DOMAIN q
             /\ r[i] = n
             /\ \A j \in DOMAIN q : j # i => r[j] = q[j]
  OBVIOUS

LEMMA OneInstanceAdded ==
  ASSUME NEW q \in Seq(Object), NEW n \in Object
  PROVE  LET r == Append(q, n)
         IN  /\ r \in Seq(Object) /\ Len(r) = Len(q) + 1
             /\ DOMAIN r = DOMAIN q \cup {Len(q) + 1}
             /\ Len(q) + 1 \notin DOMAIN q
             /\ r[Len(q) + 1] = n
             /\ \A j \in DOMAIN q : r[j] = q[j]
  OBVIOUS

\* Giving one reference back takes one off and leaves the rest alone.
LEMMA ReleaseCounts ==
  ASSUME NEW o \in Object, NEW kind \in Interface, o.refs[kind] = 1
  PROVE  /\ Released(o, kind) \in Object
         /\ Released(o, kind).dll = o.dll
         /\ Released(o, kind).state = o.state
         /\ Released(o, kind).attached = o.attached
         /\ Released(o, kind).running = o.running
         /\ Released(o, kind).refs[kind] = 0
         /\ \A k \in Interface : k # kind => Released(o, kind).refs[k] = o.refs[k]
  BY DEF Object, Released

LEMMA InterfacesAreFour ==
  /\ "plugin" \in Interface /\ "view" \in Interface
  /\ "service" \in Interface /\ "sink" \in Interface
  BY DEF Interface

LEMMA SlotsAreFinite ==
  ASSUME NEW S \in SUBSET Slots
  PROVE  IsFiniteSet(S) /\ Cardinality(S) \in Nat
<1>1. IsFiniteSet(Slots)
  BY SessionConstants, FS_Interval DEF SessionConstants, Slots
<1>2. IsFiniteSet(S)
  BY <1>1, FS_Subset
<1>. QED
  BY <1>2, FS_CardinalityType

LEMMA ZeroIsNoSlot == Slots \subseteq Nat \ {0}
  BY SessionConstants DEF SessionConstants, Slots

\* A module that some slot has is mapped.
LEMMA MappedIfUsed ==
  ASSUME TypeOK, ModulesCounted, NEW s \in Slots, slots[s].module # NoDll
  PROVE  slots[s].module \in Dlls /\ mapped[slots[s].module] # 0
<1> DEFINE d == slots[s].module
<1>1. d \in Dlls
  BY DEF TypeOK, Slot
<1>2. s \in Using(d) /\ Using(d) \in SUBSET Slots
  BY DEF Using
<1>3. mapped[d] = Cardinality(Using(d))
  BY <1>1 DEF ModulesCounted
<1>4. IsFiniteSet(Using(d))
  BY <1>2, SlotsAreFinite
<1>5. Cardinality(Using(d)) # 0
  BY <1>2, <1>4, FS_EmptySet
<1>. QED
  BY <1>1, <1>3, <1>5

LEMMA MappedIfOwned ==
  ASSUME IInv, NEW s \in Slots, slots[s].plugin # 0
  PROVE  /\ slots[s].plugin \in DOMAIN objects
         /\ objects[slots[s].plugin] \in Object
         /\ slots[s].module = objects[slots[s].plugin].dll
         /\ slots[s].module # NoDll
         /\ mapped[objects[slots[s].plugin].dll] # 0
<1>1. /\ slots[s].plugin \in DOMAIN objects
      /\ slots[s].module = objects[slots[s].plugin].dll
  BY DEF IInv, SlotShape
<1>2. objects[slots[s].plugin] \in Object
  BY <1>1 DEF IInv, TypeOK
<1>3. slots[s].module # NoDll
  BY <1>1, <1>2, SessionConstants DEF SessionConstants, Object
<1>. QED
  BY <1>1, <1>2, <1>3, MappedIfUsed DEF IInv

\* Whoever has a worker or a subscription has its module mapped.
LEMMA MappedIfActive ==
  ASSUME IInv, NEW i \in DOMAIN objects, objects[i].running \/ i \in subscribed
  PROVE  mapped[objects[i].dll] # 0
<1>1. \E s \in Slots : slots[s].plugin = i
  BY DEF IInv, OwnedWhileActive
<1>2. i # 0
  BY DEF IInv, TypeOK
<1>. QED
  BY <1>1, <1>2, MappedIfOwned

-----------------------------------------------------------------------------
(* What most steps leave alone                                             *)

LEMMA ModulesStay ==
  ASSUME ModulesCounted, UNCHANGED <<mapped, factory_refs, lost>>,
         \A s \in Slots : /\ slots'[s].module = slots[s].module
                          /\ slots'[s].factory = slots[s].factory
  PROVE  ModulesCounted'
<1>1. ASSUME NEW d \in Dlls
      PROVE  /\ Using(d)' = Using(d)
             /\ {s \in Using(d)' : slots'[s].factory}
                  = {s \in Using(d) : slots[s].factory}
  BY DEF Using
<1>. QED
  BY <1>1 DEF ModulesCounted

LEMMA SlotsStay ==
  ASSUME IInv, UNCHANGED <<slots, objects, mapped, factory_refs, lost>>
  PROVE  SlotShape' /\ OneOwner' /\ RefsCounted' /\ ModulesCounted'
<1>1. SlotShape' /\ OneOwner'
  BY DEF IInv, SlotShape, OneOwner
<1>2. RefsCounted'
  BY DEF IInv, RefsCounted
<1>3. ModulesCounted'
  BY ModulesStay DEF IInv
<1>. QED
  BY <1>1, <1>2, <1>3

\* A plugin subscribes only while a slot owns it.
LEMMA Subscribes ==
  ASSUME IInv, NEW s \in Slots, slots[s].plugin # 0, NEW call,
         MaySubscribe(slots[s].plugin, call)
  PROVE  /\ subscribed' \subseteq DOMAIN objects
         /\ subscribed' \subseteq subscribed \cup {slots[s].plugin}
         /\ call \notin SubscribesIn => subscribed' = subscribed
         /\ ~HasEvents => subscribed' = {}
         /\ \A i \in subscribed' : \E t \in Slots : slots[t].plugin = i
<1>1. slots[s].plugin \in DOMAIN objects
  BY MappedIfOwned
<1>2. /\ subscribed' \subseteq subscribed \cup {slots[s].plugin}
      /\ call \notin SubscribesIn => subscribed' = subscribed
      /\ ~HasEvents => subscribed' = subscribed
  BY DEF MaySubscribe
<1>. QED
  BY <1>1, <1>2 DEF IInv, OwnedWhileActive, TypeOK

\* A step of the host's loop, between two operations, that only runs code.
LEMMA LoopStep ==
  ASSUME IInv, UNCHANGED <<slots, objects, mapped, factory_refs, lost, thread>>,
         thread.op = "none",
         required' \subseteq Capabilities, skip_detach' \in BOOLEAN,
         alive' \in BOOLEAN,
         subscribed' \subseteq DOMAIN objects,
         \A i \in subscribed' : \E s \in Slots : slots[s].plugin = i,
         ~HasEvents => subscribed' = {},
         stray' = FALSE
  PROVE  IInv'
<1>1. TypeOK'
  BY DEF IInv, TypeOK
<1>2. SlotShape' /\ OneOwner' /\ RefsCounted' /\ ModulesCounted'
  BY SlotsStay
<1>3. thread.step = "none"
  BY DEF IInv, ThreadShape
<1>4. ThreadShape' /\ TearDownShape'
  BY <1>3 DEF ThreadShape, TearDownShape, Building
<1>5. OwnedWhileActive'
  BY DEF IInv, OwnedWhileActive
<1>. QED
  BY <1>1, <1>2, <1>4, <1>5 DEF IInv

-----------------------------------------------------------------------------
(* The host's loop                                                         *)

LEMMA RequireInv ==
  ASSUME IInv, NEW c \in Capabilities, Require(c)
  PROVE  IInv'
<1>1. \A i \in subscribed : \E s \in Slots : slots[s].plugin = i
  BY DEF IInv, OwnedWhileActive
<1>. QED
  BY <1>1, LoopStep
     DEF IInv, TypeOK, OwnedWhileActive, Require, Ready, Idle, pluginVars

LEMMA SetSkipDetachInv ==
  ASSUME IInv, NEW skip \in SkipDetach, SetSkipDetach(skip)
  PROVE  IInv'
<1>1. \A i \in subscribed : \E s \in Slots : slots[s].plugin = i
  BY DEF IInv, OwnedWhileActive
<1>2. skip \in BOOLEAN
  BY SessionConstants DEF SessionConstants
<1>. QED
  BY <1>1, <1>2, LoopStep
     DEF IInv, TypeOK, OwnedWhileActive, SetSkipDetach, Ready, Idle, pluginVars

LEMMA AttachFailsInv ==
  ASSUME IInv, NEW s \in Slots, AttachFails(s)
  PROVE  IInv'
<1>1. slots[s].plugin # 0
  BY DEF IInv, SlotShape, AttachFails
<1>2. MaySubscribe(slots[s].plugin, "attach") /\ Runs(objects[slots[s].plugin].dll)
  BY DEF AttachFails
<1>3. stray' = FALSE
  BY <1>1, <1>2, MappedIfOwned DEF Runs, IInv, TypeOK
<1>4. /\ subscribed' \subseteq DOMAIN objects
      /\ \A i \in subscribed' : \E t \in Slots : slots[t].plugin = i
      /\ ~HasEvents => subscribed' = {}
  BY <1>1, <1>2, Subscribes
<1>. QED
  BY <1>3, <1>4, LoopStep
     DEF IInv, TypeOK, AttachFails, Ready, Idle, sessionVars

LEMMA DeliverEventInv ==
  ASSUME IInv, NEW s \in Slots, DeliverEvent(s)
  PROVE  IInv'
<1>1. slots[s].plugin # 0
  BY DEF DeliverEvent
<1>2. MaySubscribe(slots[s].plugin, "deliver") /\ Runs(objects[slots[s].plugin].dll)
  BY DEF DeliverEvent
<1>3. stray' = FALSE
  BY <1>1, <1>2, MappedIfOwned DEF Runs, IInv, TypeOK
<1>4. /\ subscribed' \subseteq DOMAIN objects
      /\ \A i \in subscribed' : \E t \in Slots : slots[t].plugin = i
      /\ ~HasEvents => subscribed' = {}
  BY <1>1, <1>2, Subscribes
<1>. QED
  BY <1>3, <1>4, LoopStep
     DEF IInv, TypeOK, DeliverEvent, Ready, Idle, sessionVars

LEMMA DriveIdleInv ==
  ASSUME IInv, DriveIdle
  PROVE  IInv'
<1> DEFINE viewed == {s \in Slots : slots[s].in_use /\ slots[s].view}
<1>1. ASSUME NEW s \in viewed
      PROVE  /\ slots[s].plugin \in DOMAIN objects
             /\ mapped[slots[s].module] # 0
  <2>1. slots[s].plugin # 0
    BY DEF IInv, SlotShape
  <2>. QED
    BY <2>1, MappedIfOwned
<1>2. stray' = FALSE
  BY <1>1 DEF DriveIdle, IInv, TypeOK
<1>3. \/ subscribed' = subscribed
      \/ /\ HasEvents
         /\ \E S \in SUBSET {slots[s].plugin : s \in viewed} :
              subscribed' = subscribed \cup S
  BY DEF DriveIdle
<1>4. /\ subscribed' \subseteq DOMAIN objects
      /\ \A i \in subscribed' : \E t \in Slots : slots[t].plugin = i
      /\ ~HasEvents => subscribed' = {}
  BY <1>1, <1>3 DEF IInv, TypeOK, OwnedWhileActive
<1>. QED
  BY <1>2, <1>4, LoopStep DEF IInv, TypeOK, DriveIdle, Ready, Idle, sessionVars

LEMMA PumpCallbackInv ==
  ASSUME IInv, NEW i \in subscribed, PumpCallback(i)
  PROVE  IInv'
<1>1. i \in DOMAIN objects
  BY DEF IInv, TypeOK
<1>2. stray' = FALSE
  BY <1>1, MappedIfActive DEF PumpCallback, Runs, IInv, TypeOK
<1>3. subscribed' \subseteq subscribed
  BY DEF PumpCallback
<1>4. /\ subscribed' \subseteq DOMAIN objects
      /\ \A j \in subscribed' : \E t \in Slots : slots[t].plugin = j
      /\ ~HasEvents => subscribed' = {}
  BY <1>3 DEF IInv, TypeOK, OwnedWhileActive
<1>. QED
  BY <1>2, <1>4, LoopStep DEF IInv, TypeOK, PumpCallback, Idle, sessionVars

\* Workers run during an operation as well.
LEMMA WorkerRunsInv ==
  ASSUME IInv, NEW i \in DOMAIN objects, WorkerRuns(i)
  PROVE  IInv'
<1>1. stray' = FALSE
  BY MappedIfActive DEF WorkerRuns, Runs, IInv, TypeOK
<1>2. UNCHANGED <<sessionVars, thread, objects, mapped, factory_refs, lost, subscribed>>
  BY DEF WorkerRuns
<1>3. TypeOK'
  BY <1>1, <1>2 DEF IInv, TypeOK, sessionVars
<1>4. SlotShape' /\ OneOwner' /\ RefsCounted' /\ ModulesCounted'
  BY <1>2, SlotsStay DEF sessionVars
<1>5. ThreadShape' /\ TearDownShape'
  BY <1>2 DEF IInv, ThreadShape, TearDownShape, Current, sessionVars
<1>6. OwnedWhileActive'
  BY <1>2 DEF IInv, OwnedWhileActive, sessionVars
<1>. QED
  BY <1>1, <1>3, <1>4, <1>5, <1>6 DEF IInv

-----------------------------------------------------------------------------
(* Operations begin                                                        *)

\* An operation that starts from what a slot holds changes only the thread.
LEMMA BeginStep ==
  ASSUME IInv, UNCHANGED <<slots, required, skip_detach, pluginVars>>,
         alive' \in BOOLEAN, thread' \in Thread, ThreadShape', TearDownShape'
  PROVE  IInv'
<1>1. UNCHANGED <<objects, mapped, factory_refs, lost, subscribed, stray>>
  BY DEF pluginVars
<1>2. TypeOK'
  BY <1>1 DEF IInv, TypeOK
<1>3. SlotShape' /\ OneOwner' /\ RefsCounted' /\ ModulesCounted'
  BY <1>1, SlotsStay
<1>4. OwnedWhileActive'
  BY <1>1 DEF IInv, OwnedWhileActive
<1>. QED
  BY <1>1, <1>2, <1>3, <1>4 DEF IInv

LEMMA BeginInstantiateInv ==
  ASSUME IInv, NEW s \in Slots, BeginInstantiate(s)
  PROVE  IInv'
<1>1. thread' = [op |-> "instantiate", step |-> "create", slot |-> s,
                 dll |-> slots[s].module, was |-> "inspected"]
  BY DEF BeginInstantiate
<1>2. /\ slots[s].in_use /\ slots[s].plugin = 0 /\ slots[s].factory
      /\ Len(objects) < MaxObjects
      /\ UNCHANGED <<sessionVars, pluginVars>>
  BY DEF BeginInstantiate
<1>3. slots[s].module \in Dlls
  BY <1>2 DEF IInv, SlotShape, TypeOK, Slot
<1>4. s \in 0 .. MaxSlots
  BY DEF Slots
<1>5. thread' \in Thread
  BY <1>1, <1>3, <1>4 DEF Thread
<1>6. ThreadShape'
  BY <1>1, <1>2, <1>3 DEF ThreadShape, Building, Current, sessionVars, pluginVars
<1>7. TearDownShape'
  BY <1>1 DEF TearDownShape
<1>. QED
  BY <1>2, <1>5, <1>6, <1>7, BeginStep DEF sessionVars, IInv, TypeOK

LEMMA TearDownThread ==
  ASSUME IInv, NEW s \in Slots, slots'[s].in_use, slots[s] = slots'[s],
         NEW op \in {"unload", "unload_all", "destroy"}, TearDownFrom(s, op)
  PROVE  thread' \in Thread /\ ThreadShape' /\ TearDownShape'
<1>1. thread' = [op |-> op, step |-> "service", slot |-> s, dll |-> slots[s].module,
                 was |-> PhaseOf(slots[s])]
  BY DEF TearDownFrom
<1>2. slots[s].module \in Dlls \cup {NoDll} /\ s \in 0 .. MaxSlots
  BY DEF IInv, TypeOK, Slot, Slots
<1>3. PhaseOf(slots[s]) \in {"empty", "inspected", "ready", "half-made"}
  BY DEF PhaseOf
<1>4. thread' \in Thread
  BY <1>1, <1>2, <1>3 DEF Thread
<1>5. ThreadShape' /\ TearDownShape'
  BY <1>1 DEF ThreadShape, TearDownShape, Current, Building
<1>. QED
  BY <1>4, <1>5

LEMMA BeginUnloadInv ==
  ASSUME IInv, NEW s \in Slots, BeginUnload(s)
  PROVE  IInv'
  BY TearDownThread, BeginStep DEF BeginUnload, sessionVars, IInv, TypeOK

\* The thread goes back to the host's loop.
LEMMA BackInTheLoop ==
  ASSUME Return
  PROVE  thread' \in Thread /\ ThreadShape' /\ TearDownShape'
<1>1. thread' = NoThread
  BY DEF Return
<1>2. thread' \in Thread
  BY <1>1, SessionConstants DEF NoThread, Thread, SessionConstants
<1>3. ThreadShape' /\ TearDownShape'
  BY <1>1 DEF NoThread, ThreadShape, TearDownShape, Building
<1>. QED
  BY <1>2, <1>3

LEMMA BeginUnloadAllInv ==
  ASSUME IInv, NEW op \in {"unload_all", "destroy"}, BeginUnloadAll(op)
  PROVE  IInv'
<1>1. UNCHANGED <<slots, required, skip_detach, pluginVars>>
  BY DEF BeginUnloadAll
<1>2. CASE /\ \E s \in Slots : NextSlot(s, 0) /\ TearDownFrom(s, op)
           /\ UNCHANGED alive
  <2>1. PICK s \in Slots : NextSlot(s, 0) /\ TearDownFrom(s, op)
    BY <1>2
  <2>2. slots[s].in_use
    BY <2>1 DEF NextSlot
  <2>3. thread' \in Thread /\ ThreadShape' /\ TearDownShape'
    BY <1>1, <2>1, <2>2, TearDownThread
  <2>. QED
    BY <1>1, <1>2, <2>3, BeginStep DEF IInv, TypeOK
<1>3. CASE AllTornDown(op)
  BY <1>1, <1>3, BackInTheLoop, BeginStep DEF AllTornDown
<1>. QED
  BY <1>2, <1>3 DEF BeginUnloadAll

-----------------------------------------------------------------------------
(* inspect() and instantiate(), up to the instance                         *)

LEMMA OneSlotChanged ==
  ASSUME NEW f \in [Slots -> Slot], NEW s \in Slots, NEW n \in Slot
  PROVE  LET g == [f EXCEPT ![s] = n]
         IN  /\ g \in [Slots -> Slot]
             /\ g[s] = n
             /\ \A t \in Slots : t # s => g[t] = f[t]
  OBVIOUS

\* Steps that change nothing of a slot that the invariant speaks of.
LEMMA SlotsAlike ==
  ASSUME IInv, UNCHANGED <<objects, mapped, factory_refs, lost, subscribed>>,
         \A t \in Slots :
           /\ slots'[t].plugin = slots[t].plugin
           /\ slots'[t].module = slots[t].module
           /\ slots'[t].factory = slots[t].factory
           /\ slots'[t].view = slots[t].view
           /\ slots'[t].service = slots[t].service
           /\ slots'[t].sink = slots[t].sink
           /\ slots'[t].view_attached = slots[t].view_attached
           /\ slots'[t].in_use \/ slots'[t] = slots[t]
  PROVE  SlotShape' /\ OneOwner' /\ RefsCounted' /\ ModulesCounted' /\ OwnedWhileActive'
<1>1. SlotShape' /\ OneOwner'
  BY DEF IInv, SlotShape, OneOwner
<1>2. RefsCounted'
  BY DEF IInv, RefsCounted
<1>3. ModulesCounted'
  BY ModulesStay DEF IInv
<1>4. OwnedWhileActive'
  BY DEF IInv, OwnedWhileActive
<1>. QED
  BY <1>1, <1>2, <1>3, <1>4

LEMMA BeginInspectInv ==
  ASSUME IInv, NEW op \in {"inspect", "load"}, NEW d \in Dlls, BeginInspect(op, d)
  PROVE  IInv'
<1> DEFINE n == [EmptySlot EXCEPT !.in_use = TRUE]
<1>1. PICK s \in Slots :
        /\ FindFreeSlot(s)
        /\ slots' = [slots EXCEPT ![s] = n]
        /\ thread' = [op |-> op, step |-> "load", slot |-> s, dll |-> d,
                      was |-> "empty"]
  BY DEF BeginInspect
<1>2. slots[s] = EmptySlot
  BY <1>1 DEF FindFreeSlot, IInv, SlotShape
<1>3. n \in Slot
  BY EmptyIsASlot DEF Slot
<1>4. /\ n.plugin = EmptySlot.plugin /\ n.module = EmptySlot.module
      /\ n.factory = EmptySlot.factory /\ n.view = EmptySlot.view
      /\ n.service = EmptySlot.service /\ n.sink = EmptySlot.sink
      /\ n.view_attached = EmptySlot.view_attached /\ n.in_use
  BY DEF EmptySlot
<1>5. /\ slots' \in [Slots -> Slot] /\ slots'[s] = n
      /\ \A t \in Slots : t # s => slots'[t] = slots[t]
  <2>1. slots \in [Slots -> Slot]
    BY DEF IInv, TypeOK
  <2>. HIDE DEF n
  <2>. QED
    BY <1>1, <1>3, <2>1, OneSlotChanged
<1>6. /\ UNCHANGED <<required, skip_detach, alive, objects, mapped, factory_refs, lost,
                     subscribed, stray>>
      /\ Len(objects) < MaxObjects
  BY DEF BeginInspect, pluginVars
<1>. HIDE DEF n
<1>7. SlotShape' /\ OneOwner' /\ RefsCounted' /\ ModulesCounted' /\ OwnedWhileActive'
  BY <1>2, <1>4, <1>5, <1>6, SlotsAlike
<1>8. thread' \in Thread
  <2>1. s \in 0 .. MaxSlots
    BY DEF Slots
  <2>. QED
    BY <1>1, <2>1 DEF Thread
<1>9. TypeOK'
  BY <1>5, <1>6, <1>8 DEF IInv, TypeOK
<1>10. Current'.in_use /\ Current'.module = NoDll /\ Current'.plugin = 0 /\ ~Current'.factory
  BY <1>1, <1>4, <1>5, EmptyHoldsNothing DEF Current
<1>11. ThreadShape' /\ TearDownShape'
  BY <1>1, <1>6, <1>10 DEF ThreadShape, TearDownShape, Building
<1>. QED
  BY <1>6, <1>7, <1>9, <1>11 DEF IInv

\* A step of the operation under way that changes its own slot only.
LEMMA OwnSlot ==
  ASSUME IInv, thread.step # "none"
  PROVE  /\ thread.op # "none" /\ thread \in Thread
         /\ thread.slot \in Slots /\ Current.in_use /\ Current \in Slot
         /\ Current = slots[thread.slot]
  BY DEF IInv, ThreadShape, TypeOK, Current

LEMMA GoesOn ==
  ASSUME IInv, thread.step # "none",
         NEW step \in {"factory", "gates", "create", "initialize", "query", "service",
                       "events", "view", "terminate", "release", "module"},
         Go(step)
  PROVE  /\ thread' \in Thread
         /\ thread'.step = step /\ thread'.op = thread.op
         /\ thread'.slot = thread.slot /\ thread'.dll = thread.dll
<1>1. thread \in Thread /\ thread' = [thread EXCEPT !.step = step]
  BY DEF IInv, TypeOK, Go
<1>. QED
  BY <1>1 DEF Thread

\* A failed step goes to the teardown, which finds whatever there is.
LEMMA RollsBack ==
  ASSUME IInv, thread.step # "none", RollBack, slots'[thread.slot].in_use
  PROVE  thread' \in Thread /\ ThreadShape' /\ TearDownShape'
<1>1. /\ thread' \in Thread
      /\ thread'.step = "service" /\ thread'.op = thread.op
      /\ thread'.slot = thread.slot
  BY GoesOn DEF RollBack
<1>2. thread.op # "none" /\ thread.slot \in Slots
  BY OwnSlot
<1>3. ThreadShape' /\ TearDownShape'
  BY <1>1, <1>2 DEF ThreadShape, TearDownShape, Building, Current
<1>. QED
  BY <1>1, <1>3

LEMMA LoadModuleInv ==
  ASSUME IInv, LoadModule
  PROVE  IInv'
<1> DEFINE s == thread.slot
           d == thread.dll
<1>1. /\ thread.step = "load" /\ s \in Slots /\ slots[s].in_use
      /\ slots \in [Slots -> Slot] /\ slots[s] \in Slot
      /\ d \in Dlls /\ slots[s].module = NoDll /\ slots[s].plugin = 0
      /\ ~slots[s].factory /\ Len(objects) < MaxObjects
  BY OwnSlot DEF LoadModule, At, IInv, ThreadShape, TypeOK, Current
<1>2. UNCHANGED <<required, skip_detach, alive, objects, subscribed, stray>>
  BY DEF LoadModule
<1>3. CASE RollBack /\ UNCHANGED <<slots, mapped, factory_refs, lost>>
  <2>1. thread' \in Thread /\ ThreadShape' /\ TearDownShape'
    BY <1>1, <1>3, RollsBack
  <2>. QED
    BY <1>2, <1>3, <2>1, BeginStep DEF pluginVars, IInv, TypeOK
<1>4. CASE /\ slots' = [slots EXCEPT ![s].module = d]
           /\ mapped' = [mapped EXCEPT ![d] = @ + 1]
           /\ factory_refs' = [factory_refs EXCEPT ![d] = @ + 1]
           /\ Go("factory") /\ UNCHANGED lost
  <2> DEFINE n == [slots[s] EXCEPT !.module = d]
  <2>1. /\ n \in Slot /\ n.module = d /\ n.in_use /\ n.plugin = 0 /\ ~n.factory
        /\ n.view = slots[s].view /\ n.service = slots[s].service
        /\ n.sink = slots[s].sink /\ n.view_attached = slots[s].view_attached
    BY <1>1 DEF Slot
  <2>2. slots' = [slots EXCEPT ![s] = n]
    BY <1>4
  <2>. HIDE DEF n
  <2>3. /\ slots' \in [Slots -> Slot] /\ slots'[s] = n
        /\ \A t \in Slots : t # s => slots'[t] = slots[t]
    BY <1>1, <2>1, <2>2, OneSlotChanged
  <2>4. /\ thread' \in Thread /\ thread'.step = "factory" /\ thread'.op = thread.op
        /\ thread'.slot = s /\ thread'.dll = d
    BY <1>1, <1>4, GoesOn
  <2>5. /\ mapped' \in [Dlls -> Nat] /\ factory_refs' \in [Dlls -> Nat]
        /\ mapped'[d] = mapped[d] + 1 /\ factory_refs'[d] = factory_refs[d] + 1
        /\ \A e \in Dlls : e # d => mapped'[e] = mapped[e]
                                    /\ factory_refs'[e] = factory_refs[e]
    BY <1>1, <1>4 DEF IInv, TypeOK
  <2>6. TypeOK'
    BY <1>2, <1>4, <2>3, <2>4, <2>5 DEF IInv, TypeOK
  <2>7. SlotShape' /\ OneOwner'
    BY <1>1, <1>2, <2>1, <2>3 DEF IInv, SlotShape, OneOwner
  <2>8. RefsCounted'
    BY <1>1, <1>2, <2>1, <2>3 DEF IInv, RefsCounted
  <2>9. OwnedWhileActive'
    BY <1>1, <1>2, <2>1, <2>3 DEF IInv, OwnedWhileActive
  <2>10. ThreadShape' /\ TearDownShape'
    <3>1. Current' = n
      BY <2>3, <2>4 DEF Current
    <3>. QED
      BY <1>1, <1>2, <2>1, <2>4, <3>1, OwnSlot DEF ThreadShape, TearDownShape, Building
  <2>11. ModulesCounted'
    <3>. SUFFICES ASSUME NEW e \in Dlls
                  PROVE  /\ mapped'[e] = Cardinality(Using(e)')
                         /\ factory_refs'[e] = Cardinality(Using(e)')
                              + Cardinality({t \in Using(e)' : slots'[t].factory}) + lost'[e]
      BY DEF ModulesCounted
    <3>1. /\ mapped[e] = Cardinality(Using(e))
          /\ factory_refs[e] = Cardinality(Using(e))
               + Cardinality({t \in Using(e) : slots[t].factory}) + lost[e]
      BY DEF IInv, ModulesCounted
    <3>2. /\ IsFiniteSet(Using(e)) /\ Cardinality(Using(e)) \in Nat
          /\ Cardinality({t \in Using(e) : slots[t].factory}) \in Nat
          /\ lost'[e] = lost[e] /\ lost[e] \in Nat
      BY <1>4, SlotsAreFinite DEF Using, IInv, TypeOK
    <3>3. CASE e = d
      <4>1. /\ Using(e)' = Using(e) \cup {s} /\ s \notin Using(e)
            /\ {t \in Using(e)' : slots'[t].factory} = {t \in Using(e) : slots[t].factory}
        BY <1>1, <2>1, <2>3, <3>3, SessionConstants DEF Using, SessionConstants
      <4>2. Cardinality(Using(e)') = Cardinality(Using(e)) + 1
        BY <3>2, <4>1, FS_AddElement
      <4>3. Cardinality({t \in Using(e)' : slots'[t].factory})
              = Cardinality({t \in Using(e) : slots[t].factory})
        BY <4>1, Zenon
      <4>4. mapped'[e] = mapped[e] + 1 /\ factory_refs'[e] = factory_refs[e] + 1
        BY <2>5, <3>3, Zenon
      <4>. QED
        BY <3>1, <3>2, <4>2, <4>3, <4>4
    <3>4. CASE e # d
      <4>1. /\ Using(e)' = Using(e)
            /\ {t \in Using(e)' : slots'[t].factory} = {t \in Using(e) : slots[t].factory}
        BY <1>1, <2>1, <2>3, <3>4, SessionConstants DEF Using, SessionConstants
      <4>. QED
        BY <2>5, <3>1, <3>2, <3>4, <4>1
    <3>. QED
      BY <3>3, <3>4
  <2>. QED
    BY <1>2, <2>6, <2>7, <2>8, <2>9, <2>10, <2>11 DEF IInv
<1>5. CASE /\ factory_refs' = [factory_refs EXCEPT ![d] = @ + 1]
           /\ lost' = [lost EXCEPT ![d] = @ + 1]
           /\ RollBack /\ UNCHANGED <<slots, mapped>>
  <2>1. thread' \in Thread /\ ThreadShape' /\ TearDownShape'
    BY <1>1, <1>5, RollsBack
  <2>2. /\ factory_refs' \in [Dlls -> Nat] /\ lost' \in [Dlls -> Nat]
        /\ factory_refs'[d] = factory_refs[d] + 1 /\ lost'[d] = lost[d] + 1
        /\ \A e \in Dlls : e # d => factory_refs'[e] = factory_refs[e] /\ lost'[e] = lost[e]
    BY <1>1, <1>5 DEF IInv, TypeOK
  <2>3. TypeOK'
    BY <1>2, <1>5, <2>1, <2>2 DEF IInv, TypeOK
  <2>4. SlotShape' /\ OneOwner'
    BY <1>2, <1>5 DEF IInv, SlotShape, OneOwner
  <2>5. RefsCounted'
    BY <1>2, <1>5 DEF IInv, RefsCounted
  <2>6. OwnedWhileActive'
    BY <1>2, <1>5 DEF IInv, OwnedWhileActive
  <2>7. ModulesCounted'
    <3>. SUFFICES ASSUME NEW e \in Dlls
                  PROVE  /\ mapped'[e] = Cardinality(Using(e)')
                         /\ factory_refs'[e] = Cardinality(Using(e)')
                              + Cardinality({t \in Using(e)' : slots'[t].factory}) + lost'[e]
      BY DEF ModulesCounted
    <3>1. /\ mapped[e] = Cardinality(Using(e))
          /\ factory_refs[e] = Cardinality(Using(e))
               + Cardinality({t \in Using(e) : slots[t].factory}) + lost[e]
      BY DEF IInv, ModulesCounted
    <3>2. /\ Cardinality(Using(e)) \in Nat
          /\ Cardinality({t \in Using(e) : slots[t].factory}) \in Nat
          /\ lost[e] \in Nat
      BY SlotsAreFinite DEF Using, IInv, TypeOK
    <3>3. /\ Cardinality(Using(e)') = Cardinality(Using(e)) /\ mapped'[e] = mapped[e]
          /\ Cardinality({t \in Using(e)' : slots'[t].factory})
               = Cardinality({t \in Using(e) : slots[t].factory})
      BY <1>5 DEF Using
    <3>4. \/ factory_refs'[e] = factory_refs[e] + 1 /\ lost'[e] = lost[e] + 1
          \/ factory_refs'[e] = factory_refs[e] /\ lost'[e] = lost[e]
      BY <2>2
    <3>. QED
      BY <3>1, <3>2, <3>3, <3>4
  <2>. QED
    BY <1>2, <2>1, <2>3, <2>4, <2>5, <2>6, <2>7 DEF IInv
<1>. QED
  BY <1>3, <1>4, <1>5 DEF LoadModule

LEMMA GetFactoryInv ==
  ASSUME IInv, GetFactory
  PROVE  IInv'
<1> DEFINE s == thread.slot
           d == thread.dll
           n == [slots[s] EXCEPT !.factory = TRUE]
<1>1. /\ thread.step = "factory" /\ s \in Slots /\ slots[s].in_use
      /\ slots \in [Slots -> Slot] /\ slots[s] \in Slot
      /\ d \in Dlls /\ slots[s].module = d /\ slots[s].plugin = 0
      /\ ~slots[s].factory /\ Len(objects) < MaxObjects
  BY OwnSlot DEF GetFactory, At, IInv, ThreadShape, TypeOK, Current, Building
<1>2. /\ UNCHANGED <<required, skip_detach, alive, objects, mapped, lost, subscribed>>
      /\ slots' = [slots EXCEPT ![s].factory = TRUE]
      /\ factory_refs' = [factory_refs EXCEPT ![d] = @ + 1]
      /\ Go("gates") /\ Runs(d)
  BY DEF GetFactory
<1>3. stray' = FALSE
  <2>1. mapped[d] # 0
    BY <1>1, MappedIfUsed, SessionConstants DEF IInv, SessionConstants
  <2>. QED
    BY <1>2, <2>1 DEF Runs, IInv, TypeOK
<1>4. /\ n \in Slot /\ n.module = d /\ n.in_use /\ n.plugin = 0 /\ n.factory
      /\ n.view = slots[s].view /\ n.service = slots[s].service
      /\ n.sink = slots[s].sink /\ n.view_attached = slots[s].view_attached
  BY <1>1 DEF Slot
<1>5. slots' = [slots EXCEPT ![s] = n]
  BY <1>2
<1>. HIDE DEF n
<1>6. /\ slots' \in [Slots -> Slot] /\ slots'[s] = n
      /\ \A t \in Slots : t # s => slots'[t] = slots[t]
  BY <1>1, <1>4, <1>5, OneSlotChanged
<1>7. /\ thread' \in Thread /\ thread'.step = "gates" /\ thread'.op = thread.op
      /\ thread'.slot = s /\ thread'.dll = d
  BY <1>1, <1>2, GoesOn
<1>8. /\ factory_refs' \in [Dlls -> Nat]
      /\ factory_refs'[d] = factory_refs[d] + 1
      /\ \A e \in Dlls : e # d => factory_refs'[e] = factory_refs[e]
  BY <1>1, <1>2 DEF IInv, TypeOK
<1>9. TypeOK'
  BY <1>2, <1>3, <1>6, <1>7, <1>8 DEF IInv, TypeOK
<1>10. SlotShape' /\ OneOwner'
  BY <1>1, <1>2, <1>4, <1>6, SessionConstants
     DEF IInv, SlotShape, OneOwner, SessionConstants
<1>11. RefsCounted'
  BY <1>1, <1>2, <1>4, <1>6 DEF IInv, RefsCounted
<1>12. OwnedWhileActive'
  BY <1>1, <1>2, <1>4, <1>6 DEF IInv, OwnedWhileActive
<1>13. ThreadShape' /\ TearDownShape'
  <2>1. Current' = n
    BY <1>6, <1>7 DEF Current
  <2>. QED
    BY <1>1, <1>2, <1>4, <1>7, <2>1, OwnSlot DEF ThreadShape, TearDownShape, Building
<1>14. ModulesCounted'
  <2>. SUFFICES ASSUME NEW e \in Dlls
                PROVE  /\ mapped'[e] = Cardinality(Using(e)')
                       /\ factory_refs'[e] = Cardinality(Using(e)')
                            + Cardinality({t \in Using(e)' : slots'[t].factory}) + lost'[e]
    BY DEF ModulesCounted
  <2>1. /\ mapped[e] = Cardinality(Using(e))
        /\ factory_refs[e] = Cardinality(Using(e))
             + Cardinality({t \in Using(e) : slots[t].factory}) + lost[e]
    BY DEF IInv, ModulesCounted
  <2>2. /\ Cardinality(Using(e)) \in Nat
        /\ IsFiniteSet({t \in Using(e) : slots[t].factory})
        /\ Cardinality({t \in Using(e) : slots[t].factory}) \in Nat
        /\ lost'[e] = lost[e] /\ lost[e] \in Nat
    BY <1>2, SlotsAreFinite DEF Using, IInv, TypeOK
  <2>3. Using(e)' = Using(e)
    BY <1>1, <1>4, <1>6 DEF Using
  <2>4. Cardinality(Using(e)') = Cardinality(Using(e)) /\ mapped'[e] = mapped[e]
    BY <1>2, <2>3, Zenon
  <2>5. CASE e = d
    <3>1. /\ {t \in Using(e)' : slots'[t].factory}
               = {t \in Using(e) : slots[t].factory} \cup {s}
          /\ s \notin {t \in Using(e) : slots[t].factory}
      BY <1>1, <1>4, <1>6, <2>3, <2>5 DEF Using
    <3>2. Cardinality({t \in Using(e)' : slots'[t].factory})
            = Cardinality({t \in Using(e) : slots[t].factory}) + 1
      BY <2>2, <3>1, FS_AddElement
    <3>3. factory_refs'[e] = factory_refs[e] + 1
      BY <1>8, <2>5, Zenon
    <3>. QED
      BY <2>1, <2>2, <2>4, <3>2, <3>3
  <2>6. CASE e # d
    <3>1. {t \in Using(e)' : slots'[t].factory} = {t \in Using(e) : slots[t].factory}
      BY <1>1, <1>6, <2>3, <2>6 DEF Using
    <3>2. Cardinality({t \in Using(e)' : slots'[t].factory})
            = Cardinality({t \in Using(e) : slots[t].factory})
      BY <3>1, Zenon
    <3>. QED
      BY <1>8, <2>1, <2>2, <2>4, <2>6, <3>2
  <2>. QED
    BY <2>5, <2>6
<1>. QED
  BY <1>3, <1>9, <1>10, <1>11, <1>12, <1>13, <1>14 DEF IInv

\* What the gates note down of a slot is nothing the invariant speaks of.
LEMMA GatesRecorded ==
  ASSUME NEW r \in Slot, NEW d \in Dlls, NEW A \in SUBSET Capabilities
  PROVE  [r EXCEPT !.descriptor = d \in Described, !.agreed = A] \in Slot
<1>1. CASE d \in Described
  <2>1. [r EXCEPT !.descriptor = TRUE, !.agreed = A] \in Slot
    BY DEF Slot
  <2>2. (d \in Described) = TRUE
    BY <1>1
  <2>. QED
    BY <2>1, <2>2, Zenon
<1>2. CASE d \notin Described
  <2>1. [r EXCEPT !.descriptor = FALSE, !.agreed = A] \in Slot
    BY DEF Slot
  <2>2. (d \in Described) = FALSE
    BY <1>2
  <2>. QED
    BY <2>1, <2>2, Zenon
<1>. QED
  BY <1>1, <1>2

LEMMA PassGatesInv ==
  ASSUME IInv, PassGates
  PROVE  IInv'
<1> DEFINE s == thread.slot
           d == thread.dll
           n == [slots[s] EXCEPT !.descriptor = d \in Described, !.agreed = required]
<1>1. /\ thread.step = "gates" /\ s \in Slots /\ slots[s].in_use
      /\ slots \in [Slots -> Slot] /\ slots[s] \in Slot
      /\ d \in Dlls /\ slots[s].module = d /\ slots[s].plugin = 0
      /\ slots[s].factory /\ Len(objects) < MaxObjects
  BY OwnSlot DEF PassGates, At, IInv, ThreadShape, TypeOK, Current, Building
<1>2. /\ UNCHANGED <<required, skip_detach, alive, objects, mapped, factory_refs, lost,
                     subscribed>>
      /\ slots' = [slots EXCEPT ![s] = n]
      /\ Runs(d)
      /\ Return \/ Go("create") \/ RollBack
  BY DEF PassGates
<1>3. stray' = FALSE
  <2>1. mapped[d] # 0
    BY <1>1, MappedIfUsed, SessionConstants DEF IInv, SessionConstants
  <2>. QED
    BY <1>2, <2>1 DEF Runs, IInv, TypeOK
<1>4. /\ n \in Slot /\ n.module = d /\ n.in_use /\ n.plugin = 0 /\ n.factory
      /\ n.view = slots[s].view /\ n.service = slots[s].service
      /\ n.sink = slots[s].sink /\ n.view_attached = slots[s].view_attached
  <2>1. required \in SUBSET Capabilities
    BY DEF IInv, TypeOK
  <2>2. slots[s] \in Slot /\ d \in Dlls
    BY <1>1
  <2>3. n \in Slot
    BY <2>1, <2>2, GatesRecorded
  <2>4. /\ n.module = slots[s].module /\ n.in_use = slots[s].in_use
        /\ n.plugin = slots[s].plugin /\ n.factory = slots[s].factory
        /\ n.view = slots[s].view /\ n.service = slots[s].service
        /\ n.sink = slots[s].sink /\ n.view_attached = slots[s].view_attached
    BY <2>2 DEF Slot
  <2>. QED
    BY <1>1, <2>3, <2>4
<1>. HIDE DEF n
<1>5. /\ slots' \in [Slots -> Slot] /\ slots'[s] = n
      /\ \A t \in Slots : t # s => slots'[t] = slots[t]
  BY <1>1, <1>2, <1>4, OneSlotChanged
<1>6. SlotShape' /\ OneOwner' /\ RefsCounted' /\ ModulesCounted' /\ OwnedWhileActive'
  BY <1>1, <1>2, <1>4, <1>5, SlotsAlike
<1>7. thread' \in Thread /\ ThreadShape' /\ TearDownShape'
  <2>1. CASE Return
    BY <2>1, BackInTheLoop
  <2>2. CASE RollBack
    BY <1>1, <1>4, <1>5, <2>2, RollsBack
  <2>3. CASE Go("create")
    <3>1. /\ thread' \in Thread /\ thread'.step = "create" /\ thread'.op = thread.op
          /\ thread'.slot = s /\ thread'.dll = d
      BY <1>1, <2>3, GoesOn
    <3>2. Current' = n
      BY <1>5, <3>1 DEF Current
    <3>. QED
      BY <1>1, <1>2, <1>4, <3>1, <3>2, OwnSlot DEF ThreadShape, TearDownShape, Building
  <2>. QED
    BY <1>2, <2>1, <2>2, <2>3
<1>8. TypeOK'
  BY <1>2, <1>3, <1>5, <1>7 DEF IInv, TypeOK
<1>. QED
  BY <1>3, <1>6, <1>7, <1>8 DEF IInv

LEMMA CreateInstanceInv ==
  ASSUME IInv, CreateInstance
  PROVE  IInv'
<1> DEFINE s == thread.slot
           d == thread.dll
           i == Len(objects) + 1
           n == [slots[s] EXCEPT !.plugin = i]
           o == [dll |-> d, state |-> "created",
                 refs |-> [k \in Interface |-> IF k = "plugin" THEN 1 ELSE 0],
                 attached |-> FALSE, running |-> FALSE]
<1>1. /\ thread.step = "create" /\ s \in Slots /\ slots[s].in_use
      /\ slots \in [Slots -> Slot] /\ slots[s] \in Slot
      /\ d \in Dlls /\ slots[s].module = d /\ slots[s].plugin = 0
      /\ slots[s].factory /\ Len(objects) < MaxObjects
      /\ objects \in Seq(Object)
  BY OwnSlot DEF CreateInstance, At, IInv, ThreadShape, TypeOK, Current, Building
<1>2. /\ UNCHANGED <<required, skip_detach, alive, mapped, factory_refs, lost, subscribed>>
      /\ Runs(d)
  BY DEF CreateInstance
<1>3. stray' = FALSE
  <2>1. mapped[d] # 0
    BY <1>1, MappedIfUsed, SessionConstants DEF IInv, SessionConstants
  <2>. QED
    BY <1>2, <2>1 DEF Runs, IInv, TypeOK
<1>4. CASE RollBack /\ UNCHANGED <<objects, slots>>
  <2>1. thread' \in Thread /\ ThreadShape' /\ TearDownShape'
    BY <1>1, <1>4, RollsBack
  <2>2. stray' = stray
    BY <1>3 DEF IInv, TypeOK
  <2>. QED
    BY <1>2, <1>4, <2>1, <2>2, BeginStep DEF pluginVars, IInv, TypeOK
<1>5. CASE /\ objects' = Append(objects, o)
           /\ slots' = [slots EXCEPT ![s].plugin = i]
           /\ Go("initialize")
  <2>1. /\ i \in 0 .. MaxObjects /\ i # 0
    BY <1>1, SessionConstants DEF SessionConstants
  <2>2. /\ n \in Slot /\ n.module = d /\ n.in_use /\ n.plugin = i /\ n.factory
        /\ n.factory = slots[s].factory
        /\ n.view = slots[s].view /\ n.service = slots[s].service
        /\ n.sink = slots[s].sink /\ n.view_attached = slots[s].view_attached
    BY <1>1, <2>1 DEF Slot
  <2>3. slots' = [slots EXCEPT ![s] = n]
    BY <1>5
  <2>4. /\ o \in Object /\ o.dll = d /\ o.state = "created" /\ ~o.running
        /\ o.refs["plugin"] = 1 /\ o.refs["view"] = 0
        /\ o.refs["service"] = 0 /\ o.refs["sink"] = 0
    BY <1>1 DEF Object, Interface
  <2>. HIDE DEF n, o
  <2>5. /\ slots' \in [Slots -> Slot] /\ slots'[s] = n
        /\ \A t \in Slots : t # s => slots'[t] = slots[t]
    BY <1>1, <2>2, <2>3, OneSlotChanged
  <2>6. /\ objects' \in Seq(Object) /\ Len(objects') = i
        /\ DOMAIN objects' = DOMAIN objects \cup {i}
        /\ i \notin DOMAIN objects
        /\ objects'[i] = o
        /\ \A j \in DOMAIN objects : objects'[j] = objects[j]
    BY <1>1, <1>5, <2>4, OneInstanceAdded
  <2>. HIDE DEF i
  <2>7. /\ thread' \in Thread /\ thread'.step = "initialize" /\ thread'.op = thread.op
        /\ thread'.slot = s /\ thread'.dll = d
    BY <1>1, <1>5, GoesOn
  <2>8. /\ ~slots[s].view /\ ~slots[s].service /\ ~slots[s].sink
        /\ ~slots[s].view_attached
    BY <1>1 DEF IInv, SlotShape
  <2>9. \A t \in Slots : slots[t].plugin # i
    <3>1. i # 0 /\ i \notin DOMAIN objects
      BY <2>1, <2>6
    <3>2. \A t \in Slots : slots[t].plugin # 0 => slots[t].plugin \in DOMAIN objects
      BY DEF IInv, SlotShape
    <3>. QED
      BY <3>1, <3>2
  <2>10. TypeOK'
    <3>1. Len(objects') <= MaxObjects
      BY <2>1, <2>6, SessionConstants DEF SessionConstants
    <3>2. subscribed \subseteq DOMAIN objects /\ DOMAIN objects \subseteq DOMAIN objects'
      BY <2>6 DEF IInv, TypeOK
    <3>3. subscribed' \subseteq DOMAIN objects'
      BY <1>2, <3>2
    <3>. QED
      BY <1>2, <1>3, <2>5, <2>6, <2>7, <3>1, <3>3 DEF IInv, TypeOK
  <2>11. SlotShape' /\ OneOwner'
    <3>1. n.module # NoDll /\ n.plugin # 0 /\ n.plugin \in DOMAIN objects'
          /\ objects'[n.plugin].dll = n.module
      BY <1>1, <2>1, <2>2, <2>4, <2>6, SessionConstants DEF SessionConstants
    <3>2. n.in_use /\ ~n.view_attached
      BY <2>2, <2>8
    <3>3. ASSUME NEW t \in Slots, t # s, slots[t].plugin # 0
          PROVE  /\ slots[t].plugin \in DOMAIN objects'
                 /\ slots[t].module = objects'[slots[t].plugin].dll
      BY <2>6, <3>3 DEF IInv, SlotShape
    <3>4. SlotShape'
      BY <2>5, <3>1, <3>2, <3>3 DEF IInv, SlotShape
    <3>5. OneOwner'
      BY <2>2, <2>5, <2>9 DEF IInv, OneOwner
    <3>. QED
      BY <3>4, <3>5
  <2>12. RefsCounted'
    <3>1. ASSUME NEW t \in Slots, slots'[t].plugin # 0
          PROVE  LET refs == objects'[slots'[t].plugin].refs
                 IN  /\ refs["plugin"] = 1
                     /\ refs["view"] = One(slots'[t].view)
                     /\ refs["service"] = One(slots'[t].service)
                     /\ refs["sink"] = One(slots'[t].sink)
      <4>1. CASE t = s
        BY <2>2, <2>4, <2>5, <2>6, <2>8, <4>1 DEF One
      <4>2. CASE t # s
        BY <2>5, <2>6, <3>1, <4>2 DEF IInv, RefsCounted, SlotShape
      <4>. QED
        BY <4>1, <4>2
    <3>2. ASSUME NEW j \in DOMAIN objects', \A t \in Slots : slots'[t].plugin # j
          PROVE  \A kind \in Interface : objects'[j].refs[kind] = 0
      <4>1. j # i /\ j \in DOMAIN objects
        BY <1>1, <2>2, <2>5, <2>6, <3>2
      <4>2. j # 0
        BY <1>1, <4>1
      <4>3. \A t \in Slots : slots[t].plugin # j
        BY <1>1, <2>5, <3>2, <4>2
      <4>. QED
        BY <2>6, <4>1, <4>3 DEF IInv, RefsCounted
    <3>. QED
      BY <3>1, <3>2 DEF RefsCounted
  <2>13. OwnedWhileActive'
    <3>1. ASSUME NEW j \in DOMAIN objects, NEW t \in Slots, slots[t].plugin = j
          PROVE  t # s /\ slots'[t] = slots[t]
      BY <1>1, <2>5, <3>1
    <3>2. \A j \in DOMAIN objects' : objects'[j].running =>
            \E t \in Slots : slots'[t].plugin = j /\ slots'[t].service
      BY <2>4, <2>6, <3>1 DEF IInv, OwnedWhileActive
    <3>3. \A j \in subscribed' : \E t \in Slots : slots'[t].plugin = j
      <4>1. subscribed' = subscribed /\ subscribed \subseteq DOMAIN objects
        BY <1>2 DEF IInv, TypeOK
      <4>. QED
        BY <3>1, <4>1 DEF IInv, OwnedWhileActive
    <3>4. \A j \in DOMAIN objects' : objects'[j].state = "terminated" =>
            \A t \in Slots : slots'[t].plugin # j
      BY <2>2, <2>4, <2>5, <2>6 DEF IInv, OwnedWhileActive
    <3>. QED
      BY <1>2, <3>2, <3>3, <3>4 DEF IInv, OwnedWhileActive
  <2>14. ThreadShape' /\ TearDownShape'
    <3>1. Current' = n
      BY <2>5, <2>7 DEF Current
    <3>2. /\ n.in_use /\ n.module = d /\ n.factory /\ n.plugin # 0
          /\ ~n.view /\ ~n.service /\ ~n.sink
      BY <2>1, <2>2, <2>8
    <3>3. thread.op # "none"
      BY <1>1, OwnSlot
    <3>4. TearDownShape'
      BY <2>7 DEF TearDownShape
    <3>5. ThreadShape'
      BY <1>1, <2>7, <3>1, <3>2, <3>3 DEF ThreadShape, Building
    <3>. QED
      BY <3>4, <3>5
  <2>15. ModulesCounted'
    <3>1. \A t \in Slots : slots'[t].module = slots[t].module
                            /\ slots'[t].factory = slots[t].factory
      BY <1>1, <2>2, <2>5
    <3>. QED
      BY <1>2, <3>1, ModulesStay DEF IInv
  <2>. QED
    BY <1>3, <2>10, <2>11, <2>12, <2>13, <2>14, <2>15 DEF IInv
<1>. QED
  BY <1>4, <1>5 DEF CreateInstance

-----------------------------------------------------------------------------
(* Steps on an instance and the slot that owns it                          *)

\* The slot goes on owning the instance, and what it holds is what the instance
\* is referenced by.
Owns(n, o, i) ==
  /\ n \in Slot /\ o \in Object
  /\ n.plugin = i /\ n.in_use
  /\ n.view_attached => n.view
  /\ o.state # "terminated"
  /\ o.refs["plugin"] = 1
  /\ o.refs["view"] = One(n.view)
  /\ o.refs["service"] = One(n.service)
  /\ o.refs["sink"] = One(n.sink)
  /\ o.running => n.service

LEMMA OwnedNow ==
  ASSUME IInv, NEW s \in Slots, slots[s].plugin # 0
  PROVE  Owns(slots[s], objects[slots[s].plugin], slots[s].plugin)
<1> DEFINE i == slots[s].plugin
<1>1. i \in DOMAIN objects /\ objects[i] \in Object /\ slots[s] \in Slot
  BY MappedIfOwned DEF IInv, TypeOK
<1>2. slots[s].in_use
  BY EmptyHoldsNothing DEF IInv, SlotShape
<1>3. slots[s].view_attached => slots[s].view
  BY DEF IInv, SlotShape
<1>4. objects[i].state # "terminated"
  BY <1>1 DEF IInv, OwnedWhileActive
<1>5. objects[i].running => slots[s].service
  <2>1. \A t \in Slots : slots[t].plugin = i => t = s
    BY DEF IInv, OneOwner
  <2>. QED
    BY <1>1, <2>1 DEF IInv, OwnedWhileActive
<1>6. /\ objects[i].refs["plugin"] = 1
      /\ objects[i].refs["view"] = One(slots[s].view)
      /\ objects[i].refs["service"] = One(slots[s].service)
      /\ objects[i].refs["sink"] = One(slots[s].sink)
  BY DEF IInv, RefsCounted
<1>. QED
  BY <1>1, <1>2, <1>3, <1>4, <1>5, <1>6 DEF Owns

LEMMA InstanceStep ==
  ASSUME IInv, NEW s \in Slots, NEW i, i = slots[s].plugin, i # 0,
         NEW n, NEW o, Owns(n, o, i),
         slots' = [slots EXCEPT ![s] = n], objects' = [objects EXCEPT ![i] = o],
         n.module = slots[s].module, n.factory = slots[s].factory,
         o.dll = objects[i].dll,
         UNCHANGED <<required, skip_detach, alive, mapped, factory_refs, lost>>,
         subscribed' \subseteq DOMAIN objects,
         \A j \in subscribed' : \E t \in Slots : slots[t].plugin = j,
         ~HasEvents => subscribed' = {},
         thread' \in Thread, ThreadShape', TearDownShape', stray' = FALSE
  PROVE  IInv'
<1>1. /\ slots \in [Slots -> Slot] /\ objects \in Seq(Object) /\ i \in DOMAIN objects
      /\ n \in Slot /\ o \in Object
  BY MappedIfOwned DEF IInv, TypeOK, Owns
<1>2. /\ slots' \in [Slots -> Slot] /\ slots'[s] = n
      /\ \A t \in Slots : t # s => slots'[t] = slots[t]
  BY <1>1, OneSlotChanged
<1>3. /\ objects' \in Seq(Object) /\ Len(objects') = Len(objects)
      /\ DOMAIN objects' = DOMAIN objects /\ objects'[i] = o
      /\ \A j \in DOMAIN objects : j # i => objects'[j] = objects[j]
  BY <1>1, OneInstanceChanged
<1>4. /\ \A t \in Slots : slots'[t].plugin = slots[t].plugin
      /\ \A t \in Slots : slots[t].plugin = i => t = s
      /\ \A t \in Slots : slots[t].plugin # 0 => slots[t].plugin \in DOMAIN objects
  BY <1>2 DEF IInv, OneOwner, SlotShape, Owns
<1>5. TypeOK'
  BY <1>2, <1>3 DEF IInv, TypeOK
<1>6. SlotShape'
  <2>1. slots[s].module # NoDll
    BY MappedIfOwned
  <2>2. ASSUME NEW t \in Slots, t # s, slots[t].plugin # 0
        PROVE  /\ slots[t].plugin \in DOMAIN objects'
               /\ slots[t].module = objects'[slots[t].plugin].dll
    BY <1>3, <1>4, <2>2 DEF IInv, SlotShape
  <2>3. n.plugin \in DOMAIN objects' /\ n.module = objects'[n.plugin].dll
    BY <1>1, <1>3, MappedIfOwned DEF Owns
  <2>. QED
    BY <1>2, <2>1, <2>2, <2>3 DEF IInv, SlotShape, Owns
<1>7. OneOwner'
  BY <1>4 DEF IInv, OneOwner
<1>8. RefsCounted'
  <2>1. ASSUME NEW t \in Slots, slots'[t].plugin # 0
        PROVE  LET refs == objects'[slots'[t].plugin].refs
               IN  /\ refs["plugin"] = 1
                   /\ refs["view"] = One(slots'[t].view)
                   /\ refs["service"] = One(slots'[t].service)
                   /\ refs["sink"] = One(slots'[t].sink)
    <3>1. CASE t = s
      BY <1>2, <1>3, <3>1 DEF Owns
    <3>2. CASE t # s
      <4>1. /\ slots'[t] = slots[t]
            /\ objects'[slots[t].plugin] = objects[slots[t].plugin]
            /\ slots[t].plugin # 0
        BY <1>2, <1>3, <1>4, <2>1, <3>2
      <4>. QED
        BY <4>1 DEF IInv, RefsCounted
    <3>. QED
      BY <3>1, <3>2
  <2>2. ASSUME NEW j \in DOMAIN objects', \A t \in Slots : slots'[t].plugin # j
        PROVE  \A kind \in Interface : objects'[j].refs[kind] = 0
    <3>1. j # i /\ j \in DOMAIN objects /\ \A t \in Slots : slots[t].plugin # j
      BY <1>3, <1>4, <2>2
    <3>. QED
      BY <1>3, <3>1 DEF IInv, RefsCounted
  <2>. QED
    BY <2>1, <2>2 DEF RefsCounted
<1>9. OwnedWhileActive'
  <2>1. \A j \in DOMAIN objects' : objects'[j].running =>
          \E t \in Slots : slots'[t].plugin = j /\ slots'[t].service
    <3>1. ASSUME NEW j \in DOMAIN objects, j # i, objects[j].running
          PROVE  \E t \in Slots : slots'[t].plugin = j /\ slots'[t].service
      <4>1. PICK t \in Slots : slots[t].plugin = j /\ slots[t].service
        BY <3>1 DEF IInv, OwnedWhileActive
      <4>. QED
        BY <1>2, <3>1, <4>1
    <3>2. o.running => slots'[s].plugin = i /\ slots'[s].service
      BY <1>2 DEF Owns
    <3>. QED
      BY <1>3, <3>1, <3>2
  <2>2. \A j \in subscribed' : \E t \in Slots : slots'[t].plugin = j
    BY <1>4
  <2>3. \A j \in DOMAIN objects' : objects'[j].state = "terminated" =>
          \A t \in Slots : slots'[t].plugin # j
    BY <1>3, <1>4 DEF IInv, OwnedWhileActive, Owns
  <2>. QED
    BY <2>1, <2>2, <2>3 DEF OwnedWhileActive
<1>10. ModulesCounted'
  <2>1. \A t \in Slots : /\ slots'[t].module = slots[t].module
                         /\ slots'[t].factory = slots[t].factory
    BY <1>2
  <2>. QED
    BY <2>1, ModulesStay DEF IInv
<1>. QED
  BY <1>5, <1>6, <1>7, <1>8, <1>9, <1>10 DEF IInv

\* A step of the teardown leaves the slot with what the next one expects.
LEMMA TearsDown ==
  ASSUME IInv, thread.step # "none",
         NEW step \in {"events", "view", "terminate", "release", "module"}, Go(step),
         NEW n, slots'[thread.slot] = n, n.in_use, ~n.service,
         step # "events" => ~n.sink /\ n.plugin \notin subscribed',
         step \in {"terminate", "release", "module"} => ~n.view,
         step \in {"release", "module"} => n.plugin = 0,
         step = "module" => ~n.factory
  PROVE  thread' \in Thread /\ ThreadShape' /\ TearDownShape'
<1>1. /\ thread' \in Thread /\ thread'.step = step /\ thread'.op = thread.op
      /\ thread'.slot = thread.slot
  BY GoesOn
<1>2. thread.op # "none" /\ thread.slot \in Slots
  BY OwnSlot
<1>3. Current' = n
  BY <1>1 DEF Current
<1>4. ThreadShape'
  BY <1>1, <1>2, <1>3 DEF ThreadShape, Building
<1>5. TearDownShape'
  BY <1>1, <1>3 DEF TearDownShape
<1>. QED
  BY <1>1, <1>4, <1>5

LEMMA SameSlot ==
  ASSUME IInv, NEW s \in Slots, UNCHANGED slots
  PROVE  slots' = [slots EXCEPT ![s] = slots[s]]
  BY DEF IInv, TypeOK

\* A step in a plugin's code finds its module mapped.
LEMMA NotStray ==
  ASSUME IInv, NEW s \in Slots, slots[s].plugin # 0, Runs(objects[slots[s].plugin].dll)
  PROVE  stray' = FALSE
  BY MappedIfOwned DEF Runs, IInv, TypeOK

\* An instance that changes in nothing its slot is concerned with.
LEMMA StillOwned ==
  ASSUME NEW n, NEW o, NEW p \in Object, NEW i, Owns(n, o, i),
         p.refs = o.refs, p.running => o.running, p.state # "terminated"
  PROVE  Owns(n, p, i)
  BY DEF Owns

LEMMA InitializePluginInv ==
  ASSUME IInv, InitializePlugin
  PROVE  IInv'
<1> DEFINE s == thread.slot
           i == slots[s].plugin
<1>1. /\ thread.step = "initialize" /\ s \in Slots /\ slots[s].in_use
      /\ i # 0 /\ thread.dll = slots[s].module /\ thread.dll \in Dlls
      /\ slots[s].factory /\ ~slots[s].view /\ ~slots[s].service /\ ~slots[s].sink
  BY OwnSlot DEF InitializePlugin, At, IInv, ThreadShape, Current, Building
<1>2. /\ UNCHANGED <<slots, required, skip_detach, alive, mapped, factory_refs, lost>>
      /\ MaySubscribe(i, "initialize") /\ Runs(thread.dll)
  BY DEF InitializePlugin, sessionVars, Current
<1>3. /\ i \in DOMAIN objects /\ objects[i] \in Object
      /\ Owns(slots[s], objects[i], i) /\ thread.dll = objects[i].dll
  BY <1>1, MappedIfOwned, OwnedNow
<1>4. stray' = FALSE
  BY <1>1, <1>2, <1>3, NotStray
<1>5. /\ subscribed' \subseteq DOMAIN objects
      /\ \A j \in subscribed' : \E t \in Slots : slots[t].plugin = j
      /\ ~HasEvents => subscribed' = {}
  BY <1>1, <1>2, Subscribes
<1>6. ASSUME NEW state \in {"initialized", "failed"},
             objects' = [objects EXCEPT ![i].state = state],
             thread' \in Thread, ThreadShape', TearDownShape'
      PROVE  IInv'
  <2> DEFINE o == [objects[i] EXCEPT !.state = state]
  <2>1. /\ o \in Object /\ o.refs = objects[i].refs /\ o.dll = objects[i].dll
        /\ o.running = objects[i].running /\ o.state # "terminated"
    BY <1>3 DEF Object
  <2>2. objects' = [objects EXCEPT ![i] = o]
    BY <1>6
  <2>. HIDE DEF o
  <2>3. Owns(slots[s], o, i)
    BY <1>3, <2>1, StillOwned
  <2>4. slots' = [slots EXCEPT ![s] = slots[s]]
    BY <1>1, <1>2, SameSlot
  <2>5. UNCHANGED <<required, skip_detach, alive, mapped, factory_refs, lost>>
    BY <1>2
  <2>6. thread' \in Thread /\ ThreadShape' /\ TearDownShape'
    BY <1>6
  <2>. HIDE DEF s
  <2>. QED
    BY <1>1, <1>4, <1>5, <2>1, <2>2, <2>3, <2>4, <2>5, <2>6, InstanceStep
<1>7. CASE objects' = [objects EXCEPT ![i].state = "failed"] /\ RollBack
  <2>1. thread' \in Thread /\ ThreadShape' /\ TearDownShape'
    BY <1>1, <1>2, <1>7, RollsBack
  <2>. QED
    BY <1>6, <1>7, <2>1
<1>8. CASE objects' = [objects EXCEPT ![i].state = "initialized"] /\ Go("query")
  <2>1. /\ thread' \in Thread /\ thread'.step = "query" /\ thread'.op = thread.op
        /\ thread'.slot = s /\ thread'.dll = thread.dll
    BY <1>1, <1>8, GoesOn
  <2>2. Current' = slots[s]
    BY <1>2, <2>1 DEF Current
  <2>3. ThreadShape'
    BY <1>1, <2>1, <2>2, OwnSlot DEF ThreadShape, Building
  <2>4. TearDownShape'
    BY <2>1 DEF TearDownShape
  <2>. QED
    BY <1>6, <1>8, <2>1, <2>3, <2>4
<1>. QED
  BY <1>7, <1>8 DEF InitializePlugin, Current

LEMMA FlagsAreFlags ==
  ASSUME NEW r \in Slot, NEW flag \in BOOLEAN
  PROVE  /\ [r EXCEPT !.view = flag] \in Slot
         /\ [r EXCEPT !.service = flag] \in Slot
         /\ [r EXCEPT !.sink = flag] \in Slot
<1>1. /\ [r EXCEPT !.view = TRUE] \in Slot
      /\ [r EXCEPT !.service = TRUE] \in Slot
      /\ [r EXCEPT !.sink = TRUE] \in Slot
  BY DEF Slot
<1>2. /\ [r EXCEPT !.view = FALSE] \in Slot
      /\ [r EXCEPT !.service = FALSE] \in Slot
      /\ [r EXCEPT !.sink = FALSE] \in Slot
  BY DEF Slot
<1>. QED
  BY <1>1, <1>2, Zenon

LEMMA QueryInterfacesInv ==
  ASSUME IInv, QueryInterfaces
  PROVE  IInv'
<1> DEFINE s == thread.slot
           i == slots[s].plugin
<1>1. /\ thread.step = "query" /\ s \in Slots /\ slots[s].in_use
      /\ i # 0 /\ thread.dll = slots[s].module
      /\ ~slots[s].view /\ ~slots[s].service /\ ~slots[s].sink
  BY OwnSlot DEF QueryInterfaces, At, IInv, ThreadShape, Current, Building
<1>2. /\ UNCHANGED <<required, skip_detach, alive, mapped, factory_refs, lost, subscribed>>
      /\ Runs(thread.dll) /\ Return
  BY DEF QueryInterfaces
<1>3. /\ i \in DOMAIN objects /\ objects[i] \in Object /\ slots[s] \in Slot
      /\ Owns(slots[s], objects[i], i) /\ thread.dll = objects[i].dll
  BY <1>1, MappedIfOwned, OwnedNow DEF IInv, TypeOK
<1>4. stray' = FALSE
  BY <1>1, <1>2, <1>3, NotStray
<1>5. PICK found \in SUBSET (Interface \ {"plugin"}) :
        /\ objects' = [objects EXCEPT ![i].refs =
             [k \in Interface |-> IF k \in found THEN @[k] + 1 ELSE @[k]]]
        /\ slots' = [slots EXCEPT ![s] =
             [@ EXCEPT !.view = "view" \in found,
                       !.service = "service" \in found,
                       !.sink = "sink" \in found]]
  BY DEF QueryInterfaces, Current
<1> DEFINE n == [slots[s] EXCEPT !.view = "view" \in found,
                                 !.service = "service" \in found,
                                 !.sink = "sink" \in found]
           refs == [k \in Interface |-> IF k \in found THEN objects[i].refs[k] + 1
                                                       ELSE objects[i].refs[k]]
           o == [objects[i] EXCEPT !.refs = refs]
<1>6. slots' = [slots EXCEPT ![s] = n] /\ objects' = [objects EXCEPT ![i] = o]
  BY <1>5
<1>7. /\ n.plugin = slots[s].plugin /\ n.in_use = slots[s].in_use
      /\ n.module = slots[s].module /\ n.factory = slots[s].factory
      /\ n.view_attached = slots[s].view_attached
      /\ n.view = ("view" \in found) /\ n.service = ("service" \in found)
      /\ n.sink = ("sink" \in found)
  BY <1>3 DEF Slot
<1>8. n \in Slot
  <2> DEFINE a == [slots[s] EXCEPT !.view = "view" \in found]
             b == [a EXCEPT !.service = "service" \in found]
  <2>1. ("view" \in found) \in BOOLEAN /\ ("service" \in found) \in BOOLEAN
        /\ ("sink" \in found) \in BOOLEAN
    OBVIOUS
  <2>2. a \in Slot
    BY <1>3, <2>1, FlagsAreFlags
  <2>. HIDE DEF a
  <2>3. b \in Slot
    BY <2>1, <2>2, FlagsAreFlags
  <2>. HIDE DEF b
  <2>4. [b EXCEPT !.sink = "sink" \in found] \in Slot
    BY <2>1, <2>3, FlagsAreFlags
  <2>. QED
    BY <2>4 DEF a, b
<1>9. /\ refs \in [Interface -> Nat]
      /\ \A k \in Interface : refs[k] = IF k \in found THEN objects[i].refs[k] + 1
                                                       ELSE objects[i].refs[k]
  BY <1>3 DEF Object
<1>. HIDE DEF refs
<1>10. /\ o \in Object /\ o.dll = objects[i].dll /\ o.state = objects[i].state
       /\ o.running = objects[i].running /\ o.refs = refs
  BY <1>3, <1>9 DEF Object
<1>. HIDE DEF n, o
<1>11. /\ objects[i].refs["plugin"] = 1 /\ objects[i].refs["view"] = 0
       /\ objects[i].refs["service"] = 0 /\ objects[i].refs["sink"] = 0
       /\ ~slots[s].view_attached /\ ~objects[i].running
       /\ objects[i].state # "terminated"
  BY <1>1, <1>3 DEF Owns, One
<1>12. Owns(n, o, i)
  <2>1. /\ o.refs["plugin"] = 1
        /\ o.refs["view"] = One("view" \in found)
        /\ o.refs["service"] = One("service" \in found)
        /\ o.refs["sink"] = One("sink" \in found)
    BY <1>9, <1>10, <1>11, InterfacesAreFour DEF One
  <2>2. /\ One(n.view) = One("view" \in found)
        /\ One(n.service) = One("service" \in found)
        /\ One(n.sink) = One("sink" \in found)
    BY <1>7
  <2>3. ~n.view_attached /\ ~o.running /\ o.state # "terminated"
    BY <1>7, <1>10, <1>11
  <2>. QED
    BY <1>1, <1>7, <1>8, <1>10, <2>1, <2>2, <2>3 DEF Owns
<1>13. /\ subscribed' \subseteq DOMAIN objects
       /\ \A j \in subscribed' : \E t \in Slots : slots[t].plugin = j
       /\ ~HasEvents => subscribed' = {}
  BY <1>2 DEF IInv, TypeOK, OwnedWhileActive
<1>14. thread' \in Thread /\ ThreadShape' /\ TearDownShape'
  BY <1>2, BackInTheLoop
<1>. HIDE DEF s
<1>. QED
  BY <1>1, <1>2, <1>4, <1>6, <1>7, <1>10, <1>12, <1>13, <1>14, InstanceStep

-----------------------------------------------------------------------------
(* The host attaches and moves views, and starts services                  *)

LEMMA LoopGoesOn ==
  ASSUME IInv, thread.op = "none", UNCHANGED thread
  PROVE  thread' \in Thread /\ ThreadShape' /\ TearDownShape'
<1>1. thread.step = "none"
  BY DEF IInv, ThreadShape
<1>. QED
  BY <1>1 DEF IInv, TypeOK, ThreadShape, TearDownShape, Building

LEMMA AttachViewInv ==
  ASSUME IInv, NEW s \in Slots, AttachView(s)
  PROVE  IInv'
<1> DEFINE i == slots[s].plugin
           n == Attached(slots[s])
           o == [objects[i] EXCEPT !.attached = TRUE]
<1>1. /\ UNCHANGED <<required, skip_detach, alive, thread, mapped, factory_refs, lost>>
      /\ slots[s].view /\ thread.op = "none"
      /\ MaySubscribe(i, "attach") /\ Runs(objects[i].dll)
      /\ slots' = [slots EXCEPT ![s] = n]
      /\ objects' = [objects EXCEPT ![i] = o]
  BY DEF AttachView, Ready, Idle
<1>2. i # 0
  BY <1>1 DEF IInv, SlotShape
<1>3. /\ objects[i] \in Object /\ slots[s] \in Slot /\ Owns(slots[s], objects[i], i)
  BY <1>2, MappedIfOwned, OwnedNow DEF IInv, TypeOK
<1>4. /\ o \in Object /\ o.dll = objects[i].dll /\ o.state = objects[i].state
      /\ o.running = objects[i].running /\ o.refs = objects[i].refs
  BY <1>3 DEF Object
<1>5. /\ n \in Slot /\ n.module = slots[s].module /\ n.factory = slots[s].factory
      /\ n.in_use = slots[s].in_use /\ n.plugin = i /\ n.view = slots[s].view
      /\ n.service = slots[s].service /\ n.sink = slots[s].sink
  BY <1>3 DEF Slot, Attached
<1>. HIDE DEF n, o
<1>6. Owns(n, o, i)
  BY <1>1, <1>3, <1>4, <1>5 DEF Owns
<1>7. stray' = FALSE
  BY <1>1, <1>2, NotStray
<1>8. /\ subscribed' \subseteq DOMAIN objects
      /\ \A j \in subscribed' : \E t \in Slots : slots[t].plugin = j
      /\ ~HasEvents => subscribed' = {}
  BY <1>1, <1>2, Subscribes
<1>9. thread' \in Thread /\ ThreadShape' /\ TearDownShape'
  BY <1>1, LoopGoesOn
<1>. QED
  BY <1>1, <1>2, <1>4, <1>5, <1>6, <1>7, <1>8, <1>9, InstanceStep

LEMMA AttachedIsAFlag ==
  ASSUME NEW o \in Object, NEW flag \in BOOLEAN
  PROVE  [o EXCEPT !.attached = flag] \in Object
<1>1. [o EXCEPT !.attached = TRUE] \in Object /\ [o EXCEPT !.attached = FALSE] \in Object
  BY DEF Object
<1>. QED
  BY <1>1, Zenon

LEMMA MoveViewInv ==
  ASSUME IInv, NEW s \in Slots, MoveView(s)
  PROVE  IInv'
<1> DEFINE i == slots[s].plugin
<1>1. /\ UNCHANGED <<required, skip_detach, alive, mapped, factory_refs, lost>>
      /\ UNCHANGED subscribed
      /\ slots[s].view_attached /\ thread.op = "none" /\ Runs(objects[i].dll)
  BY DEF MoveView, Ready, Idle, sessionVars
<1>2. UNCHANGED slots /\ UNCHANGED thread
  BY DEF MoveView, sessionVars
<1>3. PICK success \in BOOLEAN : objects' = [objects EXCEPT ![i].attached = success]
  BY DEF MoveView
<1> DEFINE o == [objects[i] EXCEPT !.attached = success]
<1>4. i # 0
  BY <1>1 DEF IInv, SlotShape
<1>5. objects[i] \in Object /\ Owns(slots[s], objects[i], i)
  BY <1>4, MappedIfOwned, OwnedNow
<1>6. /\ o.dll = objects[i].dll /\ o.state = objects[i].state
      /\ o.running = objects[i].running /\ o.refs = objects[i].refs
  BY <1>5 DEF Object
<1>7. o \in Object
  BY <1>5, AttachedIsAFlag
<1>8. objects' = [objects EXCEPT ![i] = o]
  BY <1>3
<1>. HIDE DEF o
<1>9. Owns(slots[s], o, i)
  BY <1>5, <1>6, <1>7, StillOwned DEF Owns
<1>10. slots' = [slots EXCEPT ![s] = slots[s]]
  BY <1>2, SameSlot
<1>11. stray' = FALSE
  BY <1>1, <1>4, NotStray
<1>12. /\ subscribed' \subseteq DOMAIN objects
       /\ \A j \in subscribed' : \E t \in Slots : slots[t].plugin = j
       /\ ~HasEvents => subscribed' = {}
  BY <1>1 DEF IInv, TypeOK, OwnedWhileActive
<1>13. thread' \in Thread /\ ThreadShape' /\ TearDownShape'
  BY <1>1, <1>2, LoopGoesOn
<1>. QED
  BY <1>1, <1>4, <1>6, <1>8, <1>9, <1>10, <1>11, <1>12, <1>13, InstanceStep

LEMMA StartServiceInv ==
  ASSUME IInv, NEW s \in Slots, StartService(s)
  PROVE  IInv'
<1> DEFINE i == slots[s].plugin
           o == [objects[i] EXCEPT !.running = TRUE]
<1>1. /\ UNCHANGED <<required, skip_detach, alive, mapped, factory_refs, lost>>
      /\ UNCHANGED subscribed
      /\ slots[s].service /\ thread.op = "none" /\ Runs(objects[i].dll)
      /\ objects' = [objects EXCEPT ![i] = o]
  BY DEF StartService, Ready, Idle, sessionVars
<1>2. UNCHANGED slots /\ UNCHANGED thread
  BY DEF StartService, sessionVars
<1>3. i # 0
  BY <1>1 DEF IInv, SlotShape
<1>4. objects[i] \in Object /\ Owns(slots[s], objects[i], i)
  BY <1>3, MappedIfOwned, OwnedNow
<1>5. /\ o \in Object /\ o.dll = objects[i].dll /\ o.state = objects[i].state
      /\ o.refs = objects[i].refs
  BY <1>4 DEF Object
<1>. HIDE DEF o
<1>6. Owns(slots[s], o, i)
  BY <1>1, <1>4, <1>5 DEF Owns
<1>7. slots' = [slots EXCEPT ![s] = slots[s]]
  BY <1>2, SameSlot
<1>8. stray' = FALSE
  BY <1>1, <1>3, NotStray
<1>9. /\ subscribed' \subseteq DOMAIN objects
      /\ \A j \in subscribed' : \E t \in Slots : slots[t].plugin = j
      /\ ~HasEvents => subscribed' = {}
  BY <1>1 DEF IInv, TypeOK, OwnedWhileActive
<1>10. thread' \in Thread /\ ThreadShape' /\ TearDownShape'
  BY <1>1, <1>2, LoopGoesOn
<1>. QED
  BY <1>1, <1>3, <1>5, <1>6, <1>7, <1>8, <1>9, <1>10, InstanceStep

-----------------------------------------------------------------------------
(* The teardown, up to the instance's end                                  *)

\* A step of the teardown that finds nothing to give back.
LEMMA NothingToRelease ==
  ASSUME IInv, UNCHANGED <<slots, objects, required, skip_detach, alive, mapped,
                           factory_refs, lost, stray>>,
         subscribed' \subseteq subscribed,
         thread' \in Thread, ThreadShape', TearDownShape'
  PROVE  IInv'
<1>1. TypeOK'
  BY DEF IInv, TypeOK
<1>2. SlotShape' /\ OneOwner' /\ RefsCounted' /\ ModulesCounted'
  BY SlotsStay
<1>3. OwnedWhileActive'
  BY DEF IInv, OwnedWhileActive
<1>. QED
  BY <1>1, <1>2, <1>3 DEF IInv

LEMMA StopServiceInv ==
  ASSUME IInv, StopService
  PROVE  IInv'
<1> DEFINE s == thread.slot
           i == slots[s].plugin
<1>1. /\ thread.step = "service" /\ s \in Slots /\ slots[s].in_use
      /\ slots[s] \in Slot /\ slots \in [Slots -> Slot] /\ Current = slots[s]
  BY OwnSlot DEF StopService, At, IInv, TypeOK
<1>2. /\ UNCHANGED <<required, skip_detach, alive, mapped, factory_refs, lost>>
      /\ Go("events")
  BY DEF StopService
<1>3. CASE ~slots[s].service /\ UNCHANGED <<objects, slots, subscribed, stray>>
  <2>1. thread' \in Thread /\ ThreadShape' /\ TearDownShape'
    <3>1. slots'[s] = slots[s]
      BY <1>3
    <3>. QED
      BY <1>1, <1>2, <1>3, <3>1, TearsDown
  <2>. QED
    BY <1>2, <1>3, <2>1, NothingToRelease
<1>4. CASE /\ slots[s].service
           /\ Runs(objects[i].dll)
           /\ MaySubscribe(i, "stop")
           /\ objects' = [objects EXCEPT ![i] = Released(Stopped(@), "service")]
           /\ slots' = [slots EXCEPT ![s].service = FALSE]
  <2> DEFINE p == Stopped(objects[i])
             o == Released(p, "service")
             n == [slots[s] EXCEPT !.service = FALSE]
  <2>1. i # 0
    BY <1>1, <1>4 DEF IInv, SlotShape
  <2>2. objects[i] \in Object /\ Owns(slots[s], objects[i], i)
    BY <1>1, <2>1, MappedIfOwned, OwnedNow
  <2>3. /\ p \in Object /\ p.dll = objects[i].dll /\ p.state = objects[i].state
        /\ p.refs = objects[i].refs /\ ~p.running
    BY <2>2 DEF Object, Stopped
  <2>4. /\ n \in Slot /\ n.plugin = slots[s].plugin /\ n.in_use = slots[s].in_use
        /\ n.module = slots[s].module /\ n.factory = slots[s].factory
        /\ n.view_attached = slots[s].view_attached /\ n.view = slots[s].view
        /\ n.sink = slots[s].sink /\ ~n.service
    BY <1>1 DEF Slot
  <2>5. slots' = [slots EXCEPT ![s] = n] /\ objects' = [objects EXCEPT ![i] = o]
    BY <1>4
  <2>. HIDE DEF p, n
  <2>6. p.refs["service"] = 1
    BY <1>4, <2>2, <2>3 DEF Owns, One
  <2>7. /\ o \in Object /\ o.dll = p.dll /\ o.state = p.state
        /\ o.running = p.running /\ o.refs["service"] = 0
        /\ o.refs["plugin"] = p.refs["plugin"] /\ o.refs["view"] = p.refs["view"]
        /\ o.refs["sink"] = p.refs["sink"]
    BY <2>3, <2>6, ReleaseCounts, InterfacesAreFour
  <2>. HIDE DEF o
  <2>8. Owns(n, o, i)
    BY <1>1, <2>2, <2>3, <2>4, <2>7 DEF Owns, One
  <2>9. slots'[s] = n
    BY <1>1, <2>5
  <2>10. thread' \in Thread /\ ThreadShape' /\ TearDownShape'
    BY <1>1, <1>2, <2>4, <2>9, TearsDown
  <2>11. stray' = FALSE
    BY <1>1, <1>4, <2>1, NotStray
  <2>12. /\ subscribed' \subseteq DOMAIN objects
         /\ \A j \in subscribed' : \E t \in Slots : slots[t].plugin = j
         /\ ~HasEvents => subscribed' = {}
    BY <1>1, <1>4, <2>1, Subscribes
  <2>13. o.dll = objects[i].dll
    BY <2>3, <2>7
  <2>. HIDE DEF s
  <2>. QED
    BY <1>1, <1>2, <2>1, <2>4, <2>5, <2>8, <2>10, <2>11, <2>12, <2>13, InstanceStep
<1>. QED
  BY <1>1, <1>3, <1>4 DEF StopService

LEMMA DropEventsInv ==
  ASSUME IInv, DropEvents
  PROVE  IInv'
<1> DEFINE s == thread.slot
           i == slots[s].plugin
<1>1. /\ thread.step = "events" /\ s \in Slots /\ slots[s].in_use
      /\ slots[s] \in Slot /\ slots \in [Slots -> Slot] /\ Current = slots[s]
      /\ ~slots[s].service
  BY OwnSlot DEF DropEvents, At, IInv, TypeOK, TearDownShape
<1>2. /\ UNCHANGED <<required, skip_detach, alive, mapped, factory_refs, lost>>
      /\ Go("view") /\ subscribed' = DropOwner(i)
  BY <1>1 DEF DropEvents
<1>3. /\ subscribed' \subseteq subscribed /\ i \notin subscribed'
      /\ subscribed' \subseteq DOMAIN objects
      /\ \A j \in subscribed' : \E t \in Slots : slots[t].plugin = j
      /\ ~HasEvents => subscribed' = {}
  <2>1. subscribed' \subseteq subscribed /\ i \notin subscribed'
    <3>1. 0 \notin subscribed /\ (~HasEvents => subscribed = {})
      BY DEF IInv, TypeOK, OwnedWhileActive
    <3>. QED
      BY <1>2, <3>1 DEF DropOwner
  <2>. QED
    BY <2>1 DEF IInv, TypeOK, OwnedWhileActive
<1>4. CASE ~slots[s].sink /\ UNCHANGED <<objects, slots, stray>>
  <2>1. thread' \in Thread /\ ThreadShape' /\ TearDownShape'
    <3>1. slots'[s] = slots[s]
      BY <1>4
    <3>. QED
      BY <1>1, <1>2, <1>3, <1>4, <3>1, TearsDown
  <2>. QED
    BY <1>2, <1>3, <1>4, <2>1, NothingToRelease
<1>5. CASE /\ slots[s].sink
           /\ Runs(objects[i].dll)
           /\ objects' = [objects EXCEPT ![i] = Released(@, "sink")]
           /\ slots' = [slots EXCEPT ![s].sink = FALSE]
  <2> DEFINE p == objects[i]
             o == Released(p, "sink")
             n == [slots[s] EXCEPT !.sink = FALSE]
  <2>1. i # 0
    BY <1>1, <1>5 DEF IInv, SlotShape
  <2>2. p \in Object /\ Owns(slots[s], p, i)
    BY <1>1, <2>1, MappedIfOwned, OwnedNow
  <2>3. /\ n \in Slot /\ n.plugin = slots[s].plugin /\ n.in_use = slots[s].in_use
        /\ n.module = slots[s].module /\ n.factory = slots[s].factory
        /\ n.view_attached = slots[s].view_attached /\ n.view = slots[s].view
        /\ n.service = slots[s].service /\ ~n.sink
    BY <1>1 DEF Slot
  <2>4. slots' = [slots EXCEPT ![s] = n] /\ objects' = [objects EXCEPT ![i] = o]
    BY <1>5
  <2>. HIDE DEF n
  <2>5. p.refs["sink"] = 1
    BY <1>5, <2>2 DEF Owns, One
  <2>6. /\ o \in Object /\ o.dll = p.dll /\ o.state = p.state
        /\ o.running = p.running /\ o.refs["sink"] = 0
        /\ o.refs["plugin"] = p.refs["plugin"] /\ o.refs["view"] = p.refs["view"]
        /\ o.refs["service"] = p.refs["service"]
    BY <2>2, <2>5, ReleaseCounts, InterfacesAreFour
  <2>. HIDE DEF o
  <2>7. Owns(n, o, i)
    BY <1>1, <2>2, <2>3, <2>6 DEF Owns, One
  <2>8. slots'[s] = n
    BY <1>1, <2>4
  <2>9. thread' \in Thread /\ ThreadShape' /\ TearDownShape'
    BY <1>1, <1>2, <1>3, <2>3, <2>8, TearsDown
  <2>10. stray' = FALSE
    BY <1>1, <1>5, <2>1, NotStray
  <2>11. o.dll = objects[i].dll
    BY <2>6
  <2>. HIDE DEF s
  <2>. QED
    BY <1>1, <1>2, <1>3, <2>1, <2>3, <2>4, <2>7, <2>9, <2>10, <2>11, InstanceStep
<1>. QED
  BY <1>1, <1>4, <1>5 DEF DropEvents

LEMMA ReleaseViewInv ==
  ASSUME Mannered, IInv, ReleaseView
  PROVE  IInv'
<1> DEFINE s == thread.slot
           i == slots[s].plugin
<1>1. /\ thread.step = "view" /\ s \in Slots /\ slots[s].in_use
      /\ slots[s] \in Slot /\ slots \in [Slots -> Slot] /\ Current = slots[s]
      /\ ~slots[s].service /\ ~slots[s].sink /\ i \notin subscribed
  BY OwnSlot DEF ReleaseView, At, IInv, TypeOK, TearDownShape
<1>2. /\ UNCHANGED <<required, skip_detach, alive, mapped, factory_refs, lost>>
      /\ Go("terminate")
  BY DEF ReleaseView
<1>3. CASE /\ ~slots[s].view
           /\ slots' = [slots EXCEPT ![s].view_attached = FALSE]
           /\ UNCHANGED <<objects, subscribed, stray>>
  <2>1. ~slots[s].view_attached
    BY <1>1, <1>3 DEF IInv, SlotShape
  <2>2. [slots[s] EXCEPT !.view_attached = FALSE] = slots[s]
    BY <1>1, <2>1 DEF Slot
  <2>3. UNCHANGED slots
    BY <1>1, <1>3, <2>2
  <2>4. thread' \in Thread /\ ThreadShape' /\ TearDownShape'
    <3>1. slots'[s] = slots[s] /\ UNCHANGED subscribed
      BY <1>3, <2>3
    <3>. QED
      BY <1>1, <1>2, <1>3, <3>1, TearsDown
  <2>5. UNCHANGED <<objects, stray>> /\ subscribed' \subseteq subscribed
    BY <1>3
  <2>. QED
    BY <1>2, <2>3, <2>4, <2>5, NothingToRelease
<1>4. CASE /\ slots[s].view
           /\ Runs(objects[i].dll)
           /\ IF Detaches(Current) THEN MaySubscribe(i, "detach")
                                   ELSE UNCHANGED subscribed
           /\ objects' = [objects EXCEPT ![i] =
                Released(Detached(@, Current), "view")]
           /\ slots' = [slots EXCEPT ![s] =
                [@ EXCEPT !.view = FALSE, !.view_attached = FALSE]]
  <2> DEFINE p == objects[i]
             r == Detached(p, Current)
             o == Released(r, "view")
             n == [slots[s] EXCEPT !.view = FALSE, !.view_attached = FALSE]
  <2>1. i # 0
    BY <1>1, <1>4 DEF IInv, SlotShape
  <2>2. p \in Object /\ Owns(slots[s], p, i)
    BY <1>1, <2>1, MappedIfOwned, OwnedNow
  <2>3. /\ n \in Slot /\ n.plugin = slots[s].plugin /\ n.in_use = slots[s].in_use
        /\ n.module = slots[s].module /\ n.factory = slots[s].factory
        /\ ~n.view_attached /\ ~n.view
        /\ n.service = slots[s].service /\ n.sink = slots[s].sink
    BY <1>1 DEF Slot
  <2>4. slots' = [slots EXCEPT ![s] = n] /\ objects' = [objects EXCEPT ![i] = o]
    BY <1>4
  <2>. HIDE DEF n
  <2>5. p.refs["view"] = 1
    BY <1>4, <2>2 DEF Owns, One
  <2>6. /\ r.dll = p.dll /\ r.state = p.state /\ r.running = p.running
        /\ r.refs = p.refs
    BY <2>2 DEF Object, Detached
  <2>7. r \in Object
    <3>1. (p.attached /\ ~Detaches(Current)) \in BOOLEAN
      OBVIOUS
    <3>. QED
      BY <2>2, <3>1, AttachedIsAFlag DEF Detached
  <2>. HIDE DEF r
  <2>8. /\ o \in Object /\ o.dll = r.dll /\ o.state = r.state
        /\ o.running = r.running /\ o.refs["view"] = 0
        /\ o.refs["plugin"] = r.refs["plugin"] /\ o.refs["sink"] = r.refs["sink"]
        /\ o.refs["service"] = r.refs["service"]
    BY <2>5, <2>6, <2>7, ReleaseCounts, InterfacesAreFour
  <2>. HIDE DEF o
  <2>9. Owns(n, o, i)
    BY <1>1, <2>2, <2>3, <2>6, <2>8 DEF Owns, One
  <2>10. UNCHANGED subscribed
    <3>1. "detach" \notin SubscribesIn
      BY DEF Mannered
    <3>. QED
      BY <1>1, <1>4, <2>1, <3>1, Subscribes
  <2>11. slots'[s] = n
    BY <1>1, <2>4
  <2>12. thread' \in Thread /\ ThreadShape' /\ TearDownShape'
    BY <1>1, <1>2, <2>3, <2>10, <2>11, TearsDown
  <2>13. stray' = FALSE
    BY <1>1, <1>4, <2>1, NotStray
  <2>14. /\ subscribed' \subseteq DOMAIN objects
         /\ \A j \in subscribed' : \E t \in Slots : slots[t].plugin = j
         /\ ~HasEvents => subscribed' = {}
    BY <2>10 DEF IInv, TypeOK, OwnedWhileActive
  <2>15. o.dll = objects[i].dll
    BY <2>6, <2>8
  <2>. HIDE DEF s
  <2>. QED
    BY <1>1, <1>2, <2>1, <2>3, <2>4, <2>9, <2>12, <2>13, <2>14, <2>15, InstanceStep
<1>. QED
  BY <1>1, <1>3, <1>4 DEF ReleaseView

LEMMA TerminatePluginInv ==
  ASSUME Mannered, IInv, TerminatePlugin
  PROVE  IInv'
<1> DEFINE s == thread.slot
           i == slots[s].plugin
<1>1. /\ thread.step = "terminate" /\ s \in Slots /\ slots[s].in_use
      /\ slots[s] \in Slot /\ slots \in [Slots -> Slot] /\ Current = slots[s]
      /\ ~slots[s].service /\ ~slots[s].sink /\ ~slots[s].view
      /\ i \notin subscribed
  BY OwnSlot DEF TerminatePlugin, At, IInv, TypeOK, TearDownShape
<1>2. /\ UNCHANGED <<required, skip_detach, alive, mapped, factory_refs, lost>>
      /\ Go("release")
  BY DEF TerminatePlugin
<1>3. CASE i = 0 /\ UNCHANGED <<objects, slots, subscribed, stray>>
  <2>1. thread' \in Thread /\ ThreadShape' /\ TearDownShape'
    <3>1. slots'[s] = slots[s] /\ UNCHANGED subscribed
      BY <1>3
    <3>. QED
      BY <1>1, <1>2, <1>3, <3>1, TearsDown
  <2>. QED
    BY <1>2, <1>3, <2>1, NothingToRelease
<1>4. CASE /\ i # 0
           /\ Runs(objects[i].dll)
           /\ MaySubscribe(i, "terminate")
           /\ objects' = [objects EXCEPT ![i] =
                [Released(@, "plugin") EXCEPT !.state = "terminated",
                                              !.attached = FALSE]]
           /\ slots' = [slots EXCEPT ![s].plugin = 0]
  <2> DEFINE p == objects[i]
             r == Released(p, "plugin")
             o == [r EXCEPT !.state = "terminated", !.attached = FALSE]
             n == [slots[s] EXCEPT !.plugin = 0]
  <2>1. i \in DOMAIN objects /\ objects \in Seq(Object) /\ p \in Object
        /\ Owns(slots[s], p, i) /\ slots[s].module # NoDll
    BY <1>1, <1>4, MappedIfOwned, OwnedNow DEF IInv, TypeOK
  <2>2. /\ n \in Slot /\ n.plugin = 0 /\ n.in_use
        /\ n.module = slots[s].module /\ n.factory = slots[s].factory
        /\ n.view_attached = slots[s].view_attached /\ ~n.view
        /\ ~n.service /\ ~n.sink
    BY <1>1, SessionConstants DEF Slot, SessionConstants
  <2>3. ~n.view_attached
    BY <1>1, <2>2 DEF IInv, SlotShape
  <2>4. slots' = [slots EXCEPT ![s] = n] /\ objects' = [objects EXCEPT ![i] = o]
    BY <1>4
  <2>. HIDE DEF n
  <2>5. /\ p.refs["plugin"] = 1 /\ p.refs["view"] = 0
        /\ p.refs["service"] = 0 /\ p.refs["sink"] = 0 /\ ~p.running
    BY <1>1, <2>1 DEF Owns, One
  <2>6. /\ r \in Object /\ r.dll = p.dll /\ r.running = p.running
        /\ \A kind \in Interface : r.refs[kind] = 0
    BY <2>1, <2>5, ReleaseCounts DEF Interface
  <2>. HIDE DEF r
  <2>7. /\ o \in Object /\ o.dll = r.dll /\ o.state = "terminated"
        /\ o.running = r.running /\ o.refs = r.refs
    BY <2>6 DEF Object
  <2>. HIDE DEF o
  <2>8. /\ slots' \in [Slots -> Slot] /\ slots'[s] = n
        /\ \A t \in Slots : t # s => slots'[t] = slots[t]
    BY <1>1, <2>2, <2>4, OneSlotChanged
  <2>9. /\ objects' \in Seq(Object) /\ Len(objects') = Len(objects)
        /\ DOMAIN objects' = DOMAIN objects /\ objects'[i] = o
        /\ \A j \in DOMAIN objects : j # i => objects'[j] = objects[j]
    BY <2>1, <2>4, <2>7, OneInstanceChanged
  <2>10. UNCHANGED subscribed
    <3>1. "terminate" \notin SubscribesIn
      BY DEF Mannered
    <3>. QED
      BY <1>1, <1>4, <3>1, Subscribes
  <2>11. \A t \in Slots : slots[t].plugin = i => t = s
    BY <1>1, <1>4 DEF IInv, OneOwner
  <2>12. thread' \in Thread /\ ThreadShape' /\ TearDownShape'
    <3>1. n.plugin \notin subscribed'
      BY <2>2, <2>10 DEF IInv, TypeOK
    <3>. QED
      BY <1>1, <1>2, <2>2, <2>8, <3>1, TearsDown
  <2>13. stray' = FALSE
    BY <1>1, <1>4, NotStray
  <2>14. TypeOK'
    BY <1>2, <2>8, <2>9, <2>10, <2>12, <2>13 DEF IInv, TypeOK
  <2>15. SlotShape'
    <3>1. ASSUME NEW t \in Slots, t # s, slots[t].plugin # 0
          PROVE  /\ slots[t].plugin \in DOMAIN objects'
                 /\ slots[t].module = objects'[slots[t].plugin].dll
      BY <2>9, <2>11, <3>1 DEF IInv, SlotShape
    <3>. QED
      BY <2>1, <2>2, <2>3, <2>8, <3>1 DEF IInv, SlotShape
  <2>16. OneOwner'
    BY <2>2, <2>8 DEF IInv, OneOwner
  <2>17. RefsCounted'
    <3>1. ASSUME NEW t \in Slots, slots'[t].plugin # 0
          PROVE  LET refs == objects'[slots'[t].plugin].refs
                 IN  /\ refs["plugin"] = 1
                     /\ refs["view"] = One(slots'[t].view)
                     /\ refs["service"] = One(slots'[t].service)
                     /\ refs["sink"] = One(slots'[t].sink)
      <4>1. t # s /\ slots'[t] = slots[t] /\ slots[t].plugin # 0
        BY <2>2, <2>8, <3>1
      <4>2. objects'[slots[t].plugin] = objects[slots[t].plugin]
        BY <2>9, <2>11, <4>1 DEF IInv, SlotShape
      <4>. QED
        BY <4>1, <4>2 DEF IInv, RefsCounted
    <3>2. ASSUME NEW j \in DOMAIN objects', \A t \in Slots : slots'[t].plugin # j
          PROVE  \A kind \in Interface : objects'[j].refs[kind] = 0
      <4>1. CASE j = i
        BY <2>6, <2>7, <2>9, <4>1
      <4>2. CASE j # i
        <5>1. j \in DOMAIN objects /\ objects'[j] = objects[j]
          BY <2>9, <4>2
        <5>2. \A t \in Slots : slots[t].plugin # j
          BY <2>8, <3>2, <4>2
        <5>. QED
          BY <5>1, <5>2 DEF IInv, RefsCounted
      <4>. QED
        BY <4>1, <4>2
    <3>. QED
      BY <3>1, <3>2 DEF RefsCounted
  <2>18. OwnedWhileActive'
    <3>1. ASSUME NEW j \in DOMAIN objects', objects'[j].running
          PROVE  \E t \in Slots : slots'[t].plugin = j /\ slots'[t].service
      <4>1. j # i /\ j \in DOMAIN objects /\ objects'[j] = objects[j]
        BY <2>5, <2>6, <2>7, <2>9, <3>1
      <4>2. PICK t \in Slots : slots[t].plugin = j /\ slots[t].service
        BY <3>1, <4>1 DEF IInv, OwnedWhileActive
      <4>. QED
        BY <2>8, <4>1, <4>2
    <3>2. ASSUME NEW j \in subscribed'
          PROVE  \E t \in Slots : slots'[t].plugin = j
      <4>1. j \in subscribed /\ j # i
        BY <1>1, <2>10
      <4>2. PICK t \in Slots : slots[t].plugin = j
        BY <4>1 DEF IInv, OwnedWhileActive
      <4>. QED
        BY <2>8, <4>1, <4>2
    <3>3. ASSUME NEW j \in DOMAIN objects', objects'[j].state = "terminated",
                 NEW t \in Slots
          PROVE  slots'[t].plugin # j
      <4>1. CASE t = s
        BY <2>2, <2>8, <2>9, <4>1 DEF IInv, TypeOK
      <4>2. CASE t # s /\ j = i
        BY <2>8, <2>11, <4>2
      <4>3. CASE t # s /\ j # i
        BY <2>8, <2>9, <3>3, <4>3 DEF IInv, OwnedWhileActive
      <4>. QED
        BY <4>1, <4>2, <4>3
    <3>. QED
      BY <2>10, <3>1, <3>2, <3>3 DEF IInv, OwnedWhileActive
  <2>19. ModulesCounted'
    <3>1. \A t \in Slots : /\ slots'[t].module = slots[t].module
                           /\ slots'[t].factory = slots[t].factory
      BY <2>2, <2>8
    <3>. QED
      BY <1>2, <3>1, ModulesStay DEF IInv
  <2>. QED
    BY <2>12, <2>13, <2>14, <2>15, <2>16, <2>17, <2>18, <2>19 DEF IInv
<1>. QED
  BY <1>1, <1>3, <1>4 DEF TerminatePlugin

-----------------------------------------------------------------------------
(* The teardown, from the factory to the free slot                         *)

LEMMA OneFewer ==
  ASSUME NEW S \in SUBSET Slots, NEW s \in S
  PROVE  Cardinality(S \ {s}) = Cardinality(S) - 1 /\ Cardinality(S) \in Nat \ {0}
<1>1. IsFiniteSet(S) /\ Cardinality(S) \in Nat
  BY SlotsAreFinite
<1>2. Cardinality(S) # 0
  BY <1>1, FS_EmptySet
<1>3. Cardinality(S \ {s}) = Cardinality(S) - 1
  BY <1>1, FS_RemoveElement
<1>. QED
  BY <1>1, <1>2, <1>3

\* A slot without an instance changes: nothing else is concerned.
LEMMA EmptyHandedStep ==
  ASSUME IInv, NEW s \in Slots, NEW n \in Slot, slots[s].plugin = 0, n.plugin = 0,
         slots' = [slots EXCEPT ![s] = n],
         UNCHANGED <<objects, subscribed>>,
         ~n.view, ~n.service, ~n.sink, ~n.view_attached,
         n.factory => n.module # NoDll,
         ~n.in_use => n = EmptySlot
  PROVE  /\ slots' \in [Slots -> Slot] /\ slots'[s] = n
         /\ \A t \in Slots : t # s => slots'[t] = slots[t]
         /\ SlotShape' /\ OneOwner' /\ RefsCounted' /\ OwnedWhileActive'
<1>1. /\ slots' \in [Slots -> Slot] /\ slots'[s] = n
      /\ \A t \in Slots : t # s => slots'[t] = slots[t]
  BY OneSlotChanged DEF IInv, TypeOK
<1>2. SlotShape'
  BY <1>1 DEF IInv, SlotShape
<1>3. OneOwner'
  BY <1>1 DEF IInv, OneOwner
<1>4. \A t \in Slots : slots'[t].plugin = slots[t].plugin
  BY <1>1
<1>5. RefsCounted'
  <2>1. ASSUME NEW t \in Slots, slots'[t].plugin # 0
        PROVE  LET refs == objects'[slots'[t].plugin].refs
               IN  /\ refs["plugin"] = 1
                   /\ refs["view"] = One(slots'[t].view)
                   /\ refs["service"] = One(slots'[t].service)
                   /\ refs["sink"] = One(slots'[t].sink)
    <3>1. slots'[t] = slots[t] /\ slots[t].plugin # 0
      BY <1>1, <2>1
    <3>. QED
      BY <3>1 DEF IInv, RefsCounted
  <2>2. ASSUME NEW j \in DOMAIN objects', \A t \in Slots : slots'[t].plugin # j
        PROVE  \A kind \in Interface : objects'[j].refs[kind] = 0
    BY <1>4, <2>2 DEF IInv, RefsCounted
  <2>. QED
    BY <2>1, <2>2 DEF RefsCounted
<1>6. OwnedWhileActive'
  <2>1. ASSUME NEW j \in DOMAIN objects', objects'[j].running
        PROVE  \E t \in Slots : slots'[t].plugin = j /\ slots'[t].service
    <3>1. PICK t \in Slots : slots[t].plugin = j /\ slots[t].service
      BY <2>1 DEF IInv, OwnedWhileActive
    <3>2. t # s
      BY <2>1, <3>1 DEF IInv, TypeOK
    <3>. QED
      BY <1>1, <3>1, <3>2
  <2>2. \A j \in subscribed' : \E t \in Slots : slots'[t].plugin = j
    BY <1>4 DEF IInv, OwnedWhileActive
  <2>3. \A j \in DOMAIN objects' : objects'[j].state = "terminated" =>
          \A t \in Slots : slots'[t].plugin # j
    BY <1>4 DEF IInv, OwnedWhileActive
  <2>. QED
    BY <2>1, <2>2, <2>3 DEF IInv, OwnedWhileActive
<1>. QED
  BY <1>1, <1>2, <1>3, <1>5, <1>6

LEMMA ReleaseFactoryInv ==
  ASSUME IInv, ReleaseFactory
  PROVE  IInv'
<1> DEFINE s == thread.slot
           d == slots[s].module
           n == [slots[s] EXCEPT !.factory = FALSE]
<1>1. /\ thread.step = "release" /\ s \in Slots /\ slots[s].in_use
      /\ slots[s] \in Slot /\ slots \in [Slots -> Slot] /\ Current = slots[s]
      /\ ~slots[s].service /\ ~slots[s].sink /\ ~slots[s].view
      /\ slots[s].plugin = 0
  BY OwnSlot DEF ReleaseFactory, At, IInv, TypeOK, TearDownShape
<1>2. /\ UNCHANGED <<required, skip_detach, alive, mapped, lost>>
      /\ UNCHANGED <<objects, subscribed>>
      /\ Go("module")
  BY DEF ReleaseFactory
<1>3. 0 \notin subscribed /\ ~slots[s].view_attached
  BY <1>1 DEF IInv, TypeOK, SlotShape
<1>4. CASE ~slots[s].factory /\ UNCHANGED <<factory_refs, slots, stray>>
  <2>1. thread' \in Thread /\ ThreadShape' /\ TearDownShape'
    <3>1. slots'[s] = slots[s] /\ UNCHANGED subscribed
      BY <1>2, <1>4
    <3>. QED
      BY <1>1, <1>2, <1>3, <1>4, <3>1, TearsDown
  <2>. QED
    BY <1>2, <1>4, <2>1, NothingToRelease
<1>5. CASE /\ slots[s].factory
           /\ Runs(d)
           /\ factory_refs' = [factory_refs EXCEPT ![d] = @ - 1]
           /\ slots' = [slots EXCEPT ![s].factory = FALSE]
  <2>1. d \in Dlls /\ d # NoDll
    BY <1>1, <1>5 DEF IInv, SlotShape, Slot
  <2>2. stray' = FALSE
    BY <1>1, <1>5, <2>1, MappedIfUsed DEF Runs, IInv, TypeOK
  <2>3. /\ n \in Slot /\ n.plugin = slots[s].plugin /\ n.in_use = slots[s].in_use
        /\ n.module = slots[s].module /\ ~n.factory
        /\ n.view_attached = slots[s].view_attached /\ n.view = slots[s].view
        /\ n.service = slots[s].service /\ n.sink = slots[s].sink
    BY <1>1 DEF Slot
  <2>4. slots' = [slots EXCEPT ![s] = n]
    BY <1>5
  <2>. HIDE DEF n
  <2>5. /\ slots' \in [Slots -> Slot] /\ slots'[s] = n
        /\ \A t \in Slots : t # s => slots'[t] = slots[t]
        /\ SlotShape' /\ OneOwner' /\ RefsCounted' /\ OwnedWhileActive'
    <3>1. /\ n \in Slot /\ n.plugin = 0 /\ n.in_use /\ ~n.factory /\ ~n.view
          /\ ~n.service /\ ~n.sink /\ ~n.view_attached
      BY <1>1, <1>3, <2>3
    <3>. HIDE DEF s
    <3>. QED
      BY <1>1, <1>2, <2>4, <3>1, EmptyHandedStep
  <2>6. thread' \in Thread /\ ThreadShape' /\ TearDownShape'
    <3>1. n.plugin \notin subscribed'
      BY <1>1, <1>2, <1>3, <2>3
    <3>. QED
      BY <1>1, <1>2, <2>3, <2>5, <3>1, TearsDown
  <2>7. ASSUME NEW e \in Dlls
        PROVE  /\ mapped'[e] = Cardinality(Using(e)')
               /\ factory_refs'[e] = Cardinality(Using(e)')
                    + Cardinality({t \in Using(e)' : slots'[t].factory}) + lost'[e]
               /\ factory_refs'[e] \in Nat
    <3>1. /\ mapped[e] = Cardinality(Using(e))
          /\ factory_refs[e] = Cardinality(Using(e))
               + Cardinality({t \in Using(e) : slots[t].factory}) + lost[e]
      BY DEF IInv, ModulesCounted
    <3>2. /\ Cardinality(Using(e)) \in Nat
          /\ Cardinality({t \in Using(e) : slots[t].factory}) \in Nat
          /\ lost'[e] = lost[e] /\ lost[e] \in Nat
      BY <1>2, SlotsAreFinite DEF Using, IInv, TypeOK
    <3>3. Using(e)' = Using(e)
      BY <1>1, <2>3, <2>5 DEF Using
    <3>4. Cardinality(Using(e)') = Cardinality(Using(e)) /\ mapped'[e] = mapped[e]
      BY <1>2, <3>3, Zenon
    <3>5. CASE e = d
      <4>1. /\ {t \in Using(e)' : slots'[t].factory}
                 = {t \in Using(e) : slots[t].factory} \ {s}
            /\ s \in {t \in Using(e) : slots[t].factory}
        BY <1>1, <1>5, <2>3, <2>5, <3>3, <3>5 DEF Using
      <4>2. /\ Cardinality({t \in Using(e)' : slots'[t].factory})
                 = Cardinality({t \in Using(e) : slots[t].factory}) - 1
            /\ Cardinality({t \in Using(e) : slots[t].factory}) # 0
        <5>1. {t \in Using(e) : slots[t].factory} \in SUBSET Slots
          BY DEF Using
        <5>. QED
          BY <4>1, <5>1, OneFewer
      <4>3. factory_refs'[e] = factory_refs[e] - 1
        BY <1>5, <2>1, <3>5 DEF IInv, TypeOK
      <4>. QED
        BY <3>1, <3>2, <3>4, <4>2, <4>3
    <3>6. CASE e # d
      <4>1. {t \in Using(e)' : slots'[t].factory} = {t \in Using(e) : slots[t].factory}
        BY <1>1, <2>3, <2>5, <3>3, <3>6 DEF Using
      <4>2. Cardinality({t \in Using(e)' : slots'[t].factory})
              = Cardinality({t \in Using(e) : slots[t].factory})
        BY <4>1, Zenon
      <4>3. factory_refs'[e] = factory_refs[e]
        BY <1>5, <2>1, <3>6 DEF IInv, TypeOK
      <4>. QED
        BY <3>1, <3>2, <3>4, <4>2, <4>3
    <3>. QED
      BY <3>5, <3>6
  <2>8. factory_refs' \in [Dlls -> Nat]
    <3>1. factory_refs' \in [Dlls -> Int]
      BY <1>5, <2>1 DEF IInv, TypeOK
    <3>. QED
      BY <2>7, <3>1
  <2>9. TypeOK'
    BY <1>2, <2>2, <2>5, <2>6, <2>8 DEF IInv, TypeOK
  <2>10. ModulesCounted'
    BY <2>7 DEF ModulesCounted
  <2>. QED
    BY <2>2, <2>5, <2>6, <2>9, <2>10 DEF IInv
<1>. QED
  BY <1>1, <1>4, <1>5 DEF ReleaseFactory

LEMMA VacatedIsEmpty ==
  ASSUME NEW r \in Slot, r.plugin = 0, ~r.view, ~r.service, ~r.sink, ~r.factory,
         ~r.view_attached
  PROVE  Vacated(r) = EmptySlot
<1> DEFINE n == Vacated(r)
<1>1. n \in Slot
  BY SessionConstants DEF Slot, Vacated, SessionConstants
<1>2. /\ n.plugin = 0 /\ n.view = FALSE /\ n.service = FALSE /\ n.sink = FALSE
      /\ n.factory = FALSE /\ n.view_attached = FALSE /\ n.module = NoDll
      /\ n.descriptor = FALSE /\ n.in_use = FALSE /\ n.agreed = {}
  BY DEF Slot, Vacated
<1>. HIDE DEF n
<1>3. n = EmptySlot
  BY <1>1, <1>2 DEF Slot, EmptySlot
<1>. QED
  BY <1>3 DEF n

LEMMA UnloadModuleInv ==
  ASSUME IInv, UnloadModule
  PROVE  IInv'
<1> DEFINE s == thread.slot
           d == slots[s].module
<1>1. /\ thread.step = "module" /\ s \in Slots /\ slots[s].in_use
      /\ slots[s] \in Slot /\ slots \in [Slots -> Slot] /\ Current = slots[s]
      /\ ~slots[s].service /\ ~slots[s].sink /\ ~slots[s].view
      /\ slots[s].plugin = 0 /\ ~slots[s].factory
  BY OwnSlot DEF UnloadModule, At, IInv, TypeOK, TearDownShape
<1>2. ~slots[s].view_attached
  BY <1>1 DEF IInv, SlotShape
<1>3. UNCHANGED <<required, skip_detach, lost>> /\ UNCHANGED <<objects, subscribed>>
  BY DEF UnloadModule
<1>4. slots' = [slots EXCEPT ![s] = EmptySlot]
  <2>1. slots' = [slots EXCEPT ![s] = Vacated(slots[s])]
    BY DEF UnloadModule
  <2>2. Vacated(slots[s]) = EmptySlot
    BY <1>1, <1>2, VacatedIsEmpty
  <2>. QED
    BY <2>1, <2>2
<1>5. /\ slots' \in [Slots -> Slot] /\ slots'[s] = EmptySlot
      /\ \A t \in Slots : t # s => slots'[t] = slots[t]
      /\ SlotShape' /\ OneOwner' /\ RefsCounted' /\ OwnedWhileActive'
  <2>. HIDE DEF s
  <2>. QED
    BY <1>1, <1>3, <1>4, EmptyIsASlot, EmptyHoldsNothing, EmptyHandedStep
<1>6. /\ thread' \in Thread /\ ThreadShape' /\ TearDownShape'
      /\ alive' \in BOOLEAN
  <2>1. ASSUME thread.op \in {"unload_all", "destroy"},
               NEW t \in Slots, NextSlot(t, s), TearDownFrom(t, thread.op)
        PROVE  thread' \in Thread /\ ThreadShape' /\ TearDownShape'
    <3>1. t # s /\ slots[t].in_use
      BY <1>1, <2>1, ZeroIsNoSlot DEF NextSlot
    <3>2. slots[t] = slots'[t] /\ slots'[t].in_use
      BY <1>5, <3>1
    <3>. QED
      BY <2>1, <3>2, TearDownThread
  <2>2. \/ /\ thread.op \in {"unload_all", "destroy"}
           /\ \E t \in Slots : NextSlot(t, s) /\ TearDownFrom(t, thread.op)
           /\ UNCHANGED alive
        \/ AllTornDown(thread.op)
        \/ Return /\ UNCHANGED alive
    BY DEF UnloadModule
  <2>3. alive' \in BOOLEAN
    BY <2>2 DEF AllTornDown, IInv, TypeOK
  <2>4. Return => thread' \in Thread /\ ThreadShape' /\ TearDownShape'
    BY BackInTheLoop
  <2>. QED
    BY <2>1, <2>2, <2>3, <2>4 DEF AllTornDown
<1>7. \/ /\ d # NoDll
         /\ Runs(d)
         /\ factory_refs' = [factory_refs EXCEPT ![d] = @ - 1]
         /\ mapped' = [mapped EXCEPT ![d] = @ - 1]
      \/ /\ d = NoDll
         /\ UNCHANGED <<factory_refs, mapped, stray>>
  BY <1>1 DEF UnloadModule
<1>8. stray' = FALSE
  <2>1. CASE d = NoDll
    BY <1>7, <2>1 DEF IInv, TypeOK
  <2>2. CASE d # NoDll
    <3>1. mapped[d] # 0
      BY <1>1, <2>2, MappedIfUsed DEF IInv
    <3>. QED
      BY <1>7, <2>2, <3>1 DEF Runs, IInv, TypeOK
  <2>. QED
    BY <2>1, <2>2
<1>9. ASSUME NEW e \in Dlls
      PROVE  /\ mapped'[e] = Cardinality(Using(e)')
             /\ factory_refs'[e] = Cardinality(Using(e)')
                  + Cardinality({t \in Using(e)' : slots'[t].factory}) + lost'[e]
             /\ mapped'[e] \in Nat /\ factory_refs'[e] \in Nat
  <2>1. /\ mapped[e] = Cardinality(Using(e))
        /\ factory_refs[e] = Cardinality(Using(e))
             + Cardinality({t \in Using(e) : slots[t].factory}) + lost[e]
    BY DEF IInv, ModulesCounted
  <2>2. /\ Using(e) \in SUBSET Slots /\ Cardinality(Using(e)) \in Nat
        /\ Cardinality({t \in Using(e) : slots[t].factory}) \in Nat
        /\ lost'[e] = lost[e] /\ lost[e] \in Nat
    BY <1>3, SlotsAreFinite DEF Using, IInv, TypeOK
  <2>3. e # NoDll
    BY SessionConstants DEF SessionConstants
  <2>4. {t \in Using(e)' : slots'[t].factory} = {t \in Using(e) : slots[t].factory}
    BY <1>1, <1>5, <2>3, EmptyHoldsNothing DEF Using
  <2>5. Cardinality({t \in Using(e)' : slots'[t].factory})
          = Cardinality({t \in Using(e) : slots[t].factory})
    BY <2>4, Zenon
  <2>6. CASE e = d
    <3>1. Using(e)' = Using(e) \ {s} /\ s \in Using(e)
      BY <1>1, <1>5, <2>3, <2>6, EmptyHoldsNothing DEF Using
    <3>2. Cardinality(Using(e)') = Cardinality(Using(e)) - 1 /\ Cardinality(Using(e)) # 0
      BY <2>2, <3>1, OneFewer
    <3>3. mapped'[e] = mapped[e] - 1 /\ factory_refs'[e] = factory_refs[e] - 1
      BY <1>7, <2>3, <2>6 DEF IInv, TypeOK
    <3>4. mapped'[e] = Cardinality(Using(e)') /\ mapped'[e] \in Nat
      BY <2>1, <2>2, <3>2, <3>3
    <3>5. factory_refs'[e] = Cardinality(Using(e)')
            + Cardinality({t \in Using(e)' : slots'[t].factory}) + lost'[e]
      BY <2>1, <2>2, <2>5, <3>2, <3>3
    <3>6. factory_refs'[e] \in Nat
      <4>1. mapped[e] \in Nat
        BY <2>1, <2>2
      <4>2. factory_refs'[e] = mapped'[e] + Cardinality({t \in Using(e) : slots[t].factory})
                                 + lost[e]
        BY <2>1, <2>2, <3>3, <4>1
      <4>. QED
        BY <2>2, <3>4, <4>2
    <3>. QED
      BY <3>4, <3>5, <3>6
  <2>7. CASE e # d
    <3>1. Using(e)' = Using(e)
      BY <1>1, <1>5, <2>3, <2>7, EmptyHoldsNothing DEF Using
    <3>2. Cardinality(Using(e)') = Cardinality(Using(e))
      BY <3>1, Zenon
    <3>3. mapped'[e] = mapped[e] /\ factory_refs'[e] = factory_refs[e]
      BY <1>7, <2>7 DEF IInv, TypeOK
    <3>4. mapped'[e] = Cardinality(Using(e)') /\ mapped'[e] \in Nat
      BY <2>1, <2>2, <3>2, <3>3
    <3>5. factory_refs'[e] = Cardinality(Using(e)')
            + Cardinality({t \in Using(e)' : slots'[t].factory}) + lost'[e]
      BY <2>1, <2>2, <2>5, <3>2, <3>3
    <3>6. factory_refs'[e] \in Nat
      BY <2>1, <2>2, <3>3
    <3>. QED
      BY <3>4, <3>5, <3>6
  <2>. QED
    BY <2>6, <2>7
<1>10. mapped' \in [Dlls -> Nat] /\ factory_refs' \in [Dlls -> Nat]
  <2>1. mapped' \in [Dlls -> Int] /\ factory_refs' \in [Dlls -> Int]
    <3>1. d = NoDll \/ d \in Dlls
      BY <1>1 DEF Slot
    <3>2. mapped \in [Dlls -> Nat] /\ factory_refs \in [Dlls -> Nat]
      BY DEF IInv, TypeOK
    <3>3. CASE d = NoDll
      BY <1>7, <3>2, <3>3
    <3>4. CASE d # NoDll
      BY <1>7, <3>1, <3>2, <3>4
    <3>. QED
      BY <3>3, <3>4
  <2>. QED
    BY <1>9, <2>1
<1>11. TypeOK'
  BY <1>3, <1>5, <1>6, <1>8, <1>10 DEF IInv, TypeOK
<1>12. ModulesCounted'
  BY <1>9 DEF ModulesCounted
<1>. QED
  BY <1>5, <1>6, <1>8, <1>11, <1>12 DEF IInv

-----------------------------------------------------------------------------
(* The invariant, and what it says of a session                            *)

LEMMA InitInv ==
  ASSUME Init
  PROVE  IInv
<1>1. \A s \in Slots : slots[s] = EmptySlot
  BY DEF Init
<1>2. TypeOK
  <2>1. slots \in [Slots -> Slot]
    BY EmptyIsASlot DEF Init
  <2>2. thread \in Thread
    BY SessionConstants DEF Init, NoThread, Thread, SessionConstants
  <2>3. objects \in Seq(Object) /\ Len(objects) <= MaxObjects
    BY SessionConstants DEF Init, SessionConstants
  <2>4. /\ mapped \in [Dlls -> Nat] /\ factory_refs \in [Dlls -> Nat]
        /\ lost \in [Dlls -> Nat]
    BY DEF Init
  <2>5. /\ required \subseteq Capabilities /\ skip_detach \in BOOLEAN
        /\ alive \in BOOLEAN /\ subscribed \subseteq DOMAIN objects
        /\ stray \in BOOLEAN
    BY DEF Init
  <2>. QED
    BY <2>1, <2>2, <2>3, <2>4, <2>5 DEF TypeOK
<1>3. SlotShape /\ OneOwner
  BY <1>1, EmptyHoldsNothing DEF SlotShape, OneOwner
<1>4. ThreadShape /\ TearDownShape
  BY DEF Init, NoThread, ThreadShape, TearDownShape, Building
<1>5. RefsCounted /\ OwnedWhileActive
  BY <1>1, EmptyHoldsNothing DEF Init, RefsCounted, OwnedWhileActive
<1>6. ModulesCounted
  <2>. SUFFICES ASSUME NEW d \in Dlls
                PROVE  /\ mapped[d] = Cardinality(Using(d))
                       /\ factory_refs[d] = Cardinality(Using(d))
                            + Cardinality({s \in Using(d) : slots[s].factory}) + lost[d]
    BY DEF ModulesCounted
  <2>1. Using(d) = {} /\ {s \in Using(d) : slots[s].factory} = {}
    BY <1>1, EmptyHoldsNothing, SessionConstants DEF Using, SessionConstants
  <2>2. /\ Cardinality(Using(d)) = 0
        /\ Cardinality({s \in Using(d) : slots[s].factory}) = 0
    BY <2>1, FS_EmptySet
  <2>3. mapped[d] = 0 /\ factory_refs[d] = 0 /\ lost[d] = 0
    BY DEF Init
  <2>. QED
    BY <2>2, <2>3
<1>7. ~stray
  BY DEF Init
<1>. QED
  BY <1>2, <1>3, <1>4, <1>5, <1>6, <1>7 DEF IInv

LEMMA StutterInv ==
  ASSUME IInv, UNCHANGED vars
  PROVE  IInv'
<1>1. UNCHANGED <<slots, required, skip_detach, alive, thread, objects, mapped,
                  factory_refs, lost, subscribed, stray>>
  BY DEF vars, sessionVars, pluginVars
<1>2. TypeOK'
  BY <1>1 DEF IInv, TypeOK
<1>3. SlotShape' /\ OneOwner' /\ RefsCounted' /\ ModulesCounted'
  BY <1>1, SlotsStay
<1>4. ThreadShape' /\ TearDownShape'
  BY <1>1 DEF IInv, ThreadShape, TearDownShape, Current
<1>5. OwnedWhileActive'
  BY <1>1 DEF IInv, OwnedWhileActive
<1>. QED
  BY <1>1, <1>2, <1>3, <1>4, <1>5 DEF IInv

LEMMA NextInv ==
  ASSUME Mannered, IInv, [Next]_vars
  PROVE  IInv'
<1>1. CASE SessionStep
  <2>1. CASE LoadModule
    BY <2>1, LoadModuleInv
  <2>2. CASE GetFactory
    BY <2>2, GetFactoryInv
  <2>3. CASE PassGates
    BY <2>3, PassGatesInv
  <2>4. CASE CreateInstance
    BY <2>4, CreateInstanceInv
  <2>5. CASE InitializePlugin
    BY <2>5, InitializePluginInv
  <2>6. CASE QueryInterfaces
    BY <2>6, QueryInterfacesInv
  <2>7. CASE StopService
    BY <2>7, StopServiceInv
  <2>8. CASE DropEvents
    BY <2>8, DropEventsInv
  <2>9. CASE ReleaseView
    BY <2>9, ReleaseViewInv
  <2>10. CASE TerminatePlugin
    BY <2>10, TerminatePluginInv
  <2>11. CASE ReleaseFactory
    BY <2>11, ReleaseFactoryInv
  <2>12. CASE UnloadModule
    BY <2>12, UnloadModuleInv
  <2>. QED
    BY <1>1, <2>1, <2>2, <2>3, <2>4, <2>5, <2>6, <2>7, <2>8, <2>9, <2>10, <2>11,
       <2>12 DEF SessionStep
<1>2. CASE \E op \in {"inspect", "load"}, d \in Dlls : BeginInspect(op, d)
  BY <1>2, BeginInspectInv
<1>3. CASE \E s \in Slots : BeginInstantiate(s)
  BY <1>3, BeginInstantiateInv
<1>4. CASE \E s \in Slots : BeginUnload(s)
  BY <1>4, BeginUnloadInv
<1>5. CASE \E op \in {"unload_all", "destroy"} : BeginUnloadAll(op)
  BY <1>5, BeginUnloadAllInv
<1>6. CASE \E c \in Capabilities : Require(c)
  BY <1>6, RequireInv
<1>7. CASE \E skip \in SkipDetach : SetSkipDetach(skip)
  BY <1>7, SetSkipDetachInv
<1>8. CASE \E s \in Slots : AttachView(s) \/ AttachFails(s)
  BY <1>8, AttachViewInv, AttachFailsInv
<1>9. CASE \E s \in Slots : MoveView(s)
  BY <1>9, MoveViewInv
<1>10. CASE \E s \in Slots : DeliverEvent(s)
  BY <1>10, DeliverEventInv
<1>11. CASE \E s \in Slots : StartService(s)
  BY <1>11, StartServiceInv
<1>12. CASE DriveIdle
  BY <1>12, DriveIdleInv
<1>13. CASE \E i \in DOMAIN objects : WorkerRuns(i)
  BY <1>13, WorkerRunsInv
<1>14. CASE \E i \in subscribed : PumpCallback(i)
  BY <1>14, PumpCallbackInv
<1>15. CASE UNCHANGED vars
  BY <1>15, StutterInv
<1>. QED
  BY <1>1, <1>2, <1>3, <1>4, <1>5, <1>6, <1>7, <1>8, <1>9, <1>10, <1>11, <1>12,
     <1>13, <1>14, <1>15 DEF Next

LEMMA AlwaysIInv ==
  ASSUME Mannered
  PROVE  Spec => []IInv
<1>1. Init => IInv
  BY InitInv
<1>2. IInv /\ [Next]_vars => IInv'
  BY NextInv
<1>. QED
  BY <1>1, <1>2, PTL DEF Spec

\* No code of a plugin module runs once its last handle is closed, for every
\* number of slots and however workers and callbacks interleave with a teardown.
THEOREM MappedWhenRun ==
  ASSUME Mannered
  PROVE  Spec => []RunsMappedCode
<1>1. IInv => RunsMappedCode
  <2>. SUFFICES ASSUME IInv PROVE RunsMappedCode
    OBVIOUS
  <2>1. ASSUME NEW i \in DOMAIN objects, objects[i].running
        PROVE  mapped[objects[i].dll] > 0
    <3>1. mapped[objects[i].dll] # 0
      BY <2>1, MappedIfActive
    <3>2. objects[i] \in Object /\ mapped \in [Dlls -> Nat]
      BY DEF IInv, TypeOK
    <3>3. objects[i].dll \in Dlls
      BY <3>2 DEF Object
    <3>. QED
      BY <3>1, <3>2, <3>3
  <2>. QED
    BY <2>1 DEF RunsMappedCode, IInv
<1>. QED
  BY <1>1, AlwaysIInv, PTL

LEMMA HoldersAreCounted ==
  ASSUME IInv, NEW i \in DOMAIN objects, NEW kind \in Interface
  PROVE  objects[i].refs[kind] = Cardinality(HoldersOf(i, kind))
<1>1. CASE \A s \in Slots : slots[s].plugin # i
  <2>1. HoldersOf(i, kind) = {}
    BY <1>1 DEF HoldersOf
  <2>2. objects[i].refs[kind] = 0
    BY <1>1 DEF IInv, RefsCounted
  <2>. QED
    BY <2>1, <2>2, FS_EmptySet
<1>2. ASSUME NEW s \in Slots, slots[s].plugin = i
      PROVE  objects[i].refs[kind] = Cardinality(HoldersOf(i, kind))
  <2>1. i # 0
    BY DEF IInv, TypeOK
  <2>2. \A t \in Slots : slots[t].plugin = i => t = s
    BY <1>2, <2>1 DEF IInv, OneOwner
  <2>3. /\ objects[i].refs["plugin"] = 1
        /\ objects[i].refs["view"] = One(slots[s].view)
        /\ objects[i].refs["service"] = One(slots[s].service)
        /\ objects[i].refs["sink"] = One(slots[s].sink)
    BY <1>2, <2>1 DEF IInv, RefsCounted
  <2>4. CASE kind = "plugin" \/ slots[s][kind]
    <3>1. HoldersOf(i, kind) = {s}
      BY <1>2, <2>2, <2>4 DEF HoldersOf
    <3>2. objects[i].refs[kind] = 1
      BY <2>3, <2>4 DEF One, Interface
    <3>. QED
      BY <3>1, <3>2, FS_Singleton
  <2>5. CASE ~ (kind = "plugin" \/ slots[s][kind])
    <3>1. HoldersOf(i, kind) = {}
      BY <2>2, <2>5 DEF HoldersOf
    <3>2. objects[i].refs[kind] = 0
      BY <2>3, <2>5 DEF One, Interface
    <3>. QED
      BY <3>1, <3>2, FS_EmptySet
  <2>. QED
    BY <2>4, <2>5
<1>. QED
  BY <1>1, <1>2

\* Every interface, factory and module is referenced as often as slots hold it,
\* but for the factory references that loads took for which there was no memory
\* in the end: no other step of a load or of a teardown leaks one or gives it
\* back twice, for plugins that are mannered.
THEOREM ReferencesStayBalanced ==
  ASSUME Mannered
  PROVE  Spec => []ReferencesBalanced
<1>1. IInv => ReferencesBalanced
  BY HoldersAreCounted DEF IInv, ReferencesBalanced, ModulesCounted, FactoryHolders
<1>. QED
  BY <1>1, AlwaysIInv, PTL

\* A terminated plugin has no workers and no interfaces out, and none of its
\* subscriptions is left if it made none while it was detached or terminated.
THEOREM TerminatedIsQuiet ==
  ASSUME Mannered
  PROVE  Spec => []QuietBeforeTerminate
<1>1. IInv => QuietBeforeTerminate
  <2>. SUFFICES ASSUME IInv, NEW i \in DOMAIN objects,
                       objects[i].state = "terminated"
                PROVE  /\ ~objects[i].running
                       /\ \A kind \in Interface : objects[i].refs[kind] = 0
                       /\ i \notin subscribed
    BY DEF QuietBeforeTerminate
  <2>1. \A s \in Slots : slots[s].plugin # i
    BY DEF IInv, OwnedWhileActive
  <2>. QED
    BY <2>1 DEF IInv, OwnedWhileActive, RefsCounted
<1>. QED
  BY <1>1, AlwaysIInv, PTL

-----------------------------------------------------------------------------
(***************************************************************************)
(* What a session keeps of its views and of its gates, for every number of *)
(* slots and all modules: the session knows of every embedded view and     *)
(* detaches it before it releases it, and an instance comes only from a    *)
(* module that both sides agreed on.                                       *)
(*                                                                         *)
(* Both follow from the invariant above and one more each.                 *)
(* Most steps keep what these speak of (ViewsKept, GatesKept); the steps   *)
(* that do not are attach, detach and terminate for views, and the gates   *)
(* and the creation for instances.                                         *)
(***************************************************************************)

\* An embedded view is recorded as attached, until the host has told the
\* session to skip the detach: then the instance is about to be terminated.
Known(i, s) ==
  /\ slots[s].plugin = i
  /\ \/ slots[s].view_attached
     \/ skip_detach /\ thread.step = "terminate" /\ thread.slot = s
AttachedKnown ==
  \A i \in DOMAIN objects : objects[i].attached => \E s \in Slots : Known(i, s)

\* Module d passed the gates that look at it alone.
Passed(d) == VersionGate(d) /\ GatePluginRequirements(d)

\* A slot's module provides what was demanded when it was let in.
Agreed(slot) ==
  /\ Passed(slot.module)
  /\ \A c \in slot.agreed :
       slot.module \in Described /\ DescriptorProvides(DescriptorOf[slot.module], c)

\* A slot with a factory is past the gates, unless the thread is about to see to
\* that or to tear the slot down.
Settled(s) ==
  slots[s].factory /\ (thread.slot = s => thread.step \in {"none", "create"})
GatesKnown ==
  /\ \A i \in DOMAIN objects : Passed(objects[i].dll)
  /\ \A s \in Slots : slots[s].plugin # 0 \/ Settled(s) => Agreed(slots[s])

-----------------------------------------------------------------------------
(* What most steps keep                                                    *)

ViewsKept ==
  /\ \A i \in DOMAIN objects' : objects'[i].attached =>
       i \in DOMAIN objects /\ objects[i].attached
  /\ \A i \in DOMAIN objects :
       i \in DOMAIN objects' /\ objects'[i].refs["view"] >= objects[i].refs["view"]
  /\ \A s \in Slots : slots[s].plugin # 0 =>
       /\ slots'[s].plugin = slots[s].plugin
       /\ slots[s].view_attached => slots'[s].view_attached

GatesKept ==
  /\ \A i \in DOMAIN objects' :
       i \in DOMAIN objects /\ objects'[i].dll = objects[i].dll
  /\ \A s \in Slots : slots'[s].plugin # 0 \/ Settled(s)' =>
       /\ slots[s].plugin # 0 \/ Settled(s)
       /\ slots'[s].module = slots[s].module
       /\ slots'[s].agreed = slots[s].agreed

\* The view is given back only when it is no longer embedded.
DetachesFirst ==
  \A i \in DOMAIN objects :
    objects[i].refs["view"] > objects'[i].refs["view"] =>
      ~objects'[i].attached \/ skip_detach

Rules == AttachedKnown /\ GatesKnown

LEMMA PluginsAreInstances ==
  ASSUME IInv, NEW i \in DOMAIN objects
  PROVE  i # 0 /\ objects[i] \in Object /\ objects[i].refs["view"] \in Nat
<1>1. i # 0 /\ objects[i] \in Object
  BY DEF IInv, TypeOK
<1>. QED
  BY <1>1, InterfacesAreFour DEF Object

LEMMA KeepsViews ==
  ASSUME IInv, AttachedKnown, ViewsKept,
         thread.step # "terminate" \/ UNCHANGED <<thread, skip_detach>>,
         IInv'
  PROVE  AttachedKnown' /\ DetachesFirst
<1>1. ASSUME NEW i \in DOMAIN objects', objects'[i].attached
      PROVE  \E s \in Slots : Known(i, s)'
  <2>1. i \in DOMAIN objects /\ objects[i].attached
    BY <1>1 DEF ViewsKept
  <2>2. PICK s \in Slots : Known(i, s)
    BY <2>1 DEF AttachedKnown
  <2>3. slots[s].plugin # 0
    BY <2>1, <2>2, PluginsAreInstances DEF Known
  <2>4. Known(i, s)'
    BY <2>2, <2>3 DEF Known, ViewsKept
  <2>. QED
    BY <2>4
<1>2. AttachedKnown'
  BY <1>1 DEF AttachedKnown
<1>3. DetachesFirst
  <2>. SUFFICES ASSUME NEW i \in DOMAIN objects
                PROVE  ~ (objects[i].refs["view"] > objects'[i].refs["view"])
    BY DEF DetachesFirst
  <2>1. objects[i].refs["view"] \in Nat
    BY PluginsAreInstances
  <2>2. i \in DOMAIN objects' /\ objects'[i].refs["view"] >= objects[i].refs["view"]
    BY DEF ViewsKept
  <2>3. objects' \in Seq(Object)
    BY DEF IInv, TypeOK
  <2>4. objects'[i].refs["view"] \in Nat
    <3>1. objects'[i] \in Object
      BY <2>2, <2>3
    <3>. QED
      BY <3>1, InterfacesAreFour DEF Object
  <2>. QED
    BY <2>1, <2>2, <2>4
<1>. QED
  BY <1>2, <1>3

LEMMA KeepsGates ==
  ASSUME GatesKnown, GatesKept
  PROVE  GatesKnown'
<1>1. ASSUME NEW i \in DOMAIN objects'
      PROVE  Passed(objects'[i].dll)
  BY DEF GatesKnown, GatesKept
<1>2. ASSUME NEW s \in Slots, slots'[s].plugin # 0 \/ Settled(s)'
      PROVE  Agreed(slots'[s])
  <2>1. Agreed(slots[s]) /\ slots'[s].module = slots[s].module
        /\ slots'[s].agreed = slots[s].agreed
    BY <1>2 DEF GatesKnown, GatesKept
  <2>. QED
    BY <2>1 DEF Agreed
<1>. QED
  BY <1>1, <1>2 DEF GatesKnown, Passed, Agreed, VersionGate, GatePluginRequirements

\* Steps that leave every slot and every instance alone.
LEMMA OthersKeep ==
  ASSUME IInv, UNCHANGED <<slots, objects>>,
         \A s \in Slots : Settled(s)' => Settled(s)
  PROVE  ViewsKept /\ GatesKept
<1>1. \A i \in DOMAIN objects : objects[i].refs["view"] >= objects[i].refs["view"]
  BY PluginsAreInstances
<1>. QED
  BY <1>1 DEF ViewsKept, GatesKept

-----------------------------------------------------------------------------
(* Steps of a load                                                         *)

LEMMA BeginInspectKeeps ==
  ASSUME IInv, NEW op \in {"inspect", "load"}, NEW d \in Dlls, BeginInspect(op, d)
  PROVE  ViewsKept /\ GatesKept
<1>1. PICK s \in Slots :
        /\ FindFreeSlot(s)
        /\ slots' = [slots EXCEPT ![s] = [EmptySlot EXCEPT !.in_use = TRUE]]
        /\ thread' = [op |-> op, step |-> "load", slot |-> s, dll |-> d,
                      was |-> "empty"]
  BY DEF BeginInspect
<1>2. slots[s].plugin = 0
  BY <1>1, EmptyHoldsNothing DEF FindFreeSlot, IInv, SlotShape
<1>3. /\ slots'[s].plugin = 0 /\ ~slots'[s].factory
      /\ \A t \in Slots : t # s => slots'[t] = slots[t]
  BY <1>1, EmptyHoldsNothing DEF EmptySlot, IInv, TypeOK
<1>4. UNCHANGED objects /\ thread.step = "none"
  BY DEF BeginInspect, pluginVars, Ready, Idle, IInv, ThreadShape
<1>5. \A i \in DOMAIN objects : objects[i].refs["view"] >= objects[i].refs["view"]
  BY PluginsAreInstances
<1>. QED
  BY <1>1, <1>2, <1>3, <1>4, <1>5 DEF ViewsKept, GatesKept, Settled

\* A step on the thread's own slot, without an instance, that does not leave it
\* past its gates.
LEMMA OwnSlotKeeps ==
  ASSUME IInv, NEW s \in Slots, s = thread.slot, NEW n \in Slot,
         slots' = [slots EXCEPT ![s] = n], UNCHANGED objects,
         slots[s].plugin = 0, n.plugin = 0,
         ~n.factory \/ (thread'.slot = s /\ thread'.step \notin {"none", "create"})
  PROVE  ViewsKept /\ GatesKept
<1>1. /\ slots'[s] = n
      /\ \A t \in Slots : t # s => slots'[t] = slots[t]
  BY OneSlotChanged DEF IInv, TypeOK
<1>2. \A i \in DOMAIN objects : objects[i].refs["view"] >= objects[i].refs["view"]
  BY PluginsAreInstances
<1>3. ~Settled(s)' /\ \A t \in Slots : t # s /\ Settled(t)' => Settled(t)
  BY <1>1 DEF Settled
<1>. QED
  BY <1>1, <1>2, <1>3 DEF ViewsKept, GatesKept

\* A step on the instance of a slot that leaves its view where it is.
LEMMA InstanceKeeps ==
  ASSUME IInv, NEW s \in Slots, s = thread.slot \/ UNCHANGED thread,
         NEW n, NEW o, NEW i, i = slots[s].plugin, i # 0,
         slots' = [slots EXCEPT ![s] = n], objects' = [objects EXCEPT ![i] = o],
         n.plugin = slots[s].plugin, n.module = slots[s].module,
         n.agreed = slots[s].agreed, n.view_attached = slots[s].view_attached,
         o.dll = objects[i].dll, o.refs["view"] >= objects[i].refs["view"],
         o.attached => objects[i].attached
  PROVE  ViewsKept /\ GatesKept
<1>1. i \in DOMAIN objects /\ objects \in Seq(Object) /\ slots \in [Slots -> Slot]
  BY MappedIfOwned DEF IInv, TypeOK
<1>2. /\ slots'[s] = n
      /\ \A t \in Slots : t # s => slots'[t] = slots[t]
  BY <1>1
<1>3. /\ DOMAIN objects' = DOMAIN objects /\ objects'[i] = o
      /\ \A j \in DOMAIN objects : j # i => objects'[j] = objects[j]
  BY <1>1
<1>4. \A j \in DOMAIN objects : objects[j].refs["view"] >= objects[j].refs["view"]
  BY PluginsAreInstances
<1>5. \A t \in Slots : t # s /\ Settled(t)' => Settled(t)
  BY <1>2 DEF Settled
<1>6. ViewsKept
  <2>1. \A j \in DOMAIN objects' : objects'[j].attached => objects[j].attached
    BY <1>3
  <2>2. \A j \in DOMAIN objects : objects'[j].refs["view"] >= objects[j].refs["view"]
    BY <1>3, <1>4
  <2>. QED
    BY <1>2, <1>3, <2>1, <2>2 DEF ViewsKept
<1>7. GatesKept
  BY <1>2, <1>3, <1>5 DEF GatesKept
<1>. QED
  BY <1>6, <1>7

LEMMA LoadModuleKeeps ==
  ASSUME IInv, LoadModule
  PROVE  ViewsKept /\ GatesKept
<1> DEFINE s == thread.slot
<1>1. /\ thread.step = "load" /\ s \in Slots /\ slots[s] \in Slot
      /\ slots[s].plugin = 0 /\ ~slots[s].factory /\ UNCHANGED objects
      /\ thread.dll \in Dlls
  BY OwnSlot DEF LoadModule, At, IInv, ThreadShape, TypeOK, Current
<1>2. CASE UNCHANGED slots
  <2>1. slots' = [slots EXCEPT ![s] = slots[s]]
    BY <1>1, <1>2, SameSlot
  <2>. HIDE DEF s
  <2>. QED
    BY <1>1, <2>1, OwnSlotKeeps DEF s
<1>3. CASE slots' = [slots EXCEPT ![s].module = thread.dll]
  <2> DEFINE n == [slots[s] EXCEPT !.module = thread.dll]
  <2>1. n \in Slot /\ n.plugin = 0 /\ ~n.factory
    BY <1>1 DEF Slot
  <2>2. slots' = [slots EXCEPT ![s] = n]
    BY <1>3
  <2>. HIDE DEF n
  <2>. QED
    BY <1>1, <2>1, <2>2, OwnSlotKeeps
<1>. QED
  BY <1>2, <1>3 DEF LoadModule

LEMMA GetFactoryKeeps ==
  ASSUME IInv, GetFactory
  PROVE  ViewsKept /\ GatesKept
<1> DEFINE s == thread.slot
           n == [slots[s] EXCEPT !.factory = TRUE]
<1>1. /\ thread.step = "factory" /\ s \in Slots /\ slots[s] \in Slot
      /\ slots[s].plugin = 0 /\ UNCHANGED objects /\ Go("gates")
  BY OwnSlot DEF GetFactory, At, IInv, ThreadShape, TypeOK, Current, Building
<1>2. n \in Slot /\ n.plugin = 0
  BY <1>1 DEF Slot
<1>3. slots' = [slots EXCEPT ![s] = n]
  BY DEF GetFactory
<1>4. thread'.slot = s /\ thread'.step = "gates"
  BY <1>1, GoesOn
<1>. HIDE DEF n
<1>. QED
  BY <1>1, <1>2, <1>3, <1>4, OwnSlotKeeps

\* The gates are where a slot comes to be settled.
LEMMA PassGatesKeeps ==
  ASSUME IInv, GatesKnown, PassGates
  PROVE  ViewsKept /\ GatesKnown'
<1> DEFINE s == thread.slot
           d == thread.dll
           n == [slots[s] EXCEPT !.descriptor = d \in Described, !.agreed = required]
           open == VersionGate(d) /\ GatePluginRequirements(d) /\ GateHostRequirements(d)
<1>1. /\ thread.step = "gates" /\ s \in Slots /\ slots[s] \in Slot
      /\ slots[s].plugin = 0 /\ slots[s].module = d /\ d \in Dlls
      /\ UNCHANGED objects
  BY OwnSlot DEF PassGates, At, IInv, ThreadShape, TypeOK, Current, Building
<1>2. slots' = [slots EXCEPT ![s] = n]
  BY DEF PassGates
<1>3. n.plugin = 0 /\ n.module = d /\ n.agreed = required
  BY <1>1 DEF Slot
<1>4. n \in Slot
  <2>1. required \in SUBSET Capabilities
    BY DEF IInv, TypeOK
  <2>. QED
    BY <1>1, <2>1, GatesRecorded
<1>. HIDE DEF n
<1>5. /\ slots'[s] = n
      /\ \A t \in Slots : t # s => slots'[t] = slots[t]
  BY <1>1, <1>2, <1>4, OneSlotChanged DEF IInv, TypeOK
<1>6. ViewsKept
  <2>1. \A i \in DOMAIN objects : objects[i].refs["view"] >= objects[i].refs["view"]
    BY PluginsAreInstances
  <2>. QED
    BY <1>1, <1>5, <2>1 DEF ViewsKept
<1>7. CASE open
  <2>1. Agreed(n)
    BY <1>3, <1>7 DEF Agreed, Passed, GateHostRequirements
  <2>2. \A t \in Slots : t # s /\ Settled(t)' => Settled(t)
    BY <1>5 DEF Settled
  <2>3. \A t \in Slots : slots'[t].plugin # 0 \/ Settled(t)' => Agreed(slots'[t])
    BY <1>5, <2>1, <2>2 DEF GatesKnown
  <2>4. \A i \in DOMAIN objects' : Passed(objects'[i].dll)
    BY <1>1 DEF GatesKnown
  <2>. QED
    BY <1>6, <2>3, <2>4
       DEF GatesKnown, Passed, Agreed, VersionGate, GatePluginRequirements
<1>8. CASE ~open /\ RollBack
  <2>1. thread'.slot = s /\ thread'.step = "service"
    BY <1>1, <1>8, GoesOn DEF RollBack
  <2>2. GatesKept
    BY <1>1, <1>2, <1>3, <1>4, <2>1, OwnSlotKeeps
  <2>. QED
    BY <1>6, <2>2, KeepsGates
<1>. QED
  BY <1>7, <1>8 DEF PassGates

LEMMA CreateInstanceKeeps ==
  ASSUME IInv, GatesKnown, CreateInstance
  PROVE  ViewsKept /\ GatesKnown'
<1> DEFINE s == thread.slot
           d == thread.dll
           i == Len(objects) + 1
           n == [slots[s] EXCEPT !.plugin = i]
           o == [dll |-> d, state |-> "created",
                 refs |-> [k \in Interface |-> IF k = "plugin" THEN 1 ELSE 0],
                 attached |-> FALSE, running |-> FALSE]
<1>1. /\ thread.step = "create" /\ s \in Slots /\ slots[s] \in Slot
      /\ slots \in [Slots -> Slot] /\ objects \in Seq(Object)
      /\ slots[s].plugin = 0 /\ slots[s].module = d /\ d \in Dlls
      /\ slots[s].factory /\ Len(objects) < MaxObjects
  BY OwnSlot DEF CreateInstance, At, IInv, ThreadShape, TypeOK, Current, Building
<1>2. CASE RollBack /\ UNCHANGED <<objects, slots>>
  <2>1. thread'.slot = s /\ thread'.step = "service"
    BY <1>1, <1>2, GoesOn DEF RollBack
  <2>2. slots' = [slots EXCEPT ![s] = slots[s]]
    BY <1>1, <1>2, SameSlot
  <2>3. UNCHANGED objects
    BY <1>2
  <2>4. ViewsKept /\ GatesKept
    BY <1>1, <2>1, <2>2, <2>3, OwnSlotKeeps
  <2>. QED
    BY <2>4, KeepsGates
<1>3. CASE /\ objects' = Append(objects, o)
           /\ slots' = [slots EXCEPT ![s].plugin = i]
  <2>1. i \in 0 .. MaxObjects
    BY <1>1, SessionConstants DEF SessionConstants
  <2>2. /\ n \in Slot /\ n.module = slots[s].module /\ n.agreed = slots[s].agreed
        /\ n.view_attached = slots[s].view_attached
    BY <1>1, <2>1 DEF Slot
  <2>3. slots' = [slots EXCEPT ![s] = n]
    BY <1>3
  <2>4. o \in Object /\ o.dll = d /\ ~o.attached
    BY <1>1 DEF Object, Interface
  <2>. HIDE DEF n, o
  <2>5. /\ slots'[s] = n
        /\ \A t \in Slots : t # s => slots'[t] = slots[t]
    BY <1>1, <2>2, <2>3, OneSlotChanged
  <2>6. /\ DOMAIN objects' = DOMAIN objects \cup {i} /\ objects'[i] = o
        /\ \A j \in DOMAIN objects : objects'[j] = objects[j]
    BY <1>1, <1>3, <2>4, OneInstanceAdded
  <2>. HIDE DEF i
  <2>7. Settled(s)
    BY <1>1 DEF Settled
  <2>8. Agreed(slots[s]) /\ Passed(d)
    BY <1>1, <2>7 DEF GatesKnown, Agreed
  <2>9. Agreed(n)
    BY <2>2, <2>8 DEF Agreed
  <2>10. \A t \in Slots : t # s /\ Settled(t)' => Settled(t)
    BY <2>5 DEF Settled
  <2>11. \A t \in Slots : slots'[t].plugin # 0 \/ Settled(t)' => Agreed(slots'[t])
    BY <2>5, <2>9, <2>10 DEF GatesKnown
  <2>12. \A j \in DOMAIN objects' : Passed(objects'[j].dll)
    BY <2>4, <2>6, <2>8 DEF GatesKnown
  <2>13. GatesKnown'
    BY <2>11, <2>12
       DEF GatesKnown, Passed, Agreed, VersionGate, GatePluginRequirements
  <2>14. ViewsKept
    <3>1. \A j \in DOMAIN objects : objects[j].refs["view"] >= objects[j].refs["view"]
      BY PluginsAreInstances
    <3>2. \A j \in DOMAIN objects' : objects'[j].attached =>
            j \in DOMAIN objects /\ objects[j].attached
      BY <2>4, <2>6
    <3>. QED
      BY <1>1, <2>5, <2>6, <3>1, <3>2 DEF ViewsKept
  <2>. QED
    BY <2>13, <2>14
<1>. QED
  BY <1>2, <1>3 DEF CreateInstance

LEMMA InitializePluginKeeps ==
  ASSUME IInv, InitializePlugin
  PROVE  ViewsKept /\ GatesKept
<1> DEFINE s == thread.slot
           i == slots[s].plugin
<1>1. /\ s \in Slots /\ i # 0 /\ slots[s] \in Slot /\ UNCHANGED slots
  BY OwnSlot DEF InitializePlugin, At, IInv, ThreadShape, Current, sessionVars
<1>2. objects[i] \in Object /\ objects[i].refs["view"] \in Nat
  BY <1>1, MappedIfOwned, PluginsAreInstances
<1>3. PICK state \in {"initialized", "failed"} :
        objects' = [objects EXCEPT ![i].state = state]
  BY DEF InitializePlugin, Current
<1> DEFINE o == [objects[i] EXCEPT !.state = state]
<1>4. /\ o \in Object /\ o.dll = objects[i].dll /\ o.refs = objects[i].refs
      /\ o.attached = objects[i].attached
  BY <1>2 DEF Object
<1>5. objects' = [objects EXCEPT ![i] = o]
  BY <1>3
<1>. HIDE DEF o
<1>6. slots' = [slots EXCEPT ![s] = slots[s]]
  BY <1>1, SameSlot
<1>7. o.refs["view"] >= objects[i].refs["view"]
  BY <1>2, <1>4
<1>8. s = thread.slot
  OBVIOUS
<1>9. s \in Slots /\ i # 0 /\ slots[s] \in Slot
  BY <1>1
<1>. HIDE DEF s
<1>. QED
  BY <1>4, <1>5, <1>6, <1>7, <1>8, <1>9, InstanceKeeps

LEMMA QueryInterfacesKeeps ==
  ASSUME IInv, QueryInterfaces
  PROVE  ViewsKept /\ GatesKept
<1> DEFINE s == thread.slot
           i == slots[s].plugin
<1>1. /\ s \in Slots /\ i # 0 /\ slots[s] \in Slot
  BY OwnSlot DEF QueryInterfaces, At, IInv, ThreadShape, Current
<1>2. objects[i] \in Object /\ objects[i].refs \in [Interface -> Nat]
  BY <1>1, MappedIfOwned DEF Object
<1>3. PICK found \in SUBSET (Interface \ {"plugin"}) :
        /\ objects' = [objects EXCEPT ![i].refs =
             [k \in Interface |-> IF k \in found THEN @[k] + 1 ELSE @[k]]]
        /\ slots' = [slots EXCEPT ![s] =
             [@ EXCEPT !.view = "view" \in found,
                       !.service = "service" \in found,
                       !.sink = "sink" \in found]]
  BY DEF QueryInterfaces, Current
<1> DEFINE n == [slots[s] EXCEPT !.view = "view" \in found,
                                 !.service = "service" \in found,
                                 !.sink = "sink" \in found]
           refs == [k \in Interface |-> IF k \in found THEN objects[i].refs[k] + 1
                                                       ELSE objects[i].refs[k]]
           o == [objects[i] EXCEPT !.refs = refs]
<1>4. slots' = [slots EXCEPT ![s] = n] /\ objects' = [objects EXCEPT ![i] = o]
  BY <1>3
<1>5. /\ n.plugin = slots[s].plugin /\ n.module = slots[s].module
      /\ n.agreed = slots[s].agreed /\ n.view_attached = slots[s].view_attached
  BY <1>1 DEF Slot
<1>6. refs["view"] >= objects[i].refs["view"]
  BY <1>2, InterfacesAreFour
<1>. HIDE DEF refs
<1>7. /\ o.dll = objects[i].dll /\ o.refs = refs
      /\ o.attached = objects[i].attached
  BY <1>2 DEF Object
<1>. HIDE DEF n, o
<1>8. o.refs["view"] >= objects[i].refs["view"]
  BY <1>6, <1>7
<1>9. s = thread.slot
  OBVIOUS
<1>. HIDE DEF s
<1>. QED
  BY <1>1, <1>4, <1>5, <1>7, <1>8, <1>9, InstanceKeeps

\* The steps of the teardown that come before the view.
LEMMA ReleasedKeepsView ==
  ASSUME NEW o \in Object, NEW kind \in {"service", "sink"}
  PROVE  /\ Released(o, kind).dll = o.dll
         /\ Released(o, kind).attached = o.attached
         /\ Released(o, kind).refs["view"] = o.refs["view"]
  BY InterfacesAreFour DEF Released, Object

LEMMA StopServiceKeeps ==
  ASSUME IInv, StopService
  PROVE  ViewsKept /\ GatesKept
<1> DEFINE s == thread.slot
           i == slots[s].plugin
<1>1. /\ s \in Slots /\ slots[s] \in Slot /\ Current = slots[s]
      /\ thread'.slot = s /\ thread'.step = "events" /\ thread.step = "service"
  BY OwnSlot, GoesOn DEF StopService, At, IInv, TypeOK
<1>2. CASE UNCHANGED <<objects, slots>>
  <2>1. \A t \in Slots : Settled(t)' => Settled(t)
    BY <1>1, <1>2 DEF Settled
  <2>2. UNCHANGED slots /\ UNCHANGED objects
    BY <1>2
  <2>. QED
    BY <2>1, <2>2, OthersKeep
<1>3. CASE /\ slots[s].service
           /\ objects' = [objects EXCEPT ![i] = Released(Stopped(@), "service")]
           /\ slots' = [slots EXCEPT ![s].service = FALSE]
  <2> DEFINE p == Stopped(objects[i])
             o == Released(p, "service")
             n == [slots[s] EXCEPT !.service = FALSE]
  <2>1. i # 0
    BY <1>1, <1>3 DEF IInv, SlotShape
  <2>2. objects[i] \in Object /\ objects[i].refs["view"] \in Nat
    BY <1>1, <2>1, MappedIfOwned, PluginsAreInstances
  <2>3. /\ p \in Object /\ p.dll = objects[i].dll /\ p.refs = objects[i].refs
        /\ p.attached = objects[i].attached
    BY <2>2 DEF Object, Stopped
  <2>4. /\ n.plugin = slots[s].plugin /\ n.module = slots[s].module
        /\ n.agreed = slots[s].agreed /\ n.view_attached = slots[s].view_attached
    BY <1>1 DEF Slot
  <2>5. slots' = [slots EXCEPT ![s] = n] /\ objects' = [objects EXCEPT ![i] = o]
    BY <1>3
  <2>. HIDE DEF p, n
  <2>6. /\ o.dll = p.dll /\ o.attached = p.attached
        /\ o.refs["view"] = p.refs["view"]
    BY <2>3, ReleasedKeepsView
  <2>. HIDE DEF o
  <2>7. /\ o.dll = objects[i].dll /\ o.refs["view"] >= objects[i].refs["view"]
        /\ o.attached => objects[i].attached
    BY <2>2, <2>3, <2>6
  <2>8. s = thread.slot
    OBVIOUS
  <2>. HIDE DEF s
  <2>. QED
    BY <1>1, <2>1, <2>4, <2>5, <2>7, <2>8, InstanceKeeps
<1>. QED
  BY <1>1, <1>2, <1>3 DEF StopService

LEMMA DropEventsKeeps ==
  ASSUME IInv, DropEvents
  PROVE  ViewsKept /\ GatesKept
<1> DEFINE s == thread.slot
           i == slots[s].plugin
<1>1. /\ s \in Slots /\ slots[s] \in Slot /\ Current = slots[s]
      /\ thread'.slot = s /\ thread'.step = "view" /\ thread.step = "events"
  BY OwnSlot, GoesOn DEF DropEvents, At, IInv, TypeOK
<1>2. CASE UNCHANGED <<objects, slots>>
  <2>1. \A t \in Slots : Settled(t)' => Settled(t)
    BY <1>1, <1>2 DEF Settled
  <2>2. UNCHANGED slots /\ UNCHANGED objects
    BY <1>2
  <2>. QED
    BY <2>1, <2>2, OthersKeep
<1>3. CASE /\ slots[s].sink
           /\ objects' = [objects EXCEPT ![i] = Released(@, "sink")]
           /\ slots' = [slots EXCEPT ![s].sink = FALSE]
  <2> DEFINE p == objects[i]
             o == Released(p, "sink")
             n == [slots[s] EXCEPT !.sink = FALSE]
  <2>1. i # 0
    BY <1>1, <1>3 DEF IInv, SlotShape
  <2>2. p \in Object /\ p.refs["view"] \in Nat
    BY <1>1, <2>1, MappedIfOwned, PluginsAreInstances
  <2>3. /\ n.plugin = slots[s].plugin /\ n.module = slots[s].module
        /\ n.agreed = slots[s].agreed /\ n.view_attached = slots[s].view_attached
    BY <1>1 DEF Slot
  <2>4. slots' = [slots EXCEPT ![s] = n] /\ objects' = [objects EXCEPT ![i] = o]
    BY <1>3
  <2>. HIDE DEF n
  <2>5. /\ o.dll = p.dll /\ o.attached = p.attached
        /\ o.refs["view"] = p.refs["view"]
    BY <2>2, ReleasedKeepsView
  <2>. HIDE DEF o
  <2>6. /\ o.dll = objects[i].dll /\ o.refs["view"] >= objects[i].refs["view"]
        /\ o.attached => objects[i].attached
    BY <2>2, <2>5
  <2>7. s = thread.slot
    OBVIOUS
  <2>. HIDE DEF s
  <2>. QED
    BY <1>1, <2>1, <2>3, <2>4, <2>6, <2>7, InstanceKeeps
<1>. QED
  BY <1>1, <1>2, <1>3 DEF DropEvents

LEMMA ReleaseFactoryKeeps ==
  ASSUME IInv, ReleaseFactory
  PROVE  ViewsKept /\ GatesKept
<1> DEFINE s == thread.slot
           n == [slots[s] EXCEPT !.factory = FALSE]
<1>1. /\ s \in Slots /\ slots[s] \in Slot /\ Current = slots[s]
      /\ slots[s].plugin = 0 /\ UNCHANGED objects
  BY OwnSlot DEF ReleaseFactory, At, IInv, TearDownShape, TypeOK
<1>2. CASE ~slots[s].factory /\ UNCHANGED slots
  <2>1. slots' = [slots EXCEPT ![s] = slots[s]]
    BY <1>1, <1>2, SameSlot
  <2>. QED
    BY <1>1, <1>2, <2>1, OwnSlotKeeps
<1>3. CASE slots' = [slots EXCEPT ![s].factory = FALSE]
  <2>1. n \in Slot /\ n.plugin = 0 /\ ~n.factory
    BY <1>1 DEF Slot
  <2>2. slots' = [slots EXCEPT ![s] = n]
    BY <1>3
  <2>. HIDE DEF n
  <2>. QED
    BY <1>1, <2>1, <2>2, OwnSlotKeeps
<1>. QED
  BY <1>1, <1>2, <1>3 DEF ReleaseFactory

LEMMA UnloadModuleKeeps ==
  ASSUME IInv, UnloadModule
  PROVE  ViewsKept /\ GatesKept
<1> DEFINE s == thread.slot
           n == Vacated(slots[s])
<1>1. /\ s \in Slots /\ slots[s] \in Slot /\ Current = slots[s]
      /\ slots[s].plugin = 0 /\ ~slots[s].factory /\ UNCHANGED objects
  BY OwnSlot DEF UnloadModule, At, IInv, TearDownShape, TypeOK
<1>2. n \in Slot /\ n.plugin = 0 /\ ~n.factory
  BY <1>1, SessionConstants DEF Slot, Vacated, SessionConstants
<1>3. slots' = [slots EXCEPT ![s] = n]
  BY DEF UnloadModule
<1>. HIDE DEF n
<1>. QED
  BY <1>1, <1>2, <1>3, OwnSlotKeeps

-----------------------------------------------------------------------------
(* Steps on a view                                                         *)

LEMMA KnownElsewhere ==
  ASSUME IInv, AttachedKnown, NEW s \in Slots, NEW i \in DOMAIN objects,
         objects[i].attached, slots[s].plugin # i,
         thread.step # "terminate" \/ thread.slot = s,
         \A t \in Slots : t # s => slots'[t] = slots[t]
  PROVE  \E t \in Slots : Known(i, t)'
<1>1. PICK t \in Slots : Known(i, t)
  BY DEF AttachedKnown
<1>2. t # s /\ slots[t].view_attached /\ slots[t].plugin = i
  BY <1>1 DEF Known
<1>3. Known(i, t)'
  BY <1>2 DEF Known
<1>. QED
  BY <1>3

LEMMA HostMovesView ==
  ASSUME IInv, AttachedKnown, thread.step = "none", UNCHANGED thread,
         NEW s \in Slots, NEW n, NEW o, NEW i, i = slots[s].plugin, i # 0,
         slots' = [slots EXCEPT ![s] = n], objects' = [objects EXCEPT ![i] = o],
         n.plugin = slots[s].plugin, n.module = slots[s].module,
         n.agreed = slots[s].agreed, n.factory = slots[s].factory,
         n.view_attached, o.dll = objects[i].dll, o.refs = objects[i].refs
  PROVE  AttachedKnown' /\ DetachesFirst /\ GatesKept
<1>1. i \in DOMAIN objects /\ objects \in Seq(Object) /\ slots \in [Slots -> Slot]
  BY MappedIfOwned DEF IInv, TypeOK
<1>2. /\ slots'[s] = n
      /\ \A t \in Slots : t # s => slots'[t] = slots[t]
  BY <1>1
<1>3. /\ DOMAIN objects' = DOMAIN objects /\ objects'[i] = o
      /\ \A j \in DOMAIN objects : j # i => objects'[j] = objects[j]
  BY <1>1
<1>4. AttachedKnown'
  <2>1. ASSUME NEW j \in DOMAIN objects', objects'[j].attached
        PROVE  \E t \in Slots : Known(j, t)'
    <3>1. CASE j = i
      <4>1. Known(j, s)'
        BY <1>2, <3>1 DEF Known
      <4>. QED
        BY <4>1
    <3>2. CASE j # i
      BY <1>2, <1>3, <2>1, <3>2, KnownElsewhere
    <3>. QED
      BY <3>1, <3>2
  <2>. QED
    BY <2>1 DEF AttachedKnown
<1>5. DetachesFirst
  <2>1. ASSUME NEW j \in DOMAIN objects
        PROVE  objects'[j].refs = objects[j].refs /\ objects[j].refs["view"] \in Nat
    BY <1>3, PluginsAreInstances
  <2>. QED
    BY <2>1 DEF DetachesFirst
<1>6. GatesKept
  <2>1. \A t \in Slots : t # s /\ Settled(t)' => Settled(t)
    BY <1>2 DEF Settled
  <2>. QED
    BY <1>2, <1>3, <2>1 DEF GatesKept
<1>. QED
  BY <1>4, <1>5, <1>6

LEMMA AttachViewKeeps ==
  ASSUME IInv, AttachedKnown, NEW s \in Slots, AttachView(s)
  PROVE  AttachedKnown' /\ DetachesFirst /\ GatesKept
<1> DEFINE i == slots[s].plugin
           n == Attached(slots[s])
           o == [objects[i] EXCEPT !.attached = TRUE]
<1>1. /\ UNCHANGED thread /\ slots[s].view /\ thread.step = "none"
      /\ slots' = [slots EXCEPT ![s] = n]
      /\ objects' = [objects EXCEPT ![i] = o]
  BY DEF AttachView, Ready, Idle, IInv, ThreadShape
<1>2. i # 0
  BY <1>1 DEF IInv, SlotShape
<1>3. objects[i] \in Object /\ slots[s] \in Slot
  BY <1>2, MappedIfOwned DEF IInv, TypeOK
<1>4. o.dll = objects[i].dll /\ o.refs = objects[i].refs
  BY <1>3 DEF Object
<1>5. /\ n.plugin = slots[s].plugin /\ n.module = slots[s].module
      /\ n.agreed = slots[s].agreed /\ n.factory = slots[s].factory /\ n.view_attached
  BY <1>3 DEF Slot, Attached
<1>. HIDE DEF n, o
<1>. QED
  BY <1>1, <1>2, <1>4, <1>5, HostMovesView

LEMMA MoveViewKeeps ==
  ASSUME IInv, AttachedKnown, NEW s \in Slots, MoveView(s)
  PROVE  AttachedKnown' /\ DetachesFirst /\ GatesKept
<1> DEFINE i == slots[s].plugin
<1>1. /\ UNCHANGED thread /\ slots[s].view_attached /\ thread.step = "none"
  BY DEF MoveView, Ready, Idle, IInv, ThreadShape
<1>2. UNCHANGED slots
  BY DEF MoveView, sessionVars
<1>3. i # 0
  BY <1>1 DEF IInv, SlotShape
<1>4. objects[i] \in Object
  BY <1>3, MappedIfOwned
<1>5. PICK success \in BOOLEAN : objects' = [objects EXCEPT ![i].attached = success]
  BY DEF MoveView
<1> DEFINE o == [objects[i] EXCEPT !.attached = success]
<1>6. o.dll = objects[i].dll /\ o.refs = objects[i].refs
  BY <1>4 DEF Object
<1>7. objects' = [objects EXCEPT ![i] = o]
  BY <1>5
<1>. HIDE DEF o
<1>8. slots' = [slots EXCEPT ![s] = slots[s]]
  BY <1>2, SameSlot
<1>. QED
  BY <1>1, <1>3, <1>6, <1>7, <1>8, HostMovesView

LEMMA StartServiceKeeps ==
  ASSUME IInv, NEW s \in Slots, StartService(s)
  PROVE  ViewsKept /\ GatesKept
<1> DEFINE i == slots[s].plugin
           o == [objects[i] EXCEPT !.running = TRUE]
<1>1. slots[s].service /\ objects' = [objects EXCEPT ![i] = o] /\ UNCHANGED thread
  BY DEF StartService
<1>2. UNCHANGED slots
  BY DEF StartService, sessionVars
<1>3. i # 0
  BY <1>1 DEF IInv, SlotShape
<1>4. objects[i] \in Object /\ objects[i].refs["view"] \in Nat
  BY <1>3, MappedIfOwned, PluginsAreInstances
<1>5. /\ o.dll = objects[i].dll /\ o.refs = objects[i].refs
      /\ o.attached = objects[i].attached
  BY <1>4 DEF Object
<1>. HIDE DEF o
<1>6. o.refs["view"] >= objects[i].refs["view"]
  BY <1>4, <1>5
<1>7. slots' = [slots EXCEPT ![s] = slots[s]]
  BY <1>2, SameSlot
<1>. QED
  BY <1>1, <1>3, <1>5, <1>6, <1>7, InstanceKeeps

LEMMA ReleaseViewKeeps ==
  ASSUME IInv, AttachedKnown, ReleaseView, IInv'
  PROVE  AttachedKnown' /\ DetachesFirst /\ GatesKept
<1> DEFINE s == thread.slot
           i == slots[s].plugin
<1>1. /\ thread.step = "view" /\ s \in Slots /\ slots[s] \in Slot
      /\ Current = slots[s] /\ slots \in [Slots -> Slot]
      /\ thread'.slot = s /\ thread'.step = "terminate"
  BY OwnSlot, GoesOn DEF ReleaseView, At, IInv, TypeOK
<1>2. UNCHANGED skip_detach
  BY DEF ReleaseView
<1>3. CASE /\ ~slots[s].view
           /\ slots' = [slots EXCEPT ![s].view_attached = FALSE]
           /\ UNCHANGED objects
  <2>1. ~slots[s].view_attached
    BY <1>1, <1>3 DEF IInv, SlotShape
  <2>2. [slots[s] EXCEPT !.view_attached = FALSE] = slots[s]
    BY <1>1, <2>1 DEF Slot
  <2>3. UNCHANGED slots
    BY <1>1, <1>3, <2>2
  <2>4. \A t \in Slots : Settled(t)' => Settled(t)
    BY <1>1, <2>3 DEF Settled
  <2>5. ViewsKept /\ GatesKept
    BY <1>3, <2>3, <2>4, OthersKeep
  <2>. QED
    BY <1>1, <2>5, KeepsViews
<1>4. CASE /\ slots[s].view
           /\ objects' = [objects EXCEPT ![i] =
                Released(Detached(@, Current), "view")]
           /\ slots' = [slots EXCEPT ![s] =
                [@ EXCEPT !.view = FALSE, !.view_attached = FALSE]]
  <2> DEFINE p == objects[i]
             r == Detached(p, Current)
             o == Released(r, "view")
             n == [slots[s] EXCEPT !.view = FALSE, !.view_attached = FALSE]
  <2>1. i # 0
    BY <1>1, <1>4 DEF IInv, SlotShape
  <2>2. i \in DOMAIN objects /\ p \in Object /\ objects \in Seq(Object)
    BY <1>1, <2>1, MappedIfOwned DEF IInv, TypeOK
  <2>3. /\ n.plugin = slots[s].plugin /\ n.module = slots[s].module
        /\ n.agreed = slots[s].agreed
    BY <1>1 DEF Slot
  <2>4. slots' = [slots EXCEPT ![s] = n] /\ objects' = [objects EXCEPT ![i] = o]
    BY <1>4
  <2>. HIDE DEF n
  <2>5. r.dll = p.dll
    BY <2>2 DEF Object, Detached
  <2>6. r.attached <=> p.attached /\ ~Detaches(slots[s])
    BY <1>1, <2>2 DEF Object, Detached
  <2>7. r \in Object
    <3>1. (p.attached /\ ~Detaches(Current)) \in BOOLEAN
      OBVIOUS
    <3>. QED
      BY <2>2, <3>1, AttachedIsAFlag DEF Detached
  <2>. HIDE DEF r
  <2>8. o.dll = r.dll /\ o.attached = r.attached
    BY <2>7 DEF Object, Released
  <2>. HIDE DEF o
  <2>9. /\ slots'[s] = n
        /\ \A t \in Slots : t # s => slots'[t] = slots[t]
    BY <1>1, <2>4
  <2>10. /\ DOMAIN objects' = DOMAIN objects /\ objects'[i] = o
         /\ \A j \in DOMAIN objects : j # i => objects'[j] = objects[j]
    BY <2>2, <2>4
  <2>11. o.attached => skip_detach
    <3>. SUFFICES ASSUME o.attached PROVE skip_detach
      OBVIOUS
    <3>1. p.attached /\ ~Detaches(slots[s])
      BY <2>6, <2>8
    <3>2. PICK t \in Slots : Known(i, t)
      BY <2>2, <3>1 DEF AttachedKnown
    <3>3. t = s
      BY <1>1, <2>1, <3>2 DEF Known, IInv, OneOwner
    <3>. QED
      BY <1>1, <3>1, <3>2, <3>3 DEF Known, Detaches
  <2>12. AttachedKnown'
    <3>1. ASSUME NEW j \in DOMAIN objects', objects'[j].attached
          PROVE  \E t \in Slots : Known(j, t)'
      <4>1. CASE j = i
        <5>1. Known(j, s)'
          BY <1>1, <1>2, <2>3, <2>9, <2>10, <2>11, <3>1, <4>1 DEF Known
        <5>. QED
          BY <1>1, <5>1
      <4>2. CASE j # i
        BY <1>1, <2>9, <2>10, <3>1, <4>2, KnownElsewhere
      <4>. QED
        BY <4>1, <4>2
    <3>. QED
      BY <3>1 DEF AttachedKnown
  <2>13. DetachesFirst
    <3>1. ASSUME NEW j \in DOMAIN objects, j # i
          PROVE  ~ (objects[j].refs["view"] > objects'[j].refs["view"])
      BY <2>10, <3>1, PluginsAreInstances
    <3>. QED
      BY <2>10, <2>11, <3>1 DEF DetachesFirst
  <2>14. GatesKept
    <3>1. ~Settled(s)' /\ \A t \in Slots : t # s /\ Settled(t)' => Settled(t)
      BY <1>1, <2>9 DEF Settled
    <3>2. \A j \in DOMAIN objects' : j \in DOMAIN objects /\ objects'[j].dll = objects[j].dll
      BY <2>5, <2>8, <2>10
    <3>. QED
      BY <2>1, <2>3, <2>9, <3>1, <3>2 DEF GatesKept
  <2>. QED
    BY <2>12, <2>13, <2>14
<1>. QED
  BY <1>1, <1>3, <1>4 DEF ReleaseView

LEMMA TerminatePluginKeeps ==
  ASSUME IInv, AttachedKnown, TerminatePlugin
  PROVE  AttachedKnown' /\ DetachesFirst /\ GatesKept
<1> DEFINE s == thread.slot
           i == slots[s].plugin
<1>1. /\ thread.step = "terminate" /\ s \in Slots /\ slots[s] \in Slot
      /\ Current = slots[s] /\ slots \in [Slots -> Slot]
      /\ thread'.slot = s /\ thread'.step = "release"
  BY OwnSlot, GoesOn DEF TerminatePlugin, At, IInv, TypeOK
<1>2. CASE i = 0 /\ UNCHANGED <<objects, slots>>
  <2>1. \A t \in Slots : Settled(t)' => Settled(t)
    BY <1>1, <1>2 DEF Settled
  <2>2. UNCHANGED slots /\ UNCHANGED objects
    BY <1>2
  <2>3. GatesKept
    BY <2>1, <2>2, OthersKeep
  <2>4. DetachesFirst
    BY <2>2, PluginsAreInstances DEF DetachesFirst
  <2>5. ASSUME NEW j \in DOMAIN objects', objects'[j].attached
        PROVE  \E t \in Slots : Known(j, t)'
    <3>1. j \in DOMAIN objects /\ objects[j].attached /\ slots[s].plugin # j
      BY <1>2, <2>5, PluginsAreInstances
    <3>. QED
      BY <1>1, <2>2, <3>1, KnownElsewhere
  <2>. QED
    BY <2>3, <2>4, <2>5 DEF AttachedKnown
<1>3. CASE /\ i # 0
           /\ objects' = [objects EXCEPT ![i] =
                [Released(@, "plugin") EXCEPT !.state = "terminated",
                                              !.attached = FALSE]]
           /\ slots' = [slots EXCEPT ![s].plugin = 0]
  <2> DEFINE p == objects[i]
             r == Released(p, "plugin")
             o == [r EXCEPT !.state = "terminated", !.attached = FALSE]
             n == [slots[s] EXCEPT !.plugin = 0]
  <2>1. i \in DOMAIN objects /\ p \in Object /\ objects \in Seq(Object)
    BY <1>1, <1>3, MappedIfOwned DEF IInv, TypeOK
  <2>2. n.plugin = 0
    BY <1>1 DEF Slot
  <2>3. slots' = [slots EXCEPT ![s] = n] /\ objects' = [objects EXCEPT ![i] = o]
    BY <1>3
  <2>. HIDE DEF n
  <2>4. p.refs["plugin"] = 1
    BY <1>1, <1>3 DEF IInv, RefsCounted
  <2>5. r \in Object /\ r.dll = p.dll /\ r.refs["view"] = p.refs["view"]
    BY <2>1, <2>4, ReleaseCounts, InterfacesAreFour
  <2>. HIDE DEF r
  <2>6. o.dll = r.dll /\ o.refs = r.refs /\ ~o.attached
    BY <2>5 DEF Object
  <2>. HIDE DEF o
  <2>7. /\ slots'[s] = n
        /\ \A t \in Slots : t # s => slots'[t] = slots[t]
    BY <1>1, <2>3
  <2>8. /\ DOMAIN objects' = DOMAIN objects /\ objects'[i] = o
        /\ \A j \in DOMAIN objects : j # i => objects'[j] = objects[j]
    BY <2>1, <2>3
  <2>9. AttachedKnown'
    <3>1. ASSUME NEW j \in DOMAIN objects', objects'[j].attached
          PROVE  \E t \in Slots : Known(j, t)'
      <4>1. j # i /\ j \in DOMAIN objects /\ objects[j].attached
        BY <2>6, <2>8, <3>1
      <4>. QED
        BY <1>1, <2>7, <4>1, KnownElsewhere
    <3>. QED
      BY <3>1 DEF AttachedKnown
  <2>10. DetachesFirst
    <3>1. ASSUME NEW j \in DOMAIN objects
          PROVE  ~ (objects[j].refs["view"] > objects'[j].refs["view"])
      <4>1. objects'[j].refs["view"] = objects[j].refs["view"]
        BY <2>5, <2>6, <2>8
      <4>. QED
        BY <4>1, PluginsAreInstances
    <3>. QED
      BY <3>1 DEF DetachesFirst
  <2>11. GatesKept
    <3>1. ~Settled(s)' /\ \A t \in Slots : t # s /\ Settled(t)' => Settled(t)
      BY <1>1, <2>7 DEF Settled
    <3>2. \A j \in DOMAIN objects' : j \in DOMAIN objects /\ objects'[j].dll = objects[j].dll
      BY <2>5, <2>6, <2>8
    <3>. QED
      <4>1. ASSUME NEW t \in Slots, slots'[t].plugin # 0 \/ Settled(t)'
            PROVE  /\ slots[t].plugin # 0 \/ Settled(t)
                   /\ slots'[t].module = slots[t].module
                   /\ slots'[t].agreed = slots[t].agreed
        <5>1. t # s
          BY <1>1, <2>2, <2>7, <3>1, <4>1
        <5>. QED
          BY <2>7, <3>1, <4>1, <5>1
      <4>. QED
        BY <3>2, <4>1 DEF GatesKept
  <2>. QED
    BY <2>9, <2>10, <2>11
<1>. QED
  BY <1>1, <1>2, <1>3 DEF TerminatePlugin

-----------------------------------------------------------------------------
(* Every step                                                              *)

LEMMA SettledStays ==
  ASSUME IInv, UNCHANGED slots, thread.step = "none" \/ UNCHANGED thread,
         NEW s \in Slots, Settled(s)'
  PROVE  Settled(s)
  BY DEF Settled

LEMMA NextKeeps ==
  ASSUME Mannered, IInv, Rules, [Next]_vars
  PROVE  Rules' /\ DetachesFirst
<1>1. IInv'
  BY NextInv
<1>2. ASSUME ViewsKept, GatesKept,
             thread.step # "terminate" \/ UNCHANGED <<thread, skip_detach>>
      PROVE  Rules' /\ DetachesFirst
  BY <1>1, <1>2, KeepsViews, KeepsGates DEF Rules
<1>3. ASSUME AttachedKnown', DetachesFirst, GatesKept
      PROVE  Rules' /\ DetachesFirst
  BY <1>3, KeepsGates DEF Rules
<1>4. ASSUME ViewsKept, GatesKnown', thread.step # "terminate"
      PROVE  Rules' /\ DetachesFirst
  BY <1>1, <1>4, KeepsViews DEF Rules
<1>5. ASSUME UNCHANGED <<slots, objects>>,
             thread.step = "none" \/ UNCHANGED <<thread, skip_detach>>
      PROVE  Rules' /\ DetachesFirst
  <2>1. ViewsKept /\ GatesKept
    BY <1>5, SettledStays, OthersKeep
  <2>. QED
    BY <1>2, <1>5, <2>1
<1>6. CASE SessionStep
  <2>1. CASE LoadModule
    BY <1>2, <2>1, LoadModuleKeeps DEF LoadModule, At
  <2>2. CASE GetFactory
    BY <1>2, <2>2, GetFactoryKeeps DEF GetFactory, At
  <2>3. CASE PassGates
    BY <1>4, <2>3, PassGatesKeeps DEF PassGates, At, Rules
  <2>4. CASE CreateInstance
    BY <1>4, <2>4, CreateInstanceKeeps DEF CreateInstance, At, Rules
  <2>5. CASE InitializePlugin
    BY <1>2, <2>5, InitializePluginKeeps DEF InitializePlugin, At
  <2>6. CASE QueryInterfaces
    BY <1>2, <2>6, QueryInterfacesKeeps DEF QueryInterfaces, At
  <2>7. CASE StopService
    BY <1>2, <2>7, StopServiceKeeps DEF StopService, At
  <2>8. CASE DropEvents
    BY <1>2, <2>8, DropEventsKeeps DEF DropEvents, At
  <2>9. CASE ReleaseView
    BY <1>1, <1>3, <2>9, ReleaseViewKeeps DEF Rules
  <2>10. CASE TerminatePlugin
    BY <1>3, <2>10, TerminatePluginKeeps DEF Rules
  <2>11. CASE ReleaseFactory
    BY <1>2, <2>11, ReleaseFactoryKeeps DEF ReleaseFactory, At
  <2>12. CASE UnloadModule
    BY <1>2, <2>12, UnloadModuleKeeps DEF UnloadModule, At
  <2>. QED
    BY <1>6, <2>1, <2>2, <2>3, <2>4, <2>5, <2>6, <2>7, <2>8, <2>9, <2>10, <2>11,
       <2>12 DEF SessionStep
<1>7. Ready \/ Idle => thread.step = "none"
  BY DEF Ready, Idle, IInv, ThreadShape
<1>8. CASE \E op \in {"inspect", "load"}, d \in Dlls : BeginInspect(op, d)
  BY <1>2, <1>7, <1>8, BeginInspectKeeps DEF BeginInspect
<1>9. CASE \/ \E s \in Slots : BeginInstantiate(s)
           \/ \E s \in Slots : BeginUnload(s)
           \/ \E op \in {"unload_all", "destroy"} : BeginUnloadAll(op)
           \/ \E c \in Capabilities : Require(c)
           \/ \E skip \in SkipDetach : SetSkipDetach(skip)
           \/ \E s \in Slots : AttachFails(s) \/ DeliverEvent(s)
           \/ DriveIdle
  <2>1. UNCHANGED slots /\ UNCHANGED objects /\ Ready
    BY <1>9 DEF BeginInstantiate, BeginUnload, BeginUnloadAll, Require, SetSkipDetach,
                AttachFails, DeliverEvent, DriveIdle, sessionVars, pluginVars
  <2>. QED
    BY <1>5, <1>7, <2>1
<1>10. CASE \/ \E i \in DOMAIN objects : WorkerRuns(i)
            \/ \E i \in subscribed : PumpCallback(i)
            \/ UNCHANGED vars
  <2>1. UNCHANGED <<slots, objects, thread, skip_detach>>
    BY <1>10 DEF WorkerRuns, PumpCallback, vars, sessionVars, pluginVars
  <2>. QED
    BY <1>5, <2>1
<1>11. CASE \E s \in Slots : AttachView(s)
  BY <1>3, <1>11, AttachViewKeeps DEF Rules
<1>12. CASE \E s \in Slots : MoveView(s)
  BY <1>3, <1>12, MoveViewKeeps DEF Rules
<1>13. CASE \E s \in Slots : StartService(s)
  BY <1>2, <1>7, <1>13, StartServiceKeeps DEF StartService
<1>. QED
  BY <1>6, <1>8, <1>9, <1>10, <1>11, <1>12, <1>13 DEF Next

LEMMA InitRules ==
  ASSUME Init
  PROVE  Rules
<1>1. \A s \in Slots : slots[s].plugin = 0 /\ ~Settled(s)
  BY EmptyHoldsNothing DEF Init, Settled
<1>. QED
  BY <1>1 DEF Init, Rules, AttachedKnown, GatesKnown

LEMMA AlwaysRules ==
  ASSUME Mannered
  PROVE  Spec => [](IInv /\ Rules)
<1>1. Init => IInv /\ Rules
  BY InitInv, InitRules
<1>2. (IInv /\ Rules) /\ [Next]_vars => (IInv /\ Rules)'
  BY NextInv, NextKeeps
<1>. QED
  BY <1>1, <1>2, PTL DEF Spec

\* The session has every embedded view on record, whatever the host moves and
\* whichever calls fail, so that no unload forgets one.
THEOREM ViewsAreOnRecord ==
  ASSUME Mannered
  PROVE  Spec => []SessionKnowsAttached
<1>1. IInv /\ Rules => SessionKnowsAttached
  BY DEF Rules, AttachedKnown, Known, SessionKnowsAttached
<1>. QED
  BY <1>1, AlwaysRules, PTL

\* No view is released while it is embedded, unless the host asked for that.
THEOREM DetachComesFirst ==
  ASSUME Mannered
  PROVE  Spec => DetachedBeforeReleased
<1>1. (IInv /\ Rules) /\ [Next]_vars => DetachesFirst
  BY NextKeeps
<1>2. DetachesFirst =>
        \A i \in DOMAIN objects :
          objects[i].refs["view"] > objects'[i].refs["view"] =>
            ~objects'[i].attached \/ skip_detach
  BY DEF DetachesFirst
<1>. QED
  BY <1>1, <1>2, AlwaysRules, PTL DEF Spec, DetachedBeforeReleased

\* The instances a session creates come only from modules that both sides agreed
\* on, whatever is demanded in between.
THEOREM GatesComeFirst ==
  ASSUME Mannered
  PROVE  Spec => []GatedBeforeCreated
<1>1. IInv /\ Rules => GatedBeforeCreated
  <2>. SUFFICES ASSUME IInv, Rules, NEW i \in DOMAIN objects
                PROVE  LET d == objects[i].dll
                           Lists(c, flag) ==
                             /\ d \in Described
                             /\ \E entry \in {DescriptorOf[d].capabilities[n] :
                                              n \in DOMAIN DescriptorOf[d].capabilities} :
                                  entry.iid = c /\ flag \in entry.flags
                       IN  /\ d \in Described =>
                                /\ DescriptorOf[d].api_version.major = HostVersion.major
                                /\ DescriptorOf[d].api_version.minor <= HostVersion.minor
                           /\ \A c \in Capabilities : Lists(c, "REQUIRED") => c \in Offered
                           /\ \A s \in Slots : slots[s].plugin = i =>
                                \A c \in slots[s].agreed : Lists(c, "PROVIDES")
    BY DEF GatedBeforeCreated
  <2> DEFINE d == objects[i].dll
             list == DescriptorOf[d].capabilities
  <2>1. Passed(d)
    BY DEF Rules, GatesKnown
  <2>2. d \in Described =>
          /\ DescriptorOf[d].api_version.major = HostVersion.major
          /\ DescriptorOf[d].api_version.minor <= HostVersion.minor
    BY <2>1 DEF Passed, VersionGate, VersionCompatible
  <2>3. ASSUME NEW n \in DOMAIN list, d \in Described, "REQUIRED" \in list[n].flags
        PROVE  list[n].iid \in Offered
    BY <2>1, <2>3 DEF Passed, GatePluginRequirements, Needs
  <2>4. ASSUME NEW s \in Slots, slots[s].plugin = i, NEW c \in slots[s].agreed
        PROVE  /\ d \in Described
               /\ \E n \in DOMAIN list : list[n].iid = c /\ "PROVIDES" \in list[n].flags
    <3>1. i # 0
      BY PluginsAreInstances
    <3>2. slots[s].module = d
      BY <2>4, <3>1, MappedIfOwned
    <3>3. Agreed(slots[s])
      BY <2>4, <3>1 DEF Rules, GatesKnown
    <3>4. d \in Described /\ DescriptorProvides(DescriptorOf[d], c)
      BY <3>2, <3>3 DEF Agreed
    <3>. QED
      BY <3>4 DEF DescriptorProvides, FindCapability
  <2>. QED
    BY <2>2, <2>3, <2>4
<1>. QED
  BY <1>1, AlwaysRules, PTL

-----------------------------------------------------------------------------
(***************************************************************************)
(* The session implements SlotTable.  A slot under work counts as what it  *)
(* held before; the work shows when it ends.  What that needs to know of   *)
(* an operation is OpShape.                                                *)
(***************************************************************************)

Making == {"inspect", "load"}
Freeing == {"unload", "unload_all", "destroy"}

OpShape ==
  /\ thread.op = "none" => thread.slot = 0
  /\ thread.op \in Making =>
       thread.was = "empty" /\ \A t \in Slots : t < thread.slot => slots[t].in_use
  /\ thread.op = "instantiate" => thread.was = "inspected"
  /\ thread.op \in Freeing => thread.was # "empty"
  /\ thread.step \in {"load", "factory", "gates"} => thread.op \in Making
  /\ thread.step \in {"create", "initialize", "query"} =>
       thread.op \in {"load", "instantiate"}
  /\ thread.step = "query" => objects[Current.plugin].state = "initialized"

\* What a slot holds says what it counts as.
LEMMA PhaseOfEmpty == PhaseOf(EmptySlot) = "empty"
  BY EmptyHoldsNothing DEF PhaseOf, Inspected, Usable

LEMMA PhaseOfUsed ==
  ASSUME NEW r \in Slot, r.in_use
  PROVE  /\ PhaseOf(r) # "empty"
         /\ Inspected(r) => PhaseOf(r) = "inspected"
         /\ Usable(r) => PhaseOf(r) = "ready"
<1>1. r # EmptySlot
  BY EmptyHoldsNothing
<1>2. ~(Inspected(r) /\ Usable(r))
  BY DEF Inspected, Usable
<1>. QED
  BY <1>1, <1>2 DEF PhaseOf

LEMMA InspectedSlot ==
  ASSUME IInv, NEW s \in Slots, slots[s].in_use, slots[s].factory, slots[s].plugin = 0
  PROVE  Inspected(slots[s])
  BY DEF IInv, SlotShape, Inspected

\* A step of an operation changes its own slot and that slot's instance only.
OwnOnly ==
  /\ \E n : slots' = [slots EXCEPT ![thread.slot] = n]
  /\ \/ UNCHANGED objects
     \/ Current.plugin # 0 /\ \E o : objects' = [objects EXCEPT ![Current.plugin] = o]
     \/ \E o : objects' = Append(objects, o)

LEMMA OthersPhase ==
  ASSUME IInv, thread.step # "none", OwnOnly, NEW t \in Slots, t # thread.slot
  PROVE  slots'[t] = slots[t] /\ PhaseOf(slots[t])' = PhaseOf(slots[t])
<1>1. slots'[t] = slots[t]
  BY DEF OwnOnly, IInv, TypeOK
<1>2. ASSUME slots[t].plugin # 0
      PROVE  objects'[slots[t].plugin] = objects[slots[t].plugin]
  <2>1. slots[t].plugin \in DOMAIN objects /\ objects \in Seq(Object)
    BY <1>2, MappedIfOwned DEF IInv, TypeOK
  <2>2. Current.plugin # 0 => Current.plugin # slots[t].plugin
    BY OwnSlot DEF IInv, OneOwner
  <2>3. CASE UNCHANGED objects
    BY <2>3
  <2>4. CASE Current.plugin # 0 /\ \E o : objects' = [objects EXCEPT ![Current.plugin] = o]
    BY <2>1, <2>2, <2>4
  <2>5. CASE \E o : objects' = Append(objects, o)
    BY <2>1, <2>5
  <2>. QED
    BY <2>3, <2>4, <2>5 DEF OwnOnly
<1>. QED
  BY <1>1, <1>2 DEF PhaseOf, Inspected, Usable

\* The operation goes on: the table stays as it is.
Working == thread'.op = thread.op /\ thread'.slot = thread.slot /\ thread'.was = thread.was

LEMMA GoesOnWorking ==
  ASSUME IInv, thread.step # "none", NEW step, Go(step)
  PROVE  Working /\ thread'.step = step
<1>1. thread \in Thread /\ thread' = [thread EXCEPT !.step = step]
  BY DEF IInv, TypeOK, Go
<1>. QED
  BY <1>1 DEF Thread, Working

LEMMA WorkingShape ==
  ASSUME IInv, OpShape, thread.step # "none", OwnOnly, Working, Current'.in_use,
         thread'.step \in {"load", "factory", "gates"} => thread.op \in Making,
         thread'.step \in {"create", "initialize", "query"} =>
           thread.op \in {"load", "instantiate"},
         thread'.step = "query" => objects'[Current'.plugin].state = "initialized"
  PROVE  OpShape' /\ \A s \in Slots : Phase(s)' = Phase(s)
<1>1. \A t \in Slots : t # thread.slot =>
        slots'[t] = slots[t] /\ PhaseOf(slots[t])' = PhaseOf(slots[t])
  BY OthersPhase
<1>2. \A s \in Slots : Phase(s)' = Phase(s)
  BY <1>1 DEF Phase, Working
<1>3. thread.op \in Making => \A t \in Slots : t < thread.slot => slots'[t].in_use
  <2>1. \A t \in Slots : t < thread.slot => t # thread.slot
    BY OwnSlot, ZeroIsNoSlot
  <2>. QED
    BY <1>1, <2>1 DEF OpShape
<1>. QED
  BY <1>2, <1>3 DEF OpShape, Working

\* The operation ends: its slot shows what it holds.
LEMMA EndsShape ==
  ASSUME IInv, OpShape, thread.step # "none", OwnOnly, thread' = NoThread,
         NEW s \in Slots, s = thread.slot
  PROVE  /\ OpShape'
         /\ Phase(s)' = PhaseOf(slots[s])'
         /\ \A t \in Slots : t # s => Phase(t)' = Phase(t)
<1>1. \A t \in Slots : t # s => PhaseOf(slots[t])' = PhaseOf(slots[t])
  BY OthersPhase
<1>2. thread'.slot = 0 /\ thread'.op = "none" /\ thread'.step = "none"
  BY DEF NoThread
<1>3. \A t \in Slots : t # 0
  BY ZeroIsNoSlot
<1>4. OpShape'
  BY <1>2 DEF OpShape, Making, Freeing
<1>5. Phase(s)' = PhaseOf(slots[s])'
  BY <1>2, <1>3 DEF Phase
<1>6. ASSUME NEW t \in Slots, t # s
      PROVE  Phase(t)' = Phase(t)
  BY <1>1, <1>2, <1>3, <1>6 DEF Phase
<1>. QED
  BY <1>4, <1>5, <1>6

\* What the operation's slot counted as, and what comes of it.
LEMMA TableClaims ==
  ASSUME NEW s \in Slots, Phase(s) = "empty", \A t \in Slots : t < s => Phase(t) # "empty",
         NEW p \in {"inspected", "ready"}, Phase(s)' = p,
         \A t \in Slots : t # s => Phase(t)' = Phase(t)
  PROVE  Table!Next
<1>1. Table!Claim(s)
  BY DEF Table!Claim
<1>. QED
  BY <1>1 DEF Table!Next

LEMMA TableInstantiates ==
  ASSUME NEW s \in Slots, Phase(s) = "inspected", Phase(s)' = "ready",
         \A t \in Slots : t # s => Phase(t)' = Phase(t)
  PROVE  Table!Next
<1>1. Table!Instantiate(s)
  BY DEF Table!Instantiate
<1>. QED
  BY <1>1 DEF Table!Next

LEMMA TableFrees ==
  ASSUME NEW s \in Slots, Phase(s) # "empty", Phase(s)' = "empty",
         \A t \in Slots : t # s => Phase(t)' = Phase(t)
  PROVE  Table!Next
<1>1. Table!Free(s)
  BY DEF Table!Free
<1>. QED
  BY <1>1 DEF Table!Next

\* A step of the session is a step of its table, or none.
TableStep == Table!Next \/ \A s \in Slots : Phase(s)' = Phase(s)

-----------------------------------------------------------------------------
(* The steps of an operation                                               *)

LEMMA OwnSlotOnly ==
  ASSUME NEW n, slots' = [slots EXCEPT ![thread.slot] = n],
         \/ UNCHANGED objects
         \/ Current.plugin # 0 /\ \E o : objects' = [objects EXCEPT ![Current.plugin] = o]
         \/ \E o : objects' = Append(objects, o)
  PROVE  OwnOnly
  BY DEF OwnOnly

LEMMA SlotsUntouched ==
  ASSUME IInv, UNCHANGED slots, thread.step # "none",
         \/ UNCHANGED objects
         \/ Current.plugin # 0 /\ \E o : objects' = [objects EXCEPT ![Current.plugin] = o]
         \/ \E o : objects' = Append(objects, o)
  PROVE  OwnOnly
<1>1. thread.slot \in Slots
  BY OwnSlot
<1>2. slots' = [slots EXCEPT ![thread.slot] = slots[thread.slot]]
  BY <1>1, SameSlot
<1>. QED
  BY <1>2 DEF OwnOnly

\* A step of the teardown.
TearingDown == {"service", "events", "view", "terminate", "release", "module"}

LEMMA TearDownWorks ==
  ASSUME IInv, OpShape, IInv', thread.step # "none", OwnOnly,
         NEW step \in TearingDown, Go(step)
  PROVE  OpShape' /\ TableStep
<1>1. Working /\ thread'.step = step
  BY GoesOnWorking
<1>2. Current'.in_use
  <2>1. thread'.op # "none"
    BY <1>1, OwnSlot DEF Working
  <2>. QED
    BY <2>1 DEF IInv, ThreadShape, Current
<1>. QED
  BY <1>1, <1>2, WorkingShape DEF TearingDown, TableStep

LEMMA MakingWorks ==
  ASSUME IInv, OpShape, IInv', thread.step # "none", OwnOnly,
         NEW step \in Building, Go(step),
         step \in {"factory", "gates"} => thread.op \in Making,
         step \in {"create", "initialize", "query"} => thread.op \in {"load", "instantiate"},
         step = "query" => objects'[Current'.plugin].state = "initialized"
  PROVE  OpShape' /\ TableStep
<1>1. Working /\ thread'.step = step
  BY GoesOnWorking
<1>2. Current'.in_use
  <2>1. thread'.op # "none"
    BY <1>1, OwnSlot DEF Working
  <2>. QED
    BY <2>1 DEF IInv, ThreadShape, Current
<1>. QED
  BY <1>1, <1>2, WorkingShape DEF Building, TableStep

LEMMA LoadModuleTable ==
  ASSUME IInv, IInv', OpShape, LoadModule
  PROVE  OpShape' /\ TableStep
<1>1. thread.step = "load" /\ thread.op \in Making /\ UNCHANGED objects
  BY DEF LoadModule, At, OpShape
<1>2. CASE slots' = [slots EXCEPT ![thread.slot].module = thread.dll] /\ Go("factory")
  <2>1. OwnOnly
    BY <1>1, <1>2 DEF OwnOnly
  <2>. QED
    BY <1>1, <1>2, <2>1, MakingWorks DEF Building
<1>3. CASE UNCHANGED slots /\ RollBack
  <2>1. OwnOnly
    BY <1>1, <1>3, SlotsUntouched
  <2>. QED
    BY <1>1, <1>3, <2>1, TearDownWorks DEF TearingDown, RollBack
<1>. QED
  BY <1>2, <1>3 DEF LoadModule

LEMMA GetFactoryTable ==
  ASSUME IInv, IInv', OpShape, GetFactory
  PROVE  OpShape' /\ TableStep
<1>1. thread.step = "factory" /\ thread.op \in Making /\ UNCHANGED objects /\ Go("gates")
  BY DEF GetFactory, At, OpShape
<1>2. slots' = [slots EXCEPT ![thread.slot].factory = TRUE]
  BY DEF GetFactory
<1>3. OwnOnly
  BY <1>1, <1>2 DEF OwnOnly
<1>. QED
  BY <1>1, <1>3, MakingWorks DEF Building

\* inspect() ends here: the slot shows the module that was let in.
LEMMA PassGatesTable ==
  ASSUME IInv, IInv', OpShape, PassGates
  PROVE  OpShape' /\ TableStep
<1> DEFINE n == [slots[thread.slot] EXCEPT !.descriptor = thread.dll \in Described,
                                           !.agreed = required]
<1>1. /\ thread.step = "gates" /\ thread.op \in Making /\ UNCHANGED objects
      /\ Current.plugin = 0 /\ Current.factory /\ Current.in_use
      /\ Current = slots[thread.slot] /\ Current \in Slot /\ thread.slot \in Slots
  BY OwnSlot DEF PassGates, At, OpShape, IInv, ThreadShape
<1>2. slots' = [slots EXCEPT ![thread.slot] = n]
  BY DEF PassGates
<1>3. n.plugin = 0 /\ n.factory /\ n.in_use
  BY <1>1 DEF Slot
<1>. HIDE DEF n
<1>4. OwnOnly
  BY <1>1, <1>2, OwnSlotOnly
<1>5. CASE RollBack
  BY <1>1, <1>4, <1>5, TearDownWorks DEF TearingDown, RollBack
<1>6. CASE thread.op # "inspect" /\ Go("create")
  BY <1>1, <1>4, <1>6, MakingWorks DEF Building, Making
<1>7. CASE thread.op = "inspect" /\ Return
  <2>1. PICK s \in Slots : s = thread.slot
    BY <1>1
  <2>2. /\ OpShape' /\ Phase(s)' = PhaseOf(slots[s])'
        /\ \A t \in Slots : t # s => Phase(t)' = Phase(t)
    BY <1>1, <1>4, <1>7, <2>1, EndsShape DEF Return
  <2>3. slots'[s] = n /\ slots'[s] \in Slot
    BY <1>2, <2>1 DEF IInv, TypeOK
  <2>4. /\ slots'[s].module # NoDll /\ slots'[s].in_use /\ slots'[s].factory
        /\ slots'[s].plugin = 0 /\ slots'[s] # EmptySlot
        /\ ~slots'[s].view /\ ~slots'[s].service /\ ~slots'[s].sink
        /\ ~slots'[s].view_attached
    BY <1>3, <2>3, EmptyHoldsNothing DEF IInv, SlotShape
  <2>5. PhaseOf(slots[s])' = "inspected"
    BY <2>4 DEF PhaseOf, Inspected, Usable
  <2>6. Phase(s) = "empty"
    BY <1>1, <2>1 DEF OpShape, Phase
  <2>7. ASSUME NEW t \in Slots, t < s
        PROVE  Phase(t) # "empty"
    <3>1. slots[t].in_use /\ t # thread.slot /\ slots[t] \in Slot
      BY <1>1, <2>1, <2>7, ZeroIsNoSlot DEF OpShape, IInv, TypeOK
    <3>. QED
      BY <3>1, PhaseOfUsed DEF Phase
  <2>. QED
    BY <2>2, <2>5, <2>6, <2>7, TableClaims DEF TableStep
<1>. QED
  BY <1>5, <1>6, <1>7 DEF PassGates

LEMMA CreateInstanceTable ==
  ASSUME IInv, IInv', OpShape, CreateInstance
  PROVE  OpShape' /\ TableStep
<1>1. thread.step = "create" /\ thread.op \in {"load", "instantiate"}
  BY DEF CreateInstance, At, OpShape
<1>2. CASE RollBack /\ UNCHANGED <<objects, slots>>
  <2>1. OwnOnly
    BY <1>1, <1>2, SlotsUntouched
  <2>. QED
    BY <1>1, <1>2, <2>1, TearDownWorks DEF TearingDown, RollBack
<1>3. CASE ~(RollBack /\ UNCHANGED <<objects, slots>>)
  <2>1. /\ Go("initialize") /\ \E o : objects' = Append(objects, o)
        /\ slots' = [slots EXCEPT ![thread.slot].plugin = Len(objects) + 1]
    BY <1>3, Zenon DEF CreateInstance
  <2>2. OwnOnly
    BY <2>1 DEF OwnOnly
  <2>. QED
    BY <1>1, <2>1, <2>2, MakingWorks DEF Building
<1>. QED
  BY <1>2, <1>3

LEMMA InitializePluginTable ==
  ASSUME IInv, IInv', OpShape, InitializePlugin
  PROVE  OpShape' /\ TableStep
<1> DEFINE i == Current.plugin
<1>1. /\ thread.step = "initialize" /\ thread.op \in {"load", "instantiate"}
      /\ i # 0 /\ UNCHANGED slots /\ thread.slot \in Slots /\ Current = slots[thread.slot]
  BY OwnSlot DEF InitializePlugin, At, OpShape, IInv, ThreadShape, sessionVars
<1>2. i \in DOMAIN objects /\ objects[i] \in Object /\ objects \in Seq(Object)
  BY <1>1, MappedIfOwned DEF IInv, TypeOK
<1>3. \/ objects' = [objects EXCEPT ![i].state = "initialized"] /\ Go("query")
      \/ objects' = [objects EXCEPT ![i].state = "failed"] /\ RollBack
  BY DEF InitializePlugin
<1>4. OwnOnly
  BY <1>1, <1>3, SlotsUntouched
<1>5. CASE objects' = [objects EXCEPT ![i].state = "initialized"] /\ Go("query")
  <2>1. objects'[i].state = "initialized"
    BY <1>2, <1>5 DEF Object
  <2>2. Current' = Current
    BY <1>1, <1>5, GoesOnWorking DEF Working, Current
  <2>. QED
    BY <1>1, <1>4, <1>5, <2>1, <2>2, MakingWorks DEF Building
<1>6. CASE RollBack
  BY <1>1, <1>4, <1>6, TearDownWorks DEF TearingDown, RollBack
<1>. QED
  BY <1>3, <1>5, <1>6

\* load() and instantiate() end here: the slot shows a plugin.
LEMMA QueryInterfacesTable ==
  ASSUME IInv, IInv', OpShape, QueryInterfaces
  PROVE  OpShape' /\ TableStep
<1> DEFINE i == Current.plugin
<1>1. /\ thread.step = "query" /\ thread.op \in {"load", "instantiate"}
      /\ i # 0 /\ thread.slot \in Slots /\ Current = slots[thread.slot]
      /\ Current.factory /\ Current.in_use /\ Current \in Slot
      /\ objects[i].state = "initialized" /\ Return
  BY OwnSlot DEF QueryInterfaces, At, OpShape, IInv, ThreadShape
<1>2. /\ i \in DOMAIN objects /\ objects[i] \in Object /\ objects \in Seq(Object)
      /\ Current.module # NoDll
  BY <1>1, MappedIfOwned DEF IInv, TypeOK
<1>3. PICK found \in SUBSET (Interface \ {"plugin"}) :
        /\ objects' = [objects EXCEPT ![i].refs =
             [k \in Interface |-> IF k \in found THEN @[k] + 1 ELSE @[k]]]
        /\ slots' = [slots EXCEPT ![thread.slot] =
             [@ EXCEPT !.view = "view" \in found,
                       !.service = "service" \in found,
                       !.sink = "sink" \in found]]
  BY DEF QueryInterfaces
<1> DEFINE n == [slots[thread.slot] EXCEPT !.view = "view" \in found,
                                           !.service = "service" \in found,
                                           !.sink = "sink" \in found]
           refs == [k \in Interface |-> IF k \in found THEN objects[i].refs[k] + 1
                                                       ELSE objects[i].refs[k]]
           o == [objects[i] EXCEPT !.refs = refs]
<1>4. slots' = [slots EXCEPT ![thread.slot] = n] /\ objects' = [objects EXCEPT ![i] = o]
  BY <1>3
<1>5. n.plugin = i /\ n.factory /\ n.in_use /\ n.module # NoDll
  BY <1>1, <1>2 DEF Slot
<1>. HIDE DEF refs
<1>6. o.state = "initialized"
  BY <1>1, <1>2 DEF Object
<1>. HIDE DEF n, o
<1>7. OwnOnly
  BY <1>1, <1>4, OwnSlotOnly
<1>8. PICK s \in Slots : s = thread.slot
  BY <1>1
<1>9. /\ OpShape' /\ Phase(s)' = PhaseOf(slots[s])'
      /\ \A t \in Slots : t # s => Phase(t)' = Phase(t)
  BY <1>1, <1>7, <1>8, EndsShape DEF Return
<1>10. slots'[s] = n /\ slots'[s] \in Slot /\ objects'[i] = o
  BY <1>2, <1>4, <1>8 DEF IInv, TypeOK
<1>11. PhaseOf(slots[s])' = "ready"
  BY <1>1, <1>5, <1>6, <1>10, EmptyHoldsNothing DEF PhaseOf, Inspected, Usable
<1>12. CASE thread.op = "load"
  <2>1. Phase(s) = "empty"
    BY <1>8, <1>12 DEF OpShape, Phase, Making
  <2>2. ASSUME NEW t \in Slots, t < s
        PROVE  Phase(t) # "empty"
    <3>1. slots[t].in_use /\ t # thread.slot /\ slots[t] \in Slot
      BY <1>8, <1>12, <2>2, ZeroIsNoSlot DEF OpShape, IInv, TypeOK, Making
    <3>. QED
      BY <3>1, PhaseOfUsed DEF Phase
  <2>. QED
    BY <1>9, <1>11, <2>1, <2>2, TableClaims DEF TableStep
<1>13. CASE thread.op = "instantiate"
  <2>1. Phase(s) = "inspected"
    BY <1>8, <1>13 DEF OpShape, Phase
  <2>. QED
    BY <1>9, <1>11, <2>1, TableInstantiates DEF TableStep
<1>. QED
  BY <1>1, <1>12, <1>13

\* The teardown's steps before the last show nothing.
LEMMA StopServiceTable ==
  ASSUME IInv, IInv', OpShape, StopService
  PROVE  OpShape' /\ TableStep
<1>1. /\ thread.step = "service" /\ thread.slot \in Slots /\ Current = slots[thread.slot]
      /\ Go("events")
  BY OwnSlot DEF StopService, At
<1>2. CASE UNCHANGED <<objects, slots, subscribed, stray>>
  <2>1. OwnOnly
    BY <1>1, <1>2, SlotsUntouched
  <2>. QED
    BY <1>1, <2>1, TearDownWorks DEF TearingDown
<1>3. CASE Current.service /\ \E o : objects' = [objects EXCEPT ![Current.plugin] = o]
           /\ slots' = [slots EXCEPT ![thread.slot].service = FALSE]
  <2>1. Current.plugin # 0
    BY <1>1, <1>3 DEF IInv, SlotShape
  <2>2. OwnOnly
    BY <1>1, <1>3, <2>1 DEF OwnOnly
  <2>. QED
    BY <1>1, <2>2, TearDownWorks DEF TearingDown
<1>. QED
  BY <1>2, <1>3 DEF StopService

LEMMA DropEventsTable ==
  ASSUME IInv, IInv', OpShape, DropEvents
  PROVE  OpShape' /\ TableStep
<1>1. /\ thread.step = "events" /\ thread.slot \in Slots /\ Current = slots[thread.slot]
      /\ Go("view")
  BY OwnSlot DEF DropEvents, At
<1>2. CASE UNCHANGED <<objects, slots, stray>>
  <2>1. OwnOnly
    BY <1>1, <1>2, SlotsUntouched
  <2>. QED
    BY <1>1, <2>1, TearDownWorks DEF TearingDown
<1>3. CASE Current.sink /\ \E o : objects' = [objects EXCEPT ![Current.plugin] = o]
           /\ slots' = [slots EXCEPT ![thread.slot].sink = FALSE]
  <2>1. Current.plugin # 0
    BY <1>1, <1>3 DEF IInv, SlotShape
  <2>2. OwnOnly
    BY <1>1, <1>3, <2>1 DEF OwnOnly
  <2>. QED
    BY <1>1, <2>2, TearDownWorks DEF TearingDown
<1>. QED
  BY <1>2, <1>3 DEF DropEvents

LEMMA ReleaseViewTable ==
  ASSUME IInv, IInv', OpShape, ReleaseView
  PROVE  OpShape' /\ TableStep
<1> DEFINE n == [slots[thread.slot] EXCEPT !.view = FALSE, !.view_attached = FALSE]
<1>1. /\ thread.step = "view" /\ thread.slot \in Slots /\ Current = slots[thread.slot]
      /\ Go("terminate")
  BY OwnSlot DEF ReleaseView, At
<1>2. CASE /\ UNCHANGED objects
           /\ slots' = [slots EXCEPT ![thread.slot].view_attached = FALSE]
  <2>1. OwnOnly
    BY <1>2 DEF OwnOnly
  <2>. QED
    BY <1>1, <2>1, TearDownWorks DEF TearingDown
<1>3. CASE Current.view /\ \E o : objects' = [objects EXCEPT ![Current.plugin] = o]
           /\ slots' = [slots EXCEPT ![thread.slot] = n]
  <2>1. Current.plugin # 0
    BY <1>1, <1>3 DEF IInv, SlotShape
  <2>. HIDE DEF n
  <2>2. OwnOnly
    BY <1>3, <2>1, OwnSlotOnly
  <2>. QED
    BY <1>1, <2>2, TearDownWorks DEF TearingDown
<1>4. \/ UNCHANGED objects /\ slots' = [slots EXCEPT ![thread.slot].view_attached = FALSE]
      \/ /\ Current.view /\ \E o : objects' = [objects EXCEPT ![Current.plugin] = o]
         /\ slots' = [slots EXCEPT ![thread.slot] = n]
  BY DEF ReleaseView
<1>. QED
  BY <1>2, <1>3, <1>4

LEMMA TerminatePluginTable ==
  ASSUME IInv, IInv', OpShape, TerminatePlugin
  PROVE  OpShape' /\ TableStep
<1>1. /\ thread.step = "terminate" /\ thread.slot \in Slots
      /\ Current = slots[thread.slot] /\ Go("release")
  BY OwnSlot DEF TerminatePlugin, At
<1>2. CASE UNCHANGED <<objects, slots, subscribed, stray>>
  <2>1. OwnOnly
    BY <1>1, <1>2, SlotsUntouched
  <2>. QED
    BY <1>1, <2>1, TearDownWorks DEF TearingDown
<1>3. CASE Current.plugin # 0 /\ \E o : objects' = [objects EXCEPT ![Current.plugin] = o]
           /\ slots' = [slots EXCEPT ![thread.slot].plugin = 0]
  <2>1. OwnOnly
    BY <1>1, <1>3 DEF OwnOnly
  <2>. QED
    BY <1>1, <2>1, TearDownWorks DEF TearingDown
<1>4. \/ UNCHANGED <<objects, slots, subscribed, stray>>
      \/ /\ Current.plugin # 0 /\ \E o : objects' = [objects EXCEPT ![Current.plugin] = o]
         /\ slots' = [slots EXCEPT ![thread.slot].plugin = 0]
  BY Zenon DEF TerminatePlugin
<1>. QED
  BY <1>2, <1>3, <1>4

LEMMA ReleaseFactoryTable ==
  ASSUME IInv, IInv', OpShape, ReleaseFactory
  PROVE  OpShape' /\ TableStep
<1>1. /\ thread.step = "release" /\ Go("module") /\ UNCHANGED objects
  BY DEF ReleaseFactory, At
<1>2. OwnOnly
  <2>1. CASE UNCHANGED slots
    BY <1>1, <2>1, SlotsUntouched
  <2>2. CASE slots' = [slots EXCEPT ![thread.slot].factory = FALSE]
    BY <1>1, <2>2 DEF OwnOnly
  <2>. QED
    BY <2>1, <2>2 DEF ReleaseFactory
<1>. QED
  BY <1>1, <1>2, TearDownWorks DEF TearingDown

\* The end of a teardown: the slot shows that it is empty, if it was not, and the
\* next one of the sweep counts as what it holds.
LEMMA UnloadModuleTable ==
  ASSUME IInv, IInv', OpShape, UnloadModule
  PROVE  OpShape' /\ TableStep
<1>1. /\ thread.step = "module" /\ thread.slot \in Slots /\ Current \in Slot
      /\ Current = slots[thread.slot] /\ UNCHANGED objects
      /\ Current.plugin = 0 /\ ~Current.factory
      /\ ~Current.view /\ ~Current.service /\ ~Current.sink
  BY OwnSlot DEF UnloadModule, At, IInv, TearDownShape
<1>2. PICK s \in Slots : s = thread.slot
  BY <1>1
<1>3. slots' = [slots EXCEPT ![s] = EmptySlot]
  <2>1. slots' = [slots EXCEPT ![s] = Vacated(slots[s])]
    BY <1>2 DEF UnloadModule
  <2>2. Vacated(slots[s]) = EmptySlot
    <3>1. ~slots[s].view_attached
      BY <1>1, <1>2 DEF IInv, SlotShape
    <3>. QED
      BY <1>1, <1>2, <3>1, VacatedIsEmpty
  <2>. QED
    BY <2>1, <2>2
<1>4. OwnOnly
  BY <1>1, <1>2, <1>3, OwnSlotOnly
<1>5. slots'[s] = EmptySlot
  BY <1>3 DEF IInv, TypeOK
<1>6. PhaseOf(slots[s])' = "empty"
  BY <1>5, EmptyHoldsNothing DEF PhaseOf, Inspected, Usable
<1>7. ASSUME /\ Phase(s)' = "empty"
             /\ \A t \in Slots : t # s => Phase(t)' = Phase(t)
      PROVE  TableStep
  BY <1>7, TableFrees DEF TableStep
<1>8. CASE Return
  <2>1. /\ OpShape' /\ Phase(s)' = PhaseOf(slots[s])'
        /\ \A t \in Slots : t # s => Phase(t)' = Phase(t)
    BY <1>1, <1>2, <1>4, <1>8, EndsShape DEF Return
  <2>. QED
    BY <1>6, <1>7, <2>1
<1>9. ASSUME NEW t \in Slots, NextSlot(t, s), NEW op \in {"unload_all", "destroy"},
             TearDownFrom(t, op)
      PROVE  OpShape' /\ TableStep
  <2>1. t # s /\ slots[t].in_use /\ slots[t] \in Slot
    BY <1>9, ZeroIsNoSlot DEF NextSlot, IInv, TypeOK
  <2>2. /\ thread'.op = op /\ thread'.step = "service" /\ thread'.slot = t
        /\ thread'.was = PhaseOf(slots[t])
    BY <1>9 DEF TearDownFrom
  <2>3. PhaseOf(slots[t]) # "empty"
    BY <2>1, PhaseOfUsed
  <2>4. OpShape'
    BY <2>2, <2>3 DEF OpShape, Making, Freeing
  <2>5. \A u \in Slots : u # s => PhaseOf(slots[u])' = PhaseOf(slots[u])
    BY <1>1, <1>2, <1>4, OthersPhase
  <2>6. Phase(s)' = "empty"
    BY <1>6, <2>1, <2>2 DEF Phase
  <2>7. ASSUME NEW u \in Slots, u # s
        PROVE  Phase(u)' = Phase(u)
    <3>1. Phase(u) = PhaseOf(slots[u])
      BY <1>2, <2>7 DEF Phase
    <3>2. CASE u = t
      BY <2>2, <3>1, <3>2 DEF Phase
    <3>3. CASE u # t
      BY <2>2, <2>5, <2>7, <3>1, <3>3 DEF Phase
    <3>. QED
      BY <3>2, <3>3
  <2>. QED
    BY <1>7, <2>4, <2>6, <2>7
<1>10. \/ Return
       \/ \E t \in Slots : NextSlot(t, s) /\ TearDownFrom(t, thread.op)
                           /\ thread.op \in {"unload_all", "destroy"}
  BY <1>2 DEF UnloadModule, AllTornDown
<1>. QED
  BY <1>8, <1>9, <1>10

-----------------------------------------------------------------------------
(* The other steps, and the theorem                                        *)

\* An operation on a slot in use begins: the slot counts as what it holds.
LEMMA BegunTable ==
  ASSUME IInv, OpShape, Ready, UNCHANGED <<slots, objects>>, NEW s \in Slots,
         thread'.slot = s, thread'.was = PhaseOf(slots[s]), slots[s].in_use,
         \/ thread'.op \in Freeing /\ thread'.step = "service"
         \/ thread'.op = "instantiate" /\ thread'.step = "create" /\ Inspected(slots[s])
  PROVE  OpShape' /\ TableStep
<1>1. slots[s] \in Slot
  BY DEF IInv, TypeOK
<1>2. thread'.was # "empty" /\ (Inspected(slots[s]) => thread'.was = "inspected")
  BY <1>1, PhaseOfUsed
<1>3. OpShape'
  BY <1>2 DEF OpShape, Making, Freeing
<1>4. ASSUME NEW t \in Slots
      PROVE  Phase(t)' = Phase(t)
  <2>1. Phase(t) = PhaseOf(slots[t])
    BY ZeroIsNoSlot DEF OpShape, Phase, Ready, Idle
  <2>2. PhaseOf(slots[t])' = PhaseOf(slots[t])
    BY DEF PhaseOf, Inspected, Usable
  <2>. QED
    BY <2>1, <2>2 DEF Phase
<1>. QED
  BY <1>3, <1>4 DEF TableStep

\* The slot it takes counts as empty until the operation ends.
LEMMA BeginInspectTable ==
  ASSUME IInv, OpShape, NEW op \in Making, NEW d \in Dlls, BeginInspect(op, d)
  PROVE  OpShape' /\ TableStep
<1> DEFINE n == [EmptySlot EXCEPT !.in_use = TRUE]
<1>1. PICK s \in Slots :
        /\ FindFreeSlot(s)
        /\ slots' = [slots EXCEPT ![s] = n]
        /\ thread' = [op |-> op, step |-> "load", slot |-> s, dll |-> d,
                      was |-> "empty"]
  BY DEF BeginInspect
<1>2. slots[s] = EmptySlot /\ \A t \in Slots : t < s => slots[t].in_use
  BY <1>1 DEF FindFreeSlot, IInv, SlotShape
<1>. HIDE DEF n
<1>3. \A t \in Slots : t # s => slots'[t] = slots[t]
  BY <1>1 DEF IInv, TypeOK
<1>4. thread.slot = 0 /\ UNCHANGED objects
  BY DEF BeginInspect, Ready, Idle, OpShape, pluginVars
<1>5. \A t \in Slots : t < s => t # s
  BY ZeroIsNoSlot
<1>6. OpShape'
  BY <1>1, <1>2, <1>3, <1>5 DEF OpShape, Making, Freeing
<1>7. ASSUME NEW t \in Slots
      PROVE  Phase(t)' = Phase(t)
  <2>1. Phase(t) = PhaseOf(slots[t])
    BY <1>4, ZeroIsNoSlot DEF Phase
  <2>2. CASE t = s
    BY <1>1, <1>2, <2>1, <2>2, PhaseOfEmpty DEF Phase
  <2>3. CASE t # s
    <3>1. PhaseOf(slots[t])' = PhaseOf(slots[t])
      BY <1>3, <1>4, <2>3 DEF PhaseOf, Inspected, Usable
    <3>. QED
      BY <1>1, <2>1, <2>3, <3>1 DEF Phase
  <2>. QED
    BY <2>2, <2>3
<1>. QED
  BY <1>6, <1>7 DEF TableStep

\* What the host does between operations changes no more of a slot than that its
\* view is attached, and leaves an instance its state.
LEMMA LoopTable ==
  ASSUME IInv, IInv', OpShape, UNCHANGED thread,
         \A s \in Slots :
           /\ slots'[s].in_use = slots[s].in_use
           /\ slots'[s].module = slots[s].module
           /\ slots'[s].factory = slots[s].factory
           /\ slots'[s].plugin = slots[s].plugin
           /\ slots'[s].plugin # 0 =>
                objects'[slots[s].plugin].state = objects[slots[s].plugin].state
  PROVE  OpShape' /\ TableStep
<1>1. ASSUME NEW s \in Slots
      PROVE  PhaseOf(slots[s])' = PhaseOf(slots[s])
  <2>1. slots[s] = EmptySlot <=> ~slots[s].in_use
    BY EmptyHoldsNothing DEF IInv, SlotShape
  <2>2. slots'[s] = EmptySlot <=> ~slots'[s].in_use
    BY EmptyHoldsNothing DEF IInv, SlotShape
  <2>3. Inspected(slots[s])' <=> Inspected(slots[s])
    BY DEF IInv, SlotShape, Inspected
  <2>4. Usable(slots[s])' <=> Usable(slots[s])
    BY DEF Usable
  <2>. QED
    BY <2>1, <2>2, <2>3, <2>4 DEF PhaseOf
<1>2. \A s \in Slots : Phase(s)' = Phase(s)
  BY <1>1 DEF Phase
<1>3. OpShape'
  <2>1. thread.step = "query" => thread.slot \in Slots /\ Current.plugin # 0
    BY OwnSlot DEF IInv, ThreadShape
  <2>2. thread.step = "query" =>
          objects'[Current'.plugin].state = objects[Current.plugin].state
    BY <2>1 DEF Current
  <2>. QED
    BY <2>2 DEF OpShape
<1>. QED
  BY <1>2, <1>3 DEF TableStep

LEMMA InstanceStaysTable ==
  ASSUME IInv, IInv', OpShape, UNCHANGED thread, NEW s \in Slots, slots[s].plugin # 0,
         NEW o, objects' = [objects EXCEPT ![slots[s].plugin] = o],
         o.state = objects[slots[s].plugin].state,
         NEW n, slots' = [slots EXCEPT ![s] = n],
         n.in_use = slots[s].in_use, n.module = slots[s].module,
         n.factory = slots[s].factory, n.plugin = slots[s].plugin
  PROVE  OpShape' /\ TableStep
<1>1. /\ slots \in [Slots -> Slot] /\ objects \in Seq(Object)
      /\ \A t \in Slots : slots[t].plugin # 0 => slots[t].plugin \in DOMAIN objects
  BY DEF IInv, TypeOK, SlotShape
<1>2. slots'[s] = n /\ \A t \in Slots : t # s => slots'[t] = slots[t]
  BY <1>1
<1>3. \A i \in DOMAIN objects : objects'[i].state = objects[i].state
  BY <1>1
<1>. QED
  BY <1>1, <1>2, <1>3, LoopTable

LEMMA AttachViewTable ==
  ASSUME IInv, IInv', OpShape, NEW s \in Slots, AttachView(s)
  PROVE  OpShape' /\ TableStep
<1> DEFINE i == slots[s].plugin
           n == Attached(slots[s])
           o == [objects[i] EXCEPT !.attached = TRUE]
<1>1. /\ UNCHANGED thread /\ slots[s].view
      /\ slots' = [slots EXCEPT ![s] = n] /\ objects' = [objects EXCEPT ![i] = o]
  BY DEF AttachView
<1>2. i # 0 /\ objects[i] \in Object /\ slots[s] \in Slot
  BY <1>1, MappedIfOwned DEF IInv, SlotShape, TypeOK
<1>3. o.state = objects[i].state
  BY <1>2 DEF Object
<1>4. /\ n.in_use = slots[s].in_use /\ n.module = slots[s].module
      /\ n.factory = slots[s].factory /\ n.plugin = i
  BY <1>2 DEF Slot, Attached
<1>. HIDE DEF n, o
<1>. QED
  BY <1>1, <1>2, <1>3, <1>4, InstanceStaysTable

LEMMA MoveViewTable ==
  ASSUME IInv, IInv', OpShape, NEW s \in Slots, MoveView(s)
  PROVE  OpShape' /\ TableStep
<1> DEFINE i == slots[s].plugin
<1>1. UNCHANGED thread /\ UNCHANGED slots /\ slots[s].view_attached
  BY DEF MoveView, sessionVars
<1>2. PICK success \in BOOLEAN : objects' = [objects EXCEPT ![i].attached = success]
  BY DEF MoveView
<1> DEFINE o == [objects[i] EXCEPT !.attached = success]
<1>3. i # 0 /\ objects[i] \in Object
  BY <1>1, MappedIfOwned DEF IInv, SlotShape
<1>4. o.state = objects[i].state
  BY <1>3 DEF Object
<1>5. objects' = [objects EXCEPT ![i] = o]
  BY <1>2
<1>6. slots' = [slots EXCEPT ![s] = slots[s]]
  BY <1>1, SameSlot
<1>. HIDE DEF o
<1>. QED
  BY <1>1, <1>3, <1>4, <1>5, <1>6, InstanceStaysTable

LEMMA StartServiceTable ==
  ASSUME IInv, IInv', OpShape, NEW s \in Slots, StartService(s)
  PROVE  OpShape' /\ TableStep
<1> DEFINE i == slots[s].plugin
           o == [objects[i] EXCEPT !.running = TRUE]
<1>1. /\ UNCHANGED thread /\ UNCHANGED slots /\ slots[s].service
      /\ objects' = [objects EXCEPT ![i] = o]
  BY DEF StartService, sessionVars
<1>2. i # 0 /\ objects[i] \in Object
  BY <1>1, MappedIfOwned DEF IInv, SlotShape
<1>3. o.state = objects[i].state
  BY <1>2 DEF Object
<1>4. slots' = [slots EXCEPT ![s] = slots[s]]
  BY <1>1, SameSlot
<1>. HIDE DEF o
<1>. QED
  BY <1>1, <1>2, <1>3, <1>4, InstanceStaysTable

LEMMA QuietTable ==
  ASSUME IInv, IInv', OpShape, UNCHANGED <<slots, objects, thread>>
  PROVE  OpShape' /\ TableStep
  BY LoopTable

LEMMA BeginUnloadAllTable ==
  ASSUME IInv, IInv', OpShape, NEW op \in {"unload_all", "destroy"}, BeginUnloadAll(op)
  PROVE  OpShape' /\ TableStep
<1>1. UNCHANGED <<slots, objects>> /\ Ready
  BY DEF BeginUnloadAll, pluginVars
<1>2. CASE \E s \in Slots : NextSlot(s, 0) /\ TearDownFrom(s, op)
  <2>1. PICK s \in Slots : NextSlot(s, 0) /\ TearDownFrom(s, op)
    BY <1>2
  <2>2. /\ thread'.slot = s /\ thread'.was = PhaseOf(slots[s]) /\ slots[s].in_use
        /\ thread'.op \in Freeing /\ thread'.step = "service"
    BY <2>1 DEF NextSlot, TearDownFrom, Freeing
  <2>. QED
    BY <1>1, <2>2, BegunTable
<1>3. CASE AllTornDown(op)
  <2>1. thread'.slot = 0 /\ thread'.op = "none" /\ thread'.step = "none"
    BY <1>3 DEF AllTornDown, Return, NoThread
  <2>2. OpShape'
    BY <2>1 DEF OpShape, Making, Freeing
  <2>3. thread.slot = 0
    BY <1>1 DEF OpShape, Ready, Idle
  <2>4. ASSUME NEW s \in Slots
        PROVE  Phase(s)' = Phase(s)
    <3>1. PhaseOf(slots[s])' = PhaseOf(slots[s])
      BY <1>1 DEF PhaseOf, Inspected, Usable
    <3>. QED
      BY <2>1, <2>3, <3>1, ZeroIsNoSlot DEF Phase
  <2>. QED
    BY <2>2, <2>4 DEF TableStep
<1>. QED
  BY <1>2, <1>3 DEF BeginUnloadAll

LEMMA NextTable ==
  ASSUME Mannered, IInv, OpShape, [Next]_vars
  PROVE  OpShape' /\ TableStep
<1>1. IInv'
  BY NextInv
<1>2. CASE SessionStep
  BY <1>1, <1>2, LoadModuleTable, GetFactoryTable, PassGatesTable, CreateInstanceTable,
     InitializePluginTable, QueryInterfacesTable, StopServiceTable, DropEventsTable,
     ReleaseViewTable, TerminatePluginTable, ReleaseFactoryTable, UnloadModuleTable
     DEF SessionStep
<1>3. CASE \E op \in {"inspect", "load"}, d \in Dlls : BeginInspect(op, d)
  BY <1>3, BeginInspectTable DEF Making
<1>4. ASSUME NEW s \in Slots, BeginInstantiate(s)
      PROVE  OpShape' /\ TableStep
  <2>1. /\ UNCHANGED <<slots, objects>> /\ Ready /\ slots[s].in_use
        /\ slots[s].plugin = 0 /\ slots[s].factory
    BY <1>4 DEF BeginInstantiate, sessionVars, pluginVars
  <2>2. /\ thread'.slot = s /\ thread'.was = "inspected"
        /\ thread'.op = "instantiate" /\ thread'.step = "create"
    BY <1>4 DEF BeginInstantiate
  <2>3. Inspected(slots[s]) /\ slots[s] \in Slot
    BY <2>1, InspectedSlot DEF IInv, TypeOK
  <2>4. thread'.was = PhaseOf(slots[s])
    BY <2>1, <2>2, <2>3, PhaseOfUsed
  <2>. QED
    BY <2>1, <2>2, <2>3, <2>4, BegunTable
<1>5. ASSUME NEW s \in Slots, BeginUnload(s)
      PROVE  OpShape' /\ TableStep
  <2>1. /\ UNCHANGED <<slots, objects>> /\ Ready /\ slots[s].in_use
        /\ thread'.slot = s /\ thread'.was = PhaseOf(slots[s])
        /\ thread'.op \in Freeing /\ thread'.step = "service"
    BY <1>5 DEF BeginUnload, TearDownFrom, sessionVars, pluginVars, Freeing
  <2>. QED
    BY <2>1, BegunTable
<1>6. CASE \E op \in {"unload_all", "destroy"} : BeginUnloadAll(op)
  BY <1>1, <1>6, BeginUnloadAllTable
<1>7. CASE \/ \E c \in Capabilities : Require(c)
           \/ \E skip \in SkipDetach : SetSkipDetach(skip)
           \/ \E s \in Slots : AttachFails(s) \/ DeliverEvent(s)
           \/ DriveIdle
           \/ \E i \in DOMAIN objects : WorkerRuns(i)
           \/ \E i \in subscribed : PumpCallback(i)
           \/ UNCHANGED vars
  <2>1. UNCHANGED <<slots, objects, thread>>
    BY <1>7 DEF Require, SetSkipDetach, AttachFails, DeliverEvent, DriveIdle, WorkerRuns,
                PumpCallback, vars, sessionVars, pluginVars
  <2>. QED
    BY <1>1, <2>1, QuietTable
<1>8. CASE \E s \in Slots : AttachView(s) \/ MoveView(s) \/ StartService(s)
  BY <1>1, <1>8, AttachViewTable, MoveViewTable, StartServiceTable
<1>. QED
  BY <1>2, <1>3, <1>4, <1>5, <1>6, <1>7, <1>8 DEF Next

LEMMA InitTable ==
  ASSUME Init
  PROVE  OpShape /\ Table!Init
<1>1. thread.slot = 0 /\ thread.op = "none" /\ thread.step = "none"
  BY DEF Init, NoThread
<1>2. OpShape
  BY <1>1 DEF OpShape, Making, Freeing
<1>3. ASSUME NEW s \in Slots
      PROVE  Phase(s) = "empty"
  <2>1. Phase(s) = PhaseOf(slots[s])
    BY <1>1, ZeroIsNoSlot DEF Phase
  <2>2. slots[s] = EmptySlot
    BY DEF Init
  <2>. QED
    BY <2>1, <2>2, PhaseOfEmpty
<1>. QED
  BY <1>2, <1>3 DEF Table!Init

\* Each operation takes effect on its slot at once or not at all, for every number
\* of slots: the session implements SlotTable.
THEOREM SessionImplementsTable ==
  ASSUME Mannered
  PROVE  Spec => ImplementsSlotTable
<1>1. Init => IInv /\ OpShape /\ Table!Init
  BY InitInv, InitTable
<1>2. (IInv /\ OpShape) /\ [Next]_vars => (IInv /\ OpShape)'
  BY NextInv, NextTable
<1>3. (IInv /\ OpShape) /\ [Next]_vars =>
        [Table!Next]_([s \in Slots |-> Phase(s)])
  BY NextTable DEF TableStep
<1>. QED
  BY <1>1, <1>2, <1>3, PTL DEF Spec, ImplementsSlotTable, Table!Spec

=============================================================================
