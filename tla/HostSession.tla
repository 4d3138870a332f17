---------------------------- MODULE HostSession -----------------------------
(***************************************************************************)
(* The L0 host session kit (host_kits/core/pi_host_session.c) on top of    *)
(* the module loader (src/pi_plugin_host.c): slots, gates, instantiation   *)
(* and the seven-step teardown.                                            *)
(*                                                                         *)
(* The session has no lock: the host's GUI thread runs one operation at a  *)
(* time.  `thread` says where in it the thread is, and each call into a    *)
(* plugin is a step of its own, so that the workers of a started service   *)
(* interleave with a load or a teardown.  While the thread is inside a     *)
(* plugin, the plugin may subscribe to events.                             *)
(***************************************************************************)
EXTENDS Integers, Sequences, FiniteSets, Descriptors

CONSTANTS
  MaxSlots,           \* PI_PLUGIN_HOST_SESSION_MAX_SLOTS
  Dlls,               \* paths of plugin modules
  NoDll,              \* a slot without a module
  Capabilities,       \* interface identifiers
  Offered,            \* capabilities the host object answers a query for
  HasEvents,          \* whether the host object has IPiPluginHostEvents
  HostVersion,        \* PI_PLUGIN_API_VERSION of the host
  Described,          \* modules whose factory has a descriptor
  DescriptorOf,       \* what it says
  SubscribesIn,       \* calls during which a plugin may subscribe
  SkipDetach,         \* the arguments the host gives set_skip_detach
  MaxObjects,         \* bound on plugin instances ever created
  MaxLost             \* bound on loads of a module that run out of memory

ASSUME SessionConstants ==
  /\ MaxSlots \in Nat \ {0}
  /\ NoDll \notin Dlls
  /\ Offered \subseteq Capabilities
  /\ HasEvents \in BOOLEAN
  /\ Described \subseteq Dlls
  /\ HostVersion \in Version
  /\ DescriptorOf \in [Described -> Descriptor(Capabilities)]
  /\ SkipDetach \subseteq BOOLEAN
  /\ MaxObjects \in Nat
  /\ MaxLost \in Nat

VARIABLES
  slots,              \* the session's slot table
  required,           \* what the host demands of every plugin
  skip_detach,        \* diagnostic switch
  alive,              \* FALSE once the session is destroyed
  thread,             \* what the host thread is doing in the session
  objects,            \* every plugin instance created, with its interfaces
  mapped,             \* module handles open on each file
  factory_refs,       \* references held to each module's factory
  lost,               \* those of them that nobody can give back
  subscribed,         \* instances that own a subscription in the router
  stray               \* history: code ran whose module was not mapped

sessionVars == <<slots, required, skip_detach, alive>>
pluginVars  == <<objects, mapped, factory_refs, lost, subscribed, stray>>
vars == <<sessionVars, thread, pluginVars>>

Slots == 1 .. MaxSlots

Interface == {"plugin", "view", "service", "sink"}

\* agreed  history: what the host required when the module was let in
Slot ==
  [in_use : BOOLEAN, module : Dlls \cup {NoDll}, factory : BOOLEAN,
   plugin : 0 .. MaxObjects, view : BOOLEAN, service : BOOLEAN, sink : BOOLEAN,
   descriptor : BOOLEAN, view_attached : BOOLEAN,
   agreed : SUBSET Capabilities]

EmptySlot ==
  [in_use |-> FALSE, module |-> NoDll, factory |-> FALSE, plugin |-> 0,
   view |-> FALSE, service |-> FALSE, sink |-> FALSE, descriptor |-> FALSE,
   view_attached |-> FALSE, agreed |-> {}]

\* refs      references held to each of the instance's interfaces
\* attached  its view is embedded in a container
\* running   its service has workers
Object ==
  [dll : Dlls, state : {"created", "initialized", "failed", "terminated"},
   refs : [Interface -> Nat], attached : BOOLEAN, running : BOOLEAN]

\* was  what the slot held when the operation began
Thread ==
  [op : {"none", "inspect", "instantiate", "load", "unload", "unload_all",
         "destroy"},
   step : {"none", "load", "factory", "gates", "create", "initialize", "query",
           "service", "events", "view", "terminate", "release", "module"},
   slot : 0 .. MaxSlots, dll : Dlls \cup {NoDll},
   was : {"empty", "inspected", "ready", "half-made"}]

NoThread ==
  [op |-> "none", step |-> "none", slot |-> 0, dll |-> NoDll, was |-> "empty"]

TypeOK ==
  /\ slots \in [Slots -> Slot]
  /\ required \subseteq Capabilities
  /\ skip_detach \in BOOLEAN
  /\ alive \in BOOLEAN
  /\ thread \in Thread
  /\ objects \in Seq(Object)
  /\ Len(objects) <= MaxObjects
  /\ mapped \in [Dlls -> Nat]
  /\ factory_refs \in [Dlls -> Nat]
  /\ lost \in [Dlls -> Nat]
  /\ subscribed \subseteq DOMAIN objects
  /\ stray \in BOOLEAN

Init ==
  /\ slots = [s \in Slots |-> EmptySlot]
  /\ required = {}
  /\ skip_detach = FALSE
  /\ alive = TRUE
  /\ thread = NoThread
  /\ objects = <<>>
  /\ mapped = [d \in Dlls |-> 0]
  /\ factory_refs = [d \in Dlls |-> 0]
  /\ lost = [d \in Dlls |-> 0]
  /\ subscribed = {}
  /\ stray = FALSE

-----------------------------------------------------------------------------
(* The host thread and the code it runs                                    *)

\* The host thread is in its own loop, with a session to work on.
Idle == thread.op = "none"
Ready == Idle /\ alive

\* The slot the thread is working on.
Current == slots[thread.slot]

At(step) == thread.step = step
Go(step) == thread' = [thread EXCEPT !.step = step]

\* Every failure takes the teardown's path: "rollback".
GiveUp == thread' = NoThread
RollBack == Go("service")

\* The thread returns to the host's loop.
Return == thread' = NoThread

\* Code of module d is executed.
Runs(d) == stray' = (stray \/ mapped[d] = 0)

\* During this call instance i may subscribe, with itself as the owner.
MaySubscribe(i, call) ==
  subscribed' \in IF HasEvents /\ call \in SubscribesIn
                    THEN {subscribed, subscribed \cup {i}}
                    ELSE {subscribed}

\* Releasing the reference a slot holds to an interface of instance i.
KeepsReference(object, kind) == object
Released(object, kind) == [object EXCEPT !.refs[kind] = @ - 1]

\* What a slot holds while no operation is working on it.
Inspected(slot) ==
  /\ slot.in_use
  /\ slot.module # NoDll
  /\ slot.factory
  /\ slot.plugin = 0
  /\ ~slot.view /\ ~slot.service /\ ~slot.sink /\ ~slot.view_attached

Usable(slot) ==
  /\ slot.in_use
  /\ slot.module # NoDll
  /\ slot.factory
  /\ slot.plugin # 0
  /\ objects[slot.plugin].state = "initialized"

PhaseOf(slot) ==
  CASE slot = EmptySlot -> "empty"
    [] Inspected(slot)  -> "inspected"
    [] Usable(slot)     -> "ready"
    [] OTHER            -> "half-made"

-----------------------------------------------------------------------------
(* The gates, both ways                                                    *)

\* What any entry of the plugin's list requires the host must answer a query for.
Needs(d) ==
  LET list == DescriptorOf[d].capabilities
  IN  {list[i].iid : i \in {i \in DOMAIN list : "REQUIRED" \in list[i].flags}}

GatePluginRequirements(d) == d \in Described => Needs(d) \subseteq Offered

\* What the host demands the plugin's descriptor must provide.
NoHostGate(d) == TRUE
GateHostRequirements(d) ==
  \A c \in required : d \in Described /\ DescriptorProvides(DescriptorOf[d], c)

VersionGate(d) ==
  d \in Described => VersionCompatible(HostVersion, DescriptorOf[d].api_version)

-----------------------------------------------------------------------------
(* inspect(), instantiate(), load()                                        *)

\* The lowest slot not in use; a full table is an error that changes nothing.
FindFreeSlot(s) ==
  /\ ~slots[s].in_use
  /\ \A t \in Slots : t < s => slots[t].in_use

\* The slot is wiped and taken before anything can fail.
BeginInspect(op, d) ==
  /\ Ready
  /\ Len(objects) < MaxObjects
  /\ \E s \in Slots :
       /\ FindFreeSlot(s)
       /\ slots' = [slots EXCEPT ![s] = [EmptySlot EXCEPT !.in_use = TRUE]]
       /\ thread' = [op |-> op, step |-> "load", slot |-> s, dll |-> d,
                     was |-> "empty"]
  /\ UNCHANGED <<required, skip_detach, alive, pluginVars>>

\* The module's own reference to its factory comes with it.  When there is no
\* memory for the module, the library is closed and the reference is forgotten.
LoadModule ==
  /\ At("load")
  /\ \/ /\ slots' = [slots EXCEPT ![thread.slot].module = thread.dll]
        /\ mapped' = [mapped EXCEPT ![thread.dll] = @ + 1]
        /\ factory_refs' = [factory_refs EXCEPT ![thread.dll] = @ + 1]
        /\ Go("factory")
        /\ UNCHANGED lost
     \/ /\ RollBack
        /\ UNCHANGED <<slots, mapped, factory_refs, lost>>
     \/ /\ lost[thread.dll] < MaxLost
        /\ factory_refs' = [factory_refs EXCEPT ![thread.dll] = @ + 1]
        /\ lost' = [lost EXCEPT ![thread.dll] = @ + 1]
        /\ RollBack
        /\ UNCHANGED <<slots, mapped>>
  /\ UNCHANGED <<required, skip_detach, alive, objects, subscribed, stray>>

GetFactory ==
  /\ At("factory")
  /\ Runs(thread.dll)
  /\ slots' = [slots EXCEPT ![thread.slot].factory = TRUE]
  /\ factory_refs' = [factory_refs EXCEPT ![thread.dll] = @ + 1]
  /\ Go("gates")
  /\ UNCHANGED <<required, skip_detach, alive, objects, mapped, lost, subscribed>>

\* Version first, then what the plugin wants, then what the host wants.
PassGates ==
  /\ At("gates")
  /\ Runs(thread.dll)
  /\ slots' = [slots EXCEPT ![thread.slot] =
                 [@ EXCEPT !.descriptor = thread.dll \in Described,
                           !.agreed = required]]
  /\ \/ /\ VersionGate(thread.dll)
        /\ GatePluginRequirements(thread.dll)
        /\ GateHostRequirements(thread.dll)
        /\ IF thread.op = "inspect" THEN Return ELSE Go("create")
     \/ /\ ~ (/\ VersionGate(thread.dll)
              /\ GatePluginRequirements(thread.dll)
              /\ GateHostRequirements(thread.dll))
        /\ RollBack
  /\ UNCHANGED <<required, skip_detach, alive, objects, mapped, factory_refs, lost,
                 subscribed>>

\* A slot already instantiated is an error that changes nothing.
BeginInstantiate(s) ==
  /\ Ready
  /\ Len(objects) < MaxObjects
  /\ slots[s].in_use
  /\ slots[s].plugin = 0
  /\ slots[s].factory
  /\ thread' = [op |-> "instantiate", step |-> "create", slot |-> s,
                dll |-> slots[s].module, was |-> "inspected"]
  /\ UNCHANGED <<sessionVars, pluginVars>>

\* No class, a class without an identifier, or a failed creation roll back.
CreateInstance ==
  /\ At("create")
  /\ Runs(thread.dll)
  /\ \/ /\ objects' = Append(objects,
             [dll |-> thread.dll, state |-> "created",
              refs |-> [k \in Interface |-> IF k = "plugin" THEN 1 ELSE 0],
              attached |-> FALSE, running |-> FALSE])
        /\ slots' = [slots EXCEPT ![thread.slot].plugin = Len(objects) + 1]
        /\ Go("initialize")
     \/ /\ RollBack
        /\ UNCHANGED <<objects, slots>>
  /\ UNCHANGED <<required, skip_detach, alive, mapped, factory_refs, lost,
                 subscribed>>

InitializePlugin ==
  LET i == Current.plugin
  IN  /\ At("initialize")
      /\ Runs(thread.dll)
      /\ MaySubscribe(i, "initialize")
      /\ \/ /\ objects' = [objects EXCEPT ![i].state = "initialized"]
            /\ Go("query")
         \/ /\ objects' = [objects EXCEPT ![i].state = "failed"]
            /\ RollBack
      /\ UNCHANGED <<sessionVars, mapped, factory_refs, lost>>

\* A plugin without a view, a service or a sink is none the worse for it.
QueryInterfaces ==
  LET i == Current.plugin
  IN  /\ At("query")
      /\ Runs(thread.dll)
      /\ \E found \in SUBSET (Interface \ {"plugin"}) :
           /\ objects' = [objects EXCEPT ![i].refs =
                [k \in Interface |-> IF k \in found THEN @[k] + 1 ELSE @[k]]]
           /\ slots' = [slots EXCEPT ![thread.slot] =
                [@ EXCEPT !.view = "view" \in found,
                          !.service = "service" \in found,
                          !.sink = "sink" \in found]]
      /\ Return
      /\ UNCHANGED <<required, skip_detach, alive, mapped, factory_refs, lost,
                     subscribed>>

-----------------------------------------------------------------------------
(* The seven steps of the teardown                                         *)

\* 1. The service is stopped, which joins its workers, and released.
NotStopped(object) == object
Stopped(object) == [object EXCEPT !.running = FALSE]

StopService ==
  LET i == Current.plugin
  IN  /\ At("service")
      /\ Go("events")
      /\ \/ /\ Current.service
            /\ Runs(objects[i].dll)
            /\ MaySubscribe(i, "stop")
            /\ objects' = [objects EXCEPT ![i] = Released(Stopped(@), "service")]
            /\ slots' = [slots EXCEPT ![thread.slot].service = FALSE]
         \/ /\ ~Current.service
            /\ UNCHANGED <<objects, slots, subscribed, stray>>
      /\ UNCHANGED <<required, skip_detach, alive, mapped, factory_refs, lost>>

\* 2. The owner's subscriptions are dropped, then its sink released.
KeepsOwner(i) == subscribed
DropOwner(i) == IF HasEvents /\ i # 0 THEN subscribed \ {i} ELSE subscribed

DropEvents ==
  LET i == Current.plugin
  IN  /\ At("events")
      /\ Go("view")
      /\ subscribed' = DropOwner(i)
      /\ \/ /\ Current.sink
            /\ Runs(objects[i].dll)
            /\ objects' = [objects EXCEPT ![i] = Released(@, "sink")]
            /\ slots' = [slots EXCEPT ![thread.slot].sink = FALSE]
         \/ /\ ~Current.sink
            /\ UNCHANGED <<objects, slots, stray>>
      /\ UNCHANGED <<required, skip_detach, alive, mapped, factory_refs, lost>>

\* 3. The view is detached if the session attached it, and released.
NeverDetaches(slot) == FALSE
Detaches(slot) == slot.view_attached /\ ~skip_detach
Detached(object, slot) == [object EXCEPT !.attached = @ /\ ~Detaches(slot)]

ReleaseView ==
  LET i == Current.plugin
  IN  /\ At("view")
      /\ Go("terminate")
      /\ \/ /\ Current.view
            /\ Runs(objects[i].dll)
            /\ IF Detaches(Current) THEN MaySubscribe(i, "detach")
                                    ELSE UNCHANGED subscribed
            /\ objects' = [objects EXCEPT ![i] =
                 Released(Detached(@, Current), "view")]
            /\ slots' = [slots EXCEPT ![thread.slot] =
                 [@ EXCEPT !.view = FALSE, !.view_attached = FALSE]]
         \/ /\ ~Current.view
            /\ slots' = [slots EXCEPT ![thread.slot].view_attached = FALSE]
            /\ UNCHANGED <<objects, subscribed, stray>>
      /\ UNCHANGED <<required, skip_detach, alive, mapped, factory_refs, lost>>

\* 4. The plugin is terminated and released; a view nobody detached is torn
\* down by the plugin itself.
TerminatePlugin ==
  LET i == Current.plugin
  IN  /\ At("terminate")
      /\ Go("release")
      /\ \/ /\ i # 0
            /\ Runs(objects[i].dll)
            /\ MaySubscribe(i, "terminate")
            /\ objects' = [objects EXCEPT ![i] =
                 [Released(@, "plugin") EXCEPT !.state = "terminated",
                                               !.attached = FALSE]]
            /\ slots' = [slots EXCEPT ![thread.slot].plugin = 0]
         \/ /\ i = 0
            /\ UNCHANGED <<objects, slots, subscribed, stray>>
      /\ UNCHANGED <<required, skip_detach, alive, mapped, factory_refs, lost>>

\* 5. The session's reference to the factory.
ReleaseFactory ==
  /\ At("release")
  /\ Go("module")
  /\ \/ /\ Current.factory
        /\ Runs(Current.module)
        /\ factory_refs' = [factory_refs EXCEPT ![Current.module] = @ - 1]
        /\ slots' = [slots EXCEPT ![thread.slot].factory = FALSE]
     \/ /\ ~Current.factory
        /\ UNCHANGED <<factory_refs, slots, stray>>
  /\ UNCHANGED <<required, skip_detach, alive, objects, mapped, lost, subscribed>>

\* The next slot unload_all() and destroy() have to tear down after slot s.
NextSlotSkipsOne(s, after) ==
  /\ s > after + 1
  /\ slots[s].in_use
  /\ \A t \in Slots : t > after + 1 /\ slots[t].in_use => s <= t
NextSlot(s, after) ==
  /\ s > after
  /\ slots[s].in_use
  /\ \A t \in Slots : t > after /\ slots[t].in_use => s <= t

TearDownFrom(s, op) ==
  thread' = [op |-> op, step |-> "service", slot |-> s, dll |-> slots[s].module,
             was |-> PhaseOf(slots[s])]

\* destroy() frees the session, unload_all() goes back to the host.
AllTornDown(op) ==
  /\ Return
  /\ alive' = (op # "destroy")

\* 6 and 7. The module gives up its factory and its handle; the slot is free.
Vacated(slot) == [slot EXCEPT !.module = NoDll, !.descriptor = FALSE,
                              !.in_use = FALSE, !.agreed = {}]

UnloadModule ==
  LET d == Current.module
  IN  /\ At("module")
      /\ \/ /\ d # NoDll
            /\ Runs(d)
            /\ factory_refs' = [factory_refs EXCEPT ![d] = @ - 1]
            /\ mapped' = [mapped EXCEPT ![d] = @ - 1]
         \/ /\ d = NoDll
            /\ UNCHANGED <<factory_refs, mapped, stray>>
      /\ slots' = [slots EXCEPT ![thread.slot] = Vacated(@)]
      /\ \/ /\ thread.op \in {"unload_all", "destroy"}
            /\ \E s \in Slots : /\ NextSlot(s, thread.slot)
                                /\ TearDownFrom(s, thread.op)
            /\ UNCHANGED alive
         \/ /\ thread.op \in {"unload_all", "destroy"}
            /\ ~ \E s \in Slots : NextSlot(s, thread.slot)
            /\ AllTornDown(thread.op)
         \/ /\ thread.op \notin {"unload_all", "destroy"}
            /\ Return
            /\ UNCHANGED alive
      /\ UNCHANGED <<required, skip_detach, objects, lost, subscribed>>

BeginUnload(s) ==
  /\ Ready
  /\ slots[s].in_use
  /\ TearDownFrom(s, "unload")
  /\ UNCHANGED <<sessionVars, pluginVars>>

BeginUnloadAll(op) ==
  /\ Ready
  /\ \/ /\ \E s \in Slots : NextSlot(s, 0) /\ TearDownFrom(s, op)
        /\ UNCHANGED alive
     \/ /\ ~ \E s \in Slots : NextSlot(s, 0)
        /\ op = "destroy"
        /\ AllTornDown(op)
  /\ UNCHANGED <<slots, required, skip_detach, pluginVars>>

-----------------------------------------------------------------------------
(* What the host does with a session                                       *)

\* A capability every plugin must provide; asking twice is asking once.
Require(c) ==
  /\ Ready
  /\ c \notin required
  /\ Cardinality(required) < MaxSlots
  /\ required' = required \cup {c}
  /\ UNCHANGED <<slots, skip_detach, alive, thread, pluginVars>>

SetSkipDetach(skip) ==
  /\ Ready
  /\ skip_detach' = skip
  /\ UNCHANGED <<slots, required, alive, thread, pluginVars>>

\* Embed a slot's view.
Unrecorded(slot) == slot
Attached(slot) == [slot EXCEPT !.view_attached = TRUE]

AttachView(s) ==
  LET i == slots[s].plugin
  IN  /\ Ready
      /\ slots[s].in_use
      /\ slots[s].view
      /\ ~slots[s].view_attached
      /\ Runs(objects[i].dll)
      /\ MaySubscribe(i, "attach")
      /\ slots' = [slots EXCEPT ![s] = Attached(@)]
      /\ objects' = [objects EXCEPT ![i].attached = TRUE]
      /\ UNCHANGED <<required, skip_detach, alive, thread, mapped,
                     factory_refs, lost>>

\* An attach the plugin fails leaves the slot as it was.
AttachFails(s) ==
  /\ Ready
  /\ slots[s].in_use
  /\ slots[s].view
  /\ ~slots[s].view_attached
  /\ Runs(objects[slots[s].plugin].dll)
  /\ MaySubscribe(slots[s].plugin, "attach")
  /\ UNCHANGED <<sessionVars, thread, objects, mapped, factory_refs, lost>>

\* The host moves an embedded view itself, behind the session's back: it
\* detaches the borrowed view and attaches it to another container, which may
\* fail.
MoveView(s) ==
  LET i == slots[s].plugin
  IN  /\ Ready
      /\ slots[s].view_attached
      /\ Runs(objects[i].dll)
      /\ \E success \in BOOLEAN :
           objects' = [objects EXCEPT ![i].attached = success]
      /\ UNCHANGED <<sessionVars, thread, mapped, factory_refs, lost, subscribed>>

\* Every view of the session gets its slice of time.
DriveIdle ==
  LET viewed == {s \in Slots : slots[s].in_use /\ slots[s].view}
  IN  /\ Ready
      /\ viewed # {}
      /\ stray' = (stray \/ \E s \in viewed : mapped[slots[s].module] = 0)
      /\ \/ UNCHANGED subscribed
         \/ /\ HasEvents /\ "idle" \in SubscribesIn
            /\ \E S \in SUBSET {slots[s].plugin : s \in viewed} :
                 subscribed' = subscribed \cup S
      /\ UNCHANGED <<sessionVars, thread, objects, mapped, factory_refs, lost>>

\* An event goes straight to a slot's sink.
DeliverEvent(s) ==
  LET i == slots[s].plugin
  IN  /\ Ready
      /\ slots[s].in_use
      /\ i # 0
      /\ slots[s].sink
      /\ Runs(objects[i].dll)
      /\ MaySubscribe(i, "deliver")
      /\ UNCHANGED <<sessionVars, thread, objects, mapped, factory_refs, lost>>

\* The host starts the service it borrowed from a slot: workers run.
StartService(s) ==
  LET i == slots[s].plugin
  IN  /\ Ready
      /\ slots[s].service
      /\ Runs(objects[i].dll)
      /\ objects' = [objects EXCEPT ![i].running = TRUE]
      /\ UNCHANGED <<sessionVars, thread, mapped, factory_refs, lost, subscribed>>

-----------------------------------------------------------------------------
(* The other callers of plugin code                                        *)

\* A worker of a started service makes progress, at any time.
WorkerRuns(i) ==
  /\ objects[i].running
  /\ Runs(objects[i].dll)
  /\ UNCHANGED <<sessionVars, thread, objects, mapped, factory_refs, lost,
                 subscribed>>

\* The host pumps its router from its loop: a subscription's callback runs, and
\* may end the subscription.
PumpCallback(i) ==
  /\ Idle
  /\ i \in subscribed
  /\ Runs(objects[i].dll)
  /\ subscribed' \in {subscribed, subscribed \ {i}}
  /\ UNCHANGED <<sessionVars, thread, objects, mapped, factory_refs, lost>>

-----------------------------------------------------------------------------
SessionStep ==
  \/ LoadModule
  \/ GetFactory
  \/ PassGates
  \/ CreateInstance
  \/ InitializePlugin
  \/ QueryInterfaces
  \/ StopService
  \/ DropEvents
  \/ ReleaseView
  \/ TerminatePlugin
  \/ ReleaseFactory
  \/ UnloadModule

Next ==
  \/ SessionStep
  \/ \E op \in {"inspect", "load"}, d \in Dlls : BeginInspect(op, d)
  \/ \E s \in Slots : BeginInstantiate(s)
  \/ \E s \in Slots : BeginUnload(s)
  \/ \E op \in {"unload_all", "destroy"} : BeginUnloadAll(op)
  \/ \E c \in Capabilities : Require(c)
  \/ \E skip \in SkipDetach : SetSkipDetach(skip)
  \/ \E s \in Slots : AttachView(s) \/ AttachFails(s)
  \/ \E s \in Slots : MoveView(s)
  \/ \E s \in Slots : DeliverEvent(s)
  \/ \E s \in Slots : StartService(s)
  \/ DriveIdle
  \/ \E i \in DOMAIN objects : WorkerRuns(i)
  \/ \E i \in subscribed : PumpCallback(i)

Spec == Init /\ [][Next]_vars

\* Calls into plugins and into the system loader return.
FairSpec == Spec /\ WF_vars(SessionStep)

-----------------------------------------------------------------------------
(* Properties                                                              *)

\* No code of a plugin module is executed after its last handle is closed: not
\* by the session, by a service's worker, or by a callback the router kept.
RunsMappedCode ==
  /\ ~stray
  /\ \A i \in DOMAIN objects : objects[i].running => mapped[objects[i].dll] > 0

HoldersOf(i, kind) ==
  {s \in Slots : slots[s].plugin = i /\ (kind = "plugin" \/ slots[s][kind])}
Using(d) == {s \in Slots : slots[s].module = d}

\* Every reference is held by exactly one slot and given back once: no
\* operation, failed or not, leaks an interface or a module, no slot keeps a
\* pointer to something released, and no factory reference is leaked but those
\* that a load takes for which there is no memory in the end.
FactoryHolders(d) ==
  Cardinality(Using(d)) + Cardinality({s \in Using(d) : slots[s].factory})
ReferencesBalanced ==
  /\ TypeOK
  /\ \A i \in DOMAIN objects, kind \in Interface :
       objects[i].refs[kind] = Cardinality(HoldersOf(i, kind))
  /\ \A d \in Dlls :
       /\ mapped[d] = Cardinality(Using(d))
       /\ factory_refs[d] = FactoryHolders(d) + lost[d]

\* What the session's header says: a load that fails leaves nothing half-made
\* behind, so between two operations only slots hold references to a factory.
\* (The code does not keep it: README.md, section 3.)
FactoriesGivenBack ==
  Idle => \A d \in Dlls : factory_refs[d] = FactoryHolders(d)

\* An instance is created only from a module both sides agreed on, although the
\* host may add demands between inspect() and instantiate(): it is no newer than
\* the host, nothing it lists as required is missing there, and whatever was
\* demanded when it was let in it lists as provided.
GatedBeforeCreated ==
  \A i \in DOMAIN objects :
    LET d == objects[i].dll
        Lists(c, flag) ==
          /\ d \in Described
          /\ \E entry \in {DescriptorOf[d].capabilities[n] :
                           n \in DOMAIN DescriptorOf[d].capabilities} :
               entry.iid = c /\ flag \in entry.flags
    IN  /\ d \in Described =>
             /\ DescriptorOf[d].api_version.major = HostVersion.major
             /\ DescriptorOf[d].api_version.minor <= HostVersion.minor
        /\ \A c \in Capabilities : Lists(c, "REQUIRED") => c \in Offered
        /\ \A s \in Slots : slots[s].plugin = i =>
             \A c \in slots[s].agreed : Lists(c, "PROVIDES")

\* A terminated plugin is quiet: its workers are stopped, its interfaces given
\* back, and nothing in the router belongs to it any more.
QuietBeforeTerminate ==
  \A i \in DOMAIN objects : objects[i].state = "terminated" =>
    /\ ~objects[i].running
    /\ \A kind \in Interface : objects[i].refs[kind] = 0
    /\ i \notin subscribed

\* A view is released only once it is detached.
DetachedBeforeReleased ==
  [][\A i \in DOMAIN objects :
       objects[i].refs["view"] > objects'[i].refs["view"] =>
         ~objects'[i].attached \/ skip_detach]_vars

\* The session knows of every view that is embedded, so no unload forgets one.
SessionKnowsAttached ==
  \A i \in DOMAIN objects : objects[i].attached =>
    skip_detach \/ \E s \in Slots : slots[s].plugin = i /\ slots[s].view_attached

\* Every load, unload and destroy comes to its end, and a destroyed session has
\* unmapped every module it loaded.
OperationsFinish ==
  /\ thread.op # "none" ~> thread.op = "none"
  /\ thread.op = "destroy" ~> (~alive /\ \A d \in Dlls : mapped[d] = 0)

\* Each operation takes effect on its slot at once, or not at all.
Phase(s) == IF thread.slot = s THEN thread.was ELSE PhaseOf(slots[s])
Table == INSTANCE SlotTable WITH phase <- [s \in Slots |-> Phase(s)]
ImplementsSlotTable == Table!Spec

=============================================================================
