---------------------------- MODULE EmbedAreaProofs ---------------------------
(***************************************************************************)
(* An embedding area beside a session, for every number of slots and all   *)
(* modules: what the area does is something the session's host may do      *)
(* anyway, so all that holds of a session holds of one with an area; it    *)
(* never drives a view that is gone, whatever is unloaded from the slot it *)
(* is bound to; and while the view it embedded is out, it drives that one. *)
(***************************************************************************)
EXTENDS EmbedArea, HostSessionProofs

-----------------------------------------------------------------------------
(* The area is a host of the session                                       *)

LEMMA AreaViewIsViewed ==
  ASSUME IInv, m_slot \in Slots \cup {0}, AreaView # 0
  PROVE  /\ m_slot \in Slots /\ slots[m_slot].in_use /\ slots[m_slot].view
         /\ AreaView = slots[m_slot].plugin /\ slots[m_slot].plugin # 0
  BY DEF AreaView

LEMMA DriveViewIsDriveIdle ==
  ASSUME IInv, m_slot \in Slots \cup {0}, DriveView
  PROVE  DriveIdle
<1> DEFINE viewed == {s \in Slots : slots[s].in_use /\ slots[s].view}
<1>1. m_slot \in viewed /\ AreaView = slots[m_slot].plugin /\ slots[m_slot].plugin # 0
  BY AreaViewIsViewed DEF DriveView
<1>2. /\ Ready /\ Runs(objects[slots[m_slot].plugin].dll)
      /\ MaySubscribe(slots[m_slot].plugin, "idle")
      /\ UNCHANGED <<sessionVars, thread, objects, mapped, factory_refs, lost>>
  BY <1>1 DEF DriveView
<1>3. m_slot \in Slots
  BY <1>1
<1>4. stray' = FALSE /\ stray = FALSE
  BY <1>1, <1>2, <1>3, NotStray DEF IInv, TypeOK
<1>5. \A s \in viewed : ~ (mapped[slots[s].module] = 0)
  <2>. SUFFICES ASSUME NEW s \in viewed
                PROVE  mapped[slots[s].module] # 0
    OBVIOUS
  <2>1. slots[s].plugin # 0
    BY DEF IInv, SlotShape
  <2>. QED
    BY <2>1, MappedIfOwned
<1>6. stray' = (stray \/ \E s \in viewed : mapped[slots[s].module] = 0)
  BY <1>4, <1>5
<1>7. \/ UNCHANGED subscribed
      \/ /\ HasEvents /\ "idle" \in SubscribesIn
         /\ \E S \in SUBSET {slots[s].plugin : s \in viewed} :
              subscribed' = subscribed \cup S
  <2>1. CASE UNCHANGED subscribed
    BY <2>1
  <2>2. CASE /\ HasEvents /\ "idle" \in SubscribesIn
             /\ subscribed' = subscribed \cup {slots[m_slot].plugin}
    <3>1. {slots[m_slot].plugin} \in SUBSET {slots[s].plugin : s \in viewed}
      BY <1>1
    <3>. QED
      BY <2>2, <3>1
  <2>. QED
    BY <1>2, <2>1, <2>2 DEF MaySubscribe
<1>. QED
  BY <1>1, <1>2, <1>6, <1>7 DEF DriveIdle

LEMMA AreaStepIsAHostStep ==
  ASSUME IInv, m_slot \in Slots \cup {0}, [AreaNext]_areaVars
  PROVE  [Next]_vars
<1>1. CASE HostStep
  BY <1>1 DEF HostStep
<1>2. CASE DetachBinding
  BY <1>2 DEF DetachBinding
<1>3. CASE DriveView
  BY <1>3, DriveViewIsDriveIdle DEF Next
<1>4. ASSUME NEW s \in Slots, Embed(s)
      PROVE  [Next]_vars
  BY <1>4 DEF Embed, Next
<1>5. ASSUME NEW s \in Slots, EmbedFails(s)
      PROVE  [Next]_vars
  BY <1>5 DEF EmbedFails, Next
<1>6. CASE UNCHANGED areaVars
  BY <1>6 DEF areaVars
<1>. QED
  BY <1>1, <1>2, <1>3, <1>4, <1>5, <1>6 DEF AreaNext

-----------------------------------------------------------------------------
(* The slot the area is bound to                                           *)

\* Whatever a step does to slot t, if it still has a view after it, the view was
\* there before, or the thread has just found it.
KeepsItsView(t) ==
  slots'[t].plugin # 0 /\ slots'[t].view =>
    /\ slots[t].plugin = slots'[t].plugin
    /\ slots[t].view \/ (thread.step = "query" /\ thread.slot = t)
    /\ slots[t].view_attached => slots'[t].view_attached

\* A step that leaves the plugin and the view of one slot alone, or ends them.
LEMMA SameView ==
  ASSUME slots \in [Slots -> Slot], NEW s \in Slots, NEW n,
         slots' = [slots EXCEPT ![s] = n],
         n.plugin # 0 /\ n.view =>
           /\ n.plugin = slots[s].plugin
           /\ slots[s].view
           /\ n.view_attached = slots[s].view_attached,
         NEW t \in Slots
  PROVE  KeepsItsView(t)
<1>1. slots'[s] = n /\ (t # s => slots'[t] = slots[t])
  OBVIOUS
<1>. QED
  BY <1>1 DEF KeepsItsView

LEMMA FieldsOfASlot ==
  ASSUME NEW r \in Slot
  PROVE  /\ LET n == [r EXCEPT !.service = FALSE]
            IN  n.plugin = r.plugin /\ n.view = r.view /\ n.view_attached = r.view_attached
         /\ LET n == [r EXCEPT !.sink = FALSE]
            IN  n.plugin = r.plugin /\ n.view = r.view /\ n.view_attached = r.view_attached
         /\ ~[r EXCEPT !.view = FALSE, !.view_attached = FALSE].view
         /\ [r EXCEPT !.view_attached = FALSE].view = r.view
         /\ [r EXCEPT !.plugin = 0].plugin = 0
  BY DEF Slot

LEMMA ViewsOfSlots ==
  ASSUME IInv, IInv', [Next]_vars, NEW t \in Slots
  PROVE  KeepsItsView(t)
<1>1. /\ slots \in [Slots -> Slot] /\ slots' \in [Slots -> Slot]
      /\ slots'[thread.slot] \in Slot \/ thread.slot \notin Slots
  BY DEF IInv, TypeOK
<1>2. CASE SessionStep
  <2> DEFINE s == thread.slot
  <2>1. s \in Slots /\ slots[s] \in Slot /\ Current = slots[s] /\ slots'[s] \in Slot
    <3>1. thread.step # "none"
      BY <1>2 DEF SessionStep, LoadModule, GetFactory, PassGates, CreateInstance,
                  InitializePlugin, QueryInterfaces, StopService, DropEvents,
                  ReleaseView, TerminatePlugin, ReleaseFactory, UnloadModule, At
    <3>. QED
      BY <1>1, <3>1, OwnSlot
  <2>. HIDE DEF s
  <2>2. ASSUME slots'[t] = slots[t]
        PROVE  KeepsItsView(t)
    BY <2>2 DEF KeepsItsView
  <2>3. ASSUME t # s
        PROVE  slots'[t] = slots[t]
    <3>1. \/ UNCHANGED slots
          \/ \E n : slots' = [slots EXCEPT ![s] = n]
      BY <1>2 DEF SessionStep, LoadModule, GetFactory, PassGates, CreateInstance,
                  InitializePlugin, QueryInterfaces, StopService, DropEvents,
                  ReleaseView, TerminatePlugin, ReleaseFactory, UnloadModule,
                  sessionVars, s
    <3>. QED
      BY <1>1, <2>1, <2>3, <3>1
  <2>4. CASE LoadModule \/ GetFactory
    BY <1>1, <2>1, <2>2, <2>3, <2>4 DEF LoadModule, GetFactory, s, Slot, KeepsItsView
  <2>5. CASE PassGates
    BY <1>1, <2>1, <2>2, <2>3, <2>5 DEF PassGates, s, Slot, KeepsItsView
  <2>6. CASE CreateInstance
    <3>1. slots[s].plugin = 0 /\ ~slots[s].view
      BY <2>1, <2>6 DEF CreateInstance, At, IInv, ThreadShape, SlotShape
    <3>2. ~slots'[s].view
      BY <1>1, <2>1, <2>6, <3>1 DEF CreateInstance, s, Slot
    <3>. QED
      BY <2>2, <2>3, <3>2 DEF KeepsItsView
  <2>7. CASE InitializePlugin
    BY <2>2, <2>7 DEF InitializePlugin, sessionVars
  <2>8. CASE QueryInterfaces
    <3>1. /\ slots'[s].plugin = slots[s].plugin
          /\ slots'[s].view_attached = slots[s].view_attached
          /\ thread.step = "query"
      BY <1>1, <2>1, <2>8 DEF QueryInterfaces, At, s, Slot
    <3>. QED
      BY <2>2, <2>3, <3>1 DEF KeepsItsView, s
  <2>9. CASE StopService \/ DropEvents
    <3>1. CASE slots' = [slots EXCEPT ![s].service = FALSE]
      <4> DEFINE n == [slots[s] EXCEPT !.service = FALSE]
      <4>1. slots' = [slots EXCEPT ![s] = n]
        BY <3>1
      <4>2. n.plugin # 0 /\ n.view =>
              /\ n.plugin = slots[s].plugin
              /\ slots[s].view
              /\ n.view_attached = slots[s].view_attached
        BY <2>1, FieldsOfASlot
      <4>. HIDE DEF n
      <4>. QED
        BY <1>1, <2>1, <4>1, <4>2, SameView
    <3>2. CASE slots' = [slots EXCEPT ![s].sink = FALSE]
      <4> DEFINE n == [slots[s] EXCEPT !.sink = FALSE]
      <4>1. slots' = [slots EXCEPT ![s] = n]
        BY <3>2
      <4>2. n.plugin # 0 /\ n.view =>
              /\ n.plugin = slots[s].plugin
              /\ slots[s].view
              /\ n.view_attached = slots[s].view_attached
        BY <2>1, FieldsOfASlot
      <4>. HIDE DEF n
      <4>. QED
        BY <1>1, <2>1, <4>1, <4>2, SameView
    <3>3. CASE UNCHANGED slots
      BY <2>2, <3>3
    <3>. QED
      BY <2>9, <3>1, <3>2, <3>3 DEF StopService, DropEvents, s
  <2>10. CASE ReleaseView
    <3>1. CASE slots' = [slots EXCEPT ![s] = [@ EXCEPT !.view = FALSE, !.view_attached = FALSE]]
      <4> DEFINE n == [slots[s] EXCEPT !.view = FALSE, !.view_attached = FALSE]
      <4>1. slots' = [slots EXCEPT ![s] = n]
        BY <3>1
      <4>2. n.plugin # 0 /\ n.view =>
              /\ n.plugin = slots[s].plugin
              /\ slots[s].view
              /\ n.view_attached = slots[s].view_attached
        BY <2>1, FieldsOfASlot
      <4>. HIDE DEF n
      <4>. QED
        BY <1>1, <2>1, <4>1, <4>2, SameView
    <3>2. CASE ~Current.view /\ slots' = [slots EXCEPT ![s].view_attached = FALSE]
      <4> DEFINE n == [slots[s] EXCEPT !.view_attached = FALSE]
      <4>1. slots' = [slots EXCEPT ![s] = n]
        BY <3>2
      <4>2. n.plugin # 0 /\ n.view =>
              /\ n.plugin = slots[s].plugin
              /\ slots[s].view
              /\ n.view_attached = slots[s].view_attached
        BY <2>1, <3>2, FieldsOfASlot
      <4>. HIDE DEF n
      <4>. QED
        BY <1>1, <2>1, <4>1, <4>2, SameView
    <3>. QED
      BY <2>10, <3>1, <3>2 DEF ReleaseView, s
  <2>11. CASE TerminatePlugin
    <3>1. CASE slots' = [slots EXCEPT ![s].plugin = 0]
      <4> DEFINE n == [slots[s] EXCEPT !.plugin = 0]
      <4>1. slots' = [slots EXCEPT ![s] = n]
        BY <3>1
      <4>2. n.plugin # 0 /\ n.view =>
              /\ n.plugin = slots[s].plugin
              /\ slots[s].view
              /\ n.view_attached = slots[s].view_attached
        BY <2>1, FieldsOfASlot
      <4>. HIDE DEF n
      <4>. QED
        BY <1>1, <2>1, <4>1, <4>2, SameView
    <3>2. CASE UNCHANGED slots
      BY <2>2, <3>2
    <3>. QED
      BY <2>11, <3>1, <3>2 DEF TerminatePlugin, s
  <2>12. CASE ReleaseFactory \/ UnloadModule
    <3>1. slots[s].plugin = 0
      BY <2>1, <2>12 DEF ReleaseFactory, UnloadModule, At, IInv, TearDownShape
    <3>2. UnloadModule => slots'[s].plugin = 0
      <4>1. Vacated(slots[s]).plugin = 0
        BY <2>1, <3>1 DEF Vacated, Slot
      <4>2. UnloadModule => slots' = [slots EXCEPT ![s] = Vacated(slots[s])]
        BY DEF UnloadModule, s
      <4>. QED
        BY <1>1, <2>1, <4>1, <4>2
    <3>3. ReleaseFactory => slots'[s].plugin = 0
      <4>1. [slots[s] EXCEPT !.factory = FALSE].plugin = 0
        BY <2>1, <3>1 DEF Slot
      <4>2. ReleaseFactory => \/ UNCHANGED slots
                              \/ slots' = [slots EXCEPT ![s] = [slots[s] EXCEPT !.factory = FALSE]]
        BY DEF ReleaseFactory, s
      <4>. QED
        BY <1>1, <2>1, <3>1, <4>1, <4>2
    <3>. QED
      BY <2>2, <2>3, <2>12, <3>2, <3>3 DEF KeepsItsView
  <2>. QED
    BY <1>2, <2>4, <2>5, <2>6, <2>7, <2>8, <2>9, <2>10, <2>11, <2>12 DEF SessionStep
<1>3. ASSUME NEW op \in {"inspect", "load"}, NEW d \in Dlls, BeginInspect(op, d)
      PROVE  KeepsItsView(t)
  <2>1. PICK s \in Slots : slots' = [slots EXCEPT ![s] = [EmptySlot EXCEPT !.in_use = TRUE]]
    BY <1>3 DEF BeginInspect
  <2>2. [EmptySlot EXCEPT !.in_use = TRUE].plugin = 0
    BY DEF EmptySlot
  <2>. QED
    BY <1>1, <2>1, <2>2 DEF KeepsItsView
<1>4. ASSUME NEW s \in Slots, AttachView(s)
      PROVE  KeepsItsView(t)
  BY <1>1, <1>4 DEF AttachView, Attached, Slot, KeepsItsView
<1>5. CASE \/ \E s \in Slots : BeginInstantiate(s)
           \/ \E s \in Slots : BeginUnload(s)
           \/ \E op \in {"unload_all", "destroy"} : BeginUnloadAll(op)
           \/ \E c \in Capabilities : Require(c)
           \/ \E skip \in SkipDetach : SetSkipDetach(skip)
           \/ \E s \in Slots : AttachFails(s)
           \/ \E s \in Slots : MoveView(s)
           \/ \E s \in Slots : DeliverEvent(s)
           \/ \E s \in Slots : StartService(s)
           \/ DriveIdle
           \/ \E i \in DOMAIN objects : WorkerRuns(i)
           \/ \E i \in subscribed : PumpCallback(i)
           \/ UNCHANGED vars
  <2>1. UNCHANGED slots
    BY <1>5 DEF BeginInstantiate, BeginUnload, BeginUnloadAll, Require, SetSkipDetach,
                AttachFails, MoveView, DeliverEvent, StartService, DriveIdle,
                WorkerRuns, PumpCallback, vars, sessionVars
  <2>. QED
    BY <2>1 DEF KeepsItsView
<1>. QED
  BY <1>2, <1>3, <1>4, <1>5 DEF Next

-----------------------------------------------------------------------------
(* The area's invariant                                                    *)

\* No slot but the bound one has the view the area embedded, the session has it
\* on record as attached, and nothing is about to give that instance a view.
Bound ==
  /\ m_slot \in Slots \cup {0}
  /\ m_slot # 0 =>
       /\ embedded \in DOMAIN objects
       /\ \A t \in Slots : slots[t].plugin = embedded /\ slots[t].view =>
            t = m_slot /\ slots[t].view_attached
       /\ thread.step \in {"initialize", "query"} => Current.plugin # embedded

\* Instances are never forgotten, and the only one that is being set up is one
\* that was created for it.
LEMMA InstancesStay ==
  ASSUME IInv, IInv', [Next]_vars
  PROVE  /\ DOMAIN objects \subseteq DOMAIN objects'
         /\ thread'.step \in {"initialize", "query"} =>
              \/ Current'.plugin \notin DOMAIN objects
              \/ /\ thread.step \in {"initialize", "query"}
                 /\ Current'.plugin = Current.plugin
<1>1. objects \in Seq(Object) /\ objects' \in Seq(Object) /\ slots \in [Slots -> Slot]
  BY DEF IInv, TypeOK
<1>2. \/ UNCHANGED objects
      \/ \E i, o : objects' = [objects EXCEPT ![i] = o]
      \/ \E o : objects' = Append(objects, o)
  BY DEF Next, SessionStep, LoadModule, GetFactory, PassGates, CreateInstance,
         InitializePlugin, QueryInterfaces, StopService, DropEvents, ReleaseView,
         TerminatePlugin, ReleaseFactory, UnloadModule, BeginInspect,
         BeginInstantiate, BeginUnload, BeginUnloadAll, Require, SetSkipDetach,
         AttachView, AttachFails, MoveView, DriveIdle, DeliverEvent, StartService,
         WorkerRuns, PumpCallback, vars, sessionVars, pluginVars
<1>3. DOMAIN objects \subseteq DOMAIN objects'
  <2>1. CASE UNCHANGED objects
    BY <2>1
  <2>2. CASE \E i, o : objects' = [objects EXCEPT ![i] = o]
    BY <2>2
  <2>3. ASSUME NEW o, objects' = Append(objects, o)
        PROVE  DOMAIN objects \subseteq DOMAIN objects'
    <3>1. Len(objects') = Len(objects) + 1
      BY <1>1, <2>3
    <3>. QED
      BY <1>1, <3>1
  <2>. QED
    BY <1>2, <2>1, <2>2, <2>3
<1>4. ASSUME thread'.step \in {"initialize", "query"}
      PROVE  \/ Current'.plugin \notin DOMAIN objects
             \/ /\ thread.step \in {"initialize", "query"}
                /\ Current'.plugin = Current.plugin
  <2>1. CASE CreateInstance /\ ~RollBack
    <3>1. thread.step = "create" /\ thread.slot \in Slots
      BY <2>1, OwnSlot DEF CreateInstance, At
    <3>2. slots' = [slots EXCEPT ![thread.slot].plugin = Len(objects) + 1] /\ Go("initialize")
      BY <2>1 DEF CreateInstance
    <3>3. thread'.slot = thread.slot
      BY <3>1, <3>2, GoesOn
    <3>4. slots'[thread.slot].plugin = Len(objects) + 1
      BY <1>1, <3>1, <3>2 DEF Slot
    <3>5. Len(objects) + 1 \notin DOMAIN objects
      BY <1>1
    <3>. QED
      BY <3>3, <3>4, <3>5 DEF Current
  <2>2. CASE InitializePlugin
    <3>1. thread.step = "initialize" /\ UNCHANGED slots
      BY <2>2 DEF InitializePlugin, At, sessionVars
    <3>2. thread'.slot = thread.slot
      BY <2>2, <3>1, GoesOn DEF InitializePlugin, RollBack
    <3>. QED
      BY <3>1, <3>2 DEF Current
  <2>3. CASE UNCHANGED <<slots, thread>>
    BY <1>4, <2>3 DEF Current
  <2>4. CASE thread'.step \notin {"initialize", "query"}
    BY <1>4, <2>4
  <2>5. thread \in Thread
    BY DEF IInv, TypeOK
  <2>6. CASE SessionStep /\ ~CreateInstance /\ ~InitializePlugin
    <3>1. thread'.step \notin {"initialize", "query"}
      <4>1. \/ \E step \in {"factory", "gates", "create", "service", "events", "view",
                            "terminate", "release", "module"} : Go(step)
            \/ Return
            \/ \E t \in Slots, op \in {"unload_all", "destroy"} : TearDownFrom(t, op)
        BY <2>6 DEF SessionStep, LoadModule, GetFactory, PassGates, QueryInterfaces,
              StopService, DropEvents, ReleaseView, TerminatePlugin, ReleaseFactory,
              UnloadModule, RollBack, AllTornDown
      <4>2. ASSUME NEW step \in {"factory", "gates", "create", "service", "events",
                                 "view", "terminate", "release", "module"}, Go(step)
            PROVE  thread'.step = step
        BY <2>5, <4>2 DEF Go, Thread
      <4>3. Return => thread'.step = "none"
        BY DEF Return, NoThread
      <4>4. ASSUME NEW t \in Slots, NEW op \in {"unload_all", "destroy"}, TearDownFrom(t, op)
            PROVE  thread'.step = "service"
        BY <4>4 DEF TearDownFrom
      <4>. QED
        BY <4>1, <4>2, <4>3, <4>4
    <3>. QED
      BY <2>4, <3>1
  <2>7. CASE CreateInstance /\ RollBack
    <3>1. thread'.step = "service"
      BY <2>5, <2>7 DEF RollBack, Go, Thread
    <3>. QED
      BY <2>4, <3>1
  <2>8. CASE \/ \E op \in {"inspect", "load"}, d \in Dlls : BeginInspect(op, d)
             \/ \E s \in Slots : BeginInstantiate(s)
             \/ \E s \in Slots : BeginUnload(s)
             \/ \E op \in {"unload_all", "destroy"} : BeginUnloadAll(op)
    <3>1. thread'.step \notin {"initialize", "query"}
      BY <2>8 DEF BeginInspect, BeginInstantiate, BeginUnload, BeginUnloadAll,
                  TearDownFrom, AllTornDown, Return, NoThread
    <3>. QED
      BY <2>4, <3>1
  <2>9. CASE \/ \E c \in Capabilities : Require(c)
             \/ \E skip \in SkipDetach : SetSkipDetach(skip)
             \/ \E s \in Slots : AttachView(s) \/ AttachFails(s)
             \/ \E s \in Slots : MoveView(s)
             \/ \E s \in Slots : DeliverEvent(s)
             \/ \E s \in Slots : StartService(s)
             \/ DriveIdle
             \/ \E i \in DOMAIN objects : WorkerRuns(i)
             \/ \E i \in subscribed : PumpCallback(i)
             \/ UNCHANGED vars
    <3>1. UNCHANGED thread
      BY <2>9 DEF Require, SetSkipDetach, AttachView, AttachFails, MoveView,
                  DeliverEvent, StartService, DriveIdle, WorkerRuns, PumpCallback, vars
    <3>2. thread.step # "none"
      BY <1>4, <3>1
    <3>3. ~Idle
      BY <3>2 DEF Idle, IInv, ThreadShape
    <3>4. UNCHANGED slots
      BY <2>9, <3>3 DEF Require, SetSkipDetach, AttachView, AttachFails, MoveView,
                  DeliverEvent, StartService, DriveIdle, WorkerRuns, PumpCallback,
                  Ready, vars, sessionVars
    <3>. QED
      BY <2>3, <3>1, <3>4
  <2>. QED
    BY <2>1, <2>2, <2>6, <2>7, <2>8, <2>9 DEF Next, SessionStep
<1>. QED
  BY <1>3, <1>4

\* Whatever the session does, the bound slot stays the only one with that view.
LEMMA HostKeepsBound ==
  ASSUME IInv, IInv', Bound, [Next]_vars, UNCHANGED area
  PROVE  Bound'
<1>1. m_slot' = m_slot /\ embedded' = embedded
  BY DEF area
<1>2. SUFFICES ASSUME m_slot # 0
               PROVE  /\ embedded \in DOMAIN objects'
                      /\ \A t \in Slots : slots'[t].plugin = embedded /\ slots'[t].view =>
                           t = m_slot /\ slots'[t].view_attached
                      /\ thread'.step \in {"initialize", "query"} =>
                           Current'.plugin # embedded
  BY <1>1 DEF Bound
<1>3. embedded \in DOMAIN objects /\ embedded # 0
  BY <1>2 DEF Bound, IInv, TypeOK
<1>4. ASSUME NEW t \in Slots, slots'[t].plugin = embedded, slots'[t].view
      PROVE  t = m_slot /\ slots'[t].view_attached
  <2>1. KeepsItsView(t)
    BY ViewsOfSlots
  <2>2. /\ slots[t].plugin = embedded
        /\ slots[t].view \/ (thread.step = "query" /\ thread.slot = t)
        /\ slots[t].view_attached => slots'[t].view_attached
    BY <1>3, <1>4, <2>1 DEF KeepsItsView
  <2>3. slots[t].view
    BY <1>2, <2>2 DEF Bound, Current
  <2>. QED
    BY <1>2, <2>2, <2>3 DEF Bound
<1>5. ASSUME thread'.step \in {"initialize", "query"}
      PROVE  Current'.plugin # embedded
  BY <1>2, <1>3, <1>5, InstancesStay DEF Bound
<1>. QED
  BY <1>3, <1>4, <1>5, InstancesStay

LEMMA NextBound ==
  ASSUME Mannered, IInv, Bound, [AreaNext]_areaVars
  PROVE  IInv' /\ Bound'
<1>1. [Next]_vars
  BY AreaStepIsAHostStep DEF Bound
<1>2. IInv'
  BY <1>1, NextInv
<1>3. CASE HostStep \/ DriveView \/ UNCHANGED areaVars
  <2>1. UNCHANGED area
    BY <1>3 DEF HostStep, DriveView, areaVars, area
  <2>. QED
    BY <1>1, <1>2, <2>1, HostKeepsBound
<1>4. CASE DetachBinding \/ (\E s \in Slots : EmbedFails(s))
  <2>1. m_slot' = 0
    BY <1>4 DEF DetachBinding, EmbedFails, NotBound, Unbound
  <2>. QED
    BY <1>2, <2>1 DEF Bound
<1>5. ASSUME NEW s \in Slots, Embed(s)
      PROVE  Bound'
  <2>1. /\ AttachView(s) /\ m_slot' = s /\ embedded' = slots[s].plugin
    BY <1>5 DEF Embed
  <2>2. /\ slots' = [slots EXCEPT ![s] = Attached(slots[s])] /\ slots[s].view
        /\ UNCHANGED thread /\ thread.op = "none"
    BY <2>1 DEF AttachView, Ready, Idle
  <2>3. slots \in [Slots -> Slot] /\ slots' \in [Slots -> Slot] /\ thread'.step = "none"
    BY <1>2, <2>2 DEF IInv, TypeOK, ThreadShape
  <2>4. slots'[s] = Attached(slots[s]) /\ slots[s] \in Slot
    BY <2>2, <2>3
  <2>5. slots'[s].plugin = slots[s].plugin /\ slots'[s].view_attached
    BY <2>4 DEF Attached, Slot
  <2>6. slots[s].plugin # 0
    BY <2>2 DEF IInv, SlotShape
  <2>7. embedded' \in DOMAIN objects'
    BY <1>2, <2>1, <2>5, <2>6 DEF IInv, SlotShape
  <2>8. \A t \in Slots : slots'[t].plugin = embedded' => t = s
    BY <1>2, <2>1, <2>5, <2>6 DEF IInv, OneOwner
  <2>. QED
    BY <2>1, <2>3, <2>5, <2>7, <2>8 DEF Bound
<1>. QED
  BY <1>2, <1>3, <1>4, <1>5 DEF AreaNext

LEMMA AlwaysBound ==
  ASSUME Mannered
  PROVE  AreaSpec => [](IInv /\ Bound)
<1>1. AreaInit => IInv /\ Bound
  BY InitInv DEF AreaInit, Bound
<1>2. (IInv /\ Bound) /\ [AreaNext]_areaVars => (IInv /\ Bound)'
  BY NextBound
<1>. QED
  BY <1>1, <1>2, PTL DEF AreaSpec

\* Whatever an embedding area does with a session, a host of the session may do:
\* a session with an area is a session.
THEOREM AreaImplementsSession ==
  ASSUME Mannered
  PROVE  AreaSpec => Spec
<1>1. AreaInit => Init
  BY DEF AreaInit
<1>2. (IInv /\ Bound) /\ [AreaNext]_areaVars => [Next]_vars
  BY AreaStepIsAHostStep DEF Bound
<1>. QED
  BY <1>1, <1>2, AlwaysBound, PTL DEF AreaSpec, Spec

\* An area never drives a dangling view, although the host may unload the slot
\* it is bound to, and load another plugin there, without telling it.
THEOREM AreaDrivesLiveViews ==
  ASSUME Mannered
  PROVE  AreaSpec => []DrivesLiveView
<1>1. IInv /\ Bound => DrivesLiveView
  <2>. SUFFICES ASSUME IInv, Bound, AreaView # 0
                PROVE  /\ objects[AreaView].state # "terminated"
                       /\ objects[AreaView].refs["view"] > 0
                       /\ mapped[objects[AreaView].dll] > 0
    BY DEF DrivesLiveView
  <2>1. /\ m_slot \in Slots /\ slots[m_slot].view
        /\ AreaView = slots[m_slot].plugin /\ slots[m_slot].plugin # 0
    BY AreaViewIsViewed DEF Bound
  <2>2. objects[AreaView].state # "terminated"
    BY <2>1, MappedIfOwned DEF IInv, OwnedWhileActive
  <2>3. objects[AreaView].refs["view"] = 1
    BY <2>1 DEF IInv, RefsCounted, One
  <2>4. mapped[objects[AreaView].dll] # 0 /\ objects[AreaView] \in Object
    BY <2>1, MappedIfOwned, PluginsAreInstances
  <2>5. mapped[objects[AreaView].dll] \in Nat
    BY <2>4 DEF IInv, TypeOK, Object
  <2>. QED
    BY <2>2, <2>3, <2>4, <2>5
<1>. QED
  BY <1>1, AlwaysBound, PTL

\* An area drives the view it embedded as long as that view is not given back,
\* and the session has it on record as attached.
THEOREM AreaDrivesItsOwn ==
  ASSUME Mannered
  PROVE  AreaSpec => []DrivesWhatItEmbedded
<1>1. IInv /\ Bound => DrivesWhatItEmbedded
  <2>1. ASSUME IInv, Bound, m_slot # 0
        PROVE  embedded \in DOMAIN objects /\ embedded # 0
    BY <2>1 DEF Bound, IInv, TypeOK
  <2>. SUFFICES ASSUME IInv, Bound, m_slot # 0, objects[embedded].refs["view"] > 0
                PROVE  AreaView = embedded /\ slots[m_slot].view_attached
    BY <2>1 DEF DrivesWhatItEmbedded
  <2>2. PICK s \in Slots : slots[s].plugin = embedded
    BY <2>1 DEF IInv, RefsCounted, Interface
  <2>3. slots[s].view
    BY <2>1, <2>2 DEF IInv, RefsCounted, One
  <2>4. s = m_slot /\ slots[s].view_attached
    BY <2>2, <2>3 DEF Bound
  <2>5. slots[s].in_use
    BY <2>3, EmptyHoldsNothing DEF IInv, SlotShape
  <2>. QED
    BY <2>2, <2>3, <2>4, <2>5 DEF AreaView
<1>. QED
  BY <1>1, AlwaysBound, PTL

=============================================================================
