----------------------------- MODULE HostObjects -----------------------------
(***************************************************************************)
(* Who owns what between a host and a plugin module: the default host      *)
(* services object and its UI wrapper (src/pi_plugin_host.c), the event    *)
(* router behind its extra query hook, the objects of the example service  *)
(* plugin, and the C++ owners (pi_cpp.h) through which a host holds them.  *)
(*                                                                         *)
(* Objects are counted.  Giving a reference back is a step of its own; the *)
(* last one frees the object and leaves the thread owing the reference the *)
(* object held, so releases of several threads interleave.                 *)
(***************************************************************************)
EXTENDS Integers, FiniteSets

CONSTANTS
  Threads,
  Vars,               \* the PiPluginPtr variables
  ThreadOf,           \* the thread each belongs to
  HostThread,         \* the thread with the module and the router
  Objects,            \* the objects that may be alive at a time
  Factory, Null,
  MaxPinned           \* bound on modules never unloaded

ASSUME ObjectsConstants ==
  /\ IsFiniteSet(Vars) /\ IsFiniteSet(Threads)
  /\ ThreadOf \in [Vars -> Threads] /\ HostThread \in Threads
  /\ IsFiniteSet(Objects) /\ Factory \notin Objects
  /\ Null \notin Objects \cup {Factory}
  /\ MaxPinned \in Nat

VARIABLES
  heap,               \* the objects, the module's static factory among them
  owner,              \* what each variable points to
  raw,                \* a reference the host detached from a variable
  owed,               \* the reference a thread is giving back
  module, pinned,     \* the host's module variable, and modules left loaded
  leaked              \* factory references of loads that failed at the end

vars == <<heap, owner, raw, owed, module, pinned, leaked>>
loading == <<module, pinned, leaked>>

All == Objects \cup {Factory}
Kinds == {"services", "ui", "router", "plugin", "service", "factory"}

\* `holds` is the counted pointer an object has to another one, `extra_qi_ctx`
\* the one that is not counted; `on` is a services' UI window, or a service that
\* runs.
Object ==
  [kind : Kinds \cup {"free"}, refs : Int, holds : Objects \cup {Null},
   extra_qi_ctx : Objects \cup {Null}, on : BOOLEAN]

Free == [kind |-> "free", refs |-> 0, holds |-> Null, extra_qi_ctx |-> Null,
         on |-> FALSE]
NewObject(kind) == [Free EXCEPT !.kind = kind, !.refs = 1]
Wrapper(kind, o) == [NewObject(kind) EXCEPT !.holds = o]

IsA(o, kind) == o # Null /\ heap[o].kind = kind
Owns(v, kind) == IsA(owner[v], kind)
Mapped == module \/ pinned > 0
Idle(t) == owed[t] = Null
FreshObject(o) == heap[o].kind = "free"

TypeOK ==
  /\ heap \in [All -> Object]
  /\ owner \in [Vars -> All \cup {Null}]
  /\ raw \in All \cup {Null}
  /\ owed \in [Threads -> All \cup {Null}]
  /\ module \in BOOLEAN
  /\ pinned \in 0 .. MaxPinned
  /\ leaked \in Nat

Init ==
  /\ heap = [o \in All |-> Free]
  /\ owner = [v \in Vars |-> Null]
  /\ raw = Null
  /\ owed = [t \in Threads |-> Null]
  /\ module = FALSE
  /\ pinned = 0
  /\ leaked = 0

-----------------------------------------------------------------------------
(* The C++ owners                                                          *)

AddRef(h, o) == [h EXCEPT ![o].refs = @ + 1]

\* A variable gets another object, or none, and its thread owes the reference
\* to what it had.  A variable of another thread is handed over empty.
Receives(v, o) ==
  /\ owner' = [owner EXCEPT ![v] = o]
  /\ owed' = [owed EXCEPT ![ThreadOf[v]] = owner[v]]

\* The host that created a router gives it up after everything it built on it.
NobodyOwns(kinds) ==
  /\ \A t \in Threads : Idle(t)
  /\ \A o \in ({owner[v] : v \in Vars} \cup {raw}) \ {Null} : heap[o].kind \notin kinds
RouterUnused == NobodyOwns({"services", "ui", "plugin", "service"})

MayFill(t, u) == Idle(ThreadOf[u]) /\ (ThreadOf[u] # t => owner[u] = Null)

Reset(v) ==
  /\ Idle(ThreadOf[v])
  /\ owner[v] # Null
  /\ Owns(v, "router") /\ ThreadOf[v] = HostThread => RouterUnused
  /\ Receives(v, Null)
  /\ UNCHANGED <<heap, raw, loading>>

MoveAssign(u, v) ==
  /\ Idle(ThreadOf[v]) /\ MayFill(ThreadOf[v], u)
  /\ u # v
  /\ owner[v] # Null
  /\ ~(ThreadOf[u] = HostThread /\ Owns(u, "router"))
  /\ Owns(v, "router") => ThreadOf[u] = ThreadOf[v]
  /\ owner' = [owner EXCEPT ![u] = owner[v], ![v] = Null]
  /\ owed' = [owed EXCEPT ![ThreadOf[u]] = owner[u]]
  /\ UNCHANGED <<heap, raw, loading>>

Fill(v, u) ==
  /\ Idle(ThreadOf[v]) /\ MayFill(ThreadOf[v], u)
  /\ ~(ThreadOf[u] = HostThread /\ Owns(u, "router"))

\* PiPluginPtr::add_ref(), into u; and qi_to() for an interface the object is.
AddRefTo(u, v) ==
  /\ Fill(v, u)
  /\ owner[v] # Null
  /\ heap' = AddRef(heap, owner[v])
  /\ Receives(u, owner[v])
  /\ UNCHANGED <<raw, loading>>

Detach(v) ==
  /\ ThreadOf[v] = HostThread /\ Idle(HostThread)
  /\ owner[v] # Null /\ raw = Null
  /\ ~Owns(v, "router")
  /\ raw' = owner[v]
  /\ owner' = [owner EXCEPT ![v] = Null]
  /\ UNCHANGED <<heap, owed, loading>>

Adopt(v) ==
  /\ ThreadOf[v] = HostThread /\ Idle(HostThread)
  /\ owner[v] = Null /\ raw # Null
  /\ owner' = [owner EXCEPT ![v] = raw]
  /\ raw' = Null
  /\ UNCHANGED <<heap, owed, loading>>

\* The owed reference is given back.  The last one destroys the object, which
\* then gives back what it held.
ForgetsHeld(o) == Null
HeldBy(o) == heap[o].holds

GiveBack(t) ==
  LET o == owed[t]
  IN  /\ ~Idle(t)
      /\ IF heap[o].refs = 1 /\ o # Factory
           THEN /\ heap' = [heap EXCEPT ![o] = Free]
                /\ owed' = [owed EXCEPT ![t] = HeldBy(o)]
           ELSE /\ heap' = [heap EXCEPT ![o].refs = @ - 1]
                /\ owed' = [owed EXCEPT ![t] = Null]
      /\ UNCHANGED <<owner, raw, loading>>

-----------------------------------------------------------------------------
(* The host's objects                                                      *)

CreateRouter(v) ==
  /\ ThreadOf[v] = HostThread
  /\ Idle(HostThread) /\ owner[v] = Null
  /\ \A o \in Objects : ~IsA(o, "router")
  /\ \E o \in Objects :
       /\ FreshObject(o)
       /\ heap' = [heap EXCEPT ![o] = NewObject("router")]
       /\ Receives(v, o)
  /\ UNCHANGED <<raw, loading>>

\* With or without a window, with or without a router behind extra_qi.
CreateServices(v) ==
  /\ ThreadOf[v] = HostThread
  /\ Fill(v, v)
  /\ \E o \in Objects, ui \in BOOLEAN,
        ctx \in {Null} \cup {owner[u] : u \in {u \in Vars :
                               ThreadOf[u] = HostThread /\ Owns(u, "router")}} :
       /\ FreshObject(o)
       /\ heap' = [heap EXCEPT ![o] = [NewObject("services") EXCEPT
                                         !.on = ui, !.extra_qi_ctx = ctx]]
       /\ Receives(v, o)
  /\ UNCHANGED <<raw, loading>>

SetUiWindow(v) ==
  /\ Idle(ThreadOf[v])
  /\ Owns(v, "services")
  /\ heap' = [heap EXCEPT ![owner[v]].on = ~@]
  /\ UNCHANGED <<owner, raw, owed, loading>>

\* A wrapper is a new object that holds the one it stands for.
BorrowsOwner(h, o) == h
PinsOwner(h, o) == AddRef(h, o)

QueryWrapper(u, v, kind) ==
  /\ Fill(v, u)
  /\ \E o \in Objects :
       /\ FreshObject(o)
       /\ heap' = [PinsOwner(heap, owner[v]) EXCEPT ![o] = Wrapper(kind, owner[v])]
       /\ Receives(u, o)
  /\ UNCHANGED <<raw, loading>>

\* The UI interface is there only while a window is set.
QueryUI(u, v) ==
  /\ Owns(v, "services") /\ heap[owner[v]].on
  /\ QueryWrapper(u, v, "ui")

\* Any other interface is asked from the router, which hands itself out.
QueryEvents(u, v) ==
  /\ Owns(v, "services")
  /\ heap[owner[v]].extra_qi_ctx # Null
  /\ Fill(v, u)
  /\ heap' = AddRef(heap, heap[owner[v]].extra_qi_ctx)
  /\ Receives(u, heap[owner[v]].extra_qi_ctx)
  /\ UNCHANGED <<raw, loading>>

\* Services without a window, and a wrapper asked for more than the interface it
\* stands for, refuse; the receiving variable is then empty.
QueryFails(u, v) ==
  /\ Fill(v, u)
  /\ owner[u] # Null /\ u # v
  /\ (Owns(v, "services") /\ ~heap[owner[v]].on) \/ Owns(v, "ui")
  /\ Receives(u, Null)
  /\ UNCHANGED <<heap, raw, loading>>

-----------------------------------------------------------------------------
(* The plugin's objects                                                    *)

QueryService(u, v) ==
  /\ Owns(v, "plugin")
  /\ QueryWrapper(u, v, "service")

\* The plugin keeps the first host it is given, from create_instance() or from
\* initialize().
KeepHost(h, p, s) ==
  IF h[p].holds = Null /\ s # Null
    THEN [AddRef(h, s) EXCEPT ![p].holds = s]
    ELSE h

Services == {Null} \cup {o \in Objects : \E v \in Vars :
                           ThreadOf[v] = HostThread /\ owner[v] = o /\ IsA(o, "services")}

CreateInstance(u, v) ==
  /\ ThreadOf[v] = HostThread
  /\ Owns(v, "factory")
  /\ Fill(v, u)
  /\ \E o \in Objects, s \in Services :
       /\ FreshObject(o)
       /\ heap' = KeepHost([heap EXCEPT ![o] = NewObject("plugin")], o, s)
       /\ Receives(u, o)
  /\ UNCHANGED <<raw, loading>>

Initialize(v) ==
  /\ ThreadOf[v] = HostThread /\ Idle(HostThread)
  /\ Owns(v, "plugin")
  /\ \E s \in Services \ {Null} : heap' = KeepHost(heap, owner[v], s)
  /\ UNCHANGED <<owner, raw, owed, loading>>

\* Start and stop reach the plugin through the wrapper; terminate() stops too.
SetRunning(p, runs) ==
  /\ heap' = [heap EXCEPT ![p].on = runs]
  /\ UNCHANGED <<owner, raw, owed, loading>>

ServiceStart(v) ==
  /\ Idle(ThreadOf[v])
  /\ Owns(v, "service") /\ SetRunning(heap[owner[v]].holds, TRUE)
ServiceStop(v) ==
  /\ Idle(ThreadOf[v])
  /\ Owns(v, "service") /\ SetRunning(heap[owner[v]].holds, FALSE)
Terminate(v) ==
  /\ Idle(ThreadOf[v])
  /\ Owns(v, "plugin") /\ SetRunning(owner[v], FALSE)

-----------------------------------------------------------------------------
(* The module                                                              *)

\* Loading gives the module a reference to the factory, which its entry point
\* initialized when the module was mapped.
FactoryTaken(h) ==
  IF Mapped THEN AddRef(h, Factory)
            ELSE [h EXCEPT ![Factory] = [NewObject("factory") EXCEPT !.refs = 2]]

\* A module is unloaded when nothing of it is left, in whichever thread.
NothingOfModule == NobodyOwns({"plugin", "service", "factory"})

Load ==
  /\ Idle(HostThread) /\ ~module
  /\ heap' = FactoryTaken(heap)
  /\ module' = TRUE
  /\ UNCHANGED <<owner, raw, owed, pinned, leaked>>

\* Out of memory after the entry point ran: the library goes, its reference to
\* the factory does not come back.
LoadFails ==
  /\ Idle(HostThread) /\ ~module
  /\ pinned > 0 /\ leaked = 0
  /\ heap' = FactoryTaken(heap)
  /\ leaked' = leaked + 1
  /\ UNCHANGED <<owner, raw, owed, module, pinned>>

\* Unloading gives the factory back and unmaps the module with its statics,
\* unless another load keeps it.
FactoryGone(h) ==
  IF pinned > 0 THEN [h EXCEPT ![Factory].refs = @ - 1]
                ELSE [h EXCEPT ![Factory] = Free]

Unload ==
  /\ module
  /\ NothingOfModule
  /\ heap' = FactoryGone(heap)
  /\ module' = FALSE
  /\ UNCHANGED <<owner, raw, owed, pinned, leaked>>

GetFactory(u) ==
  /\ ThreadOf[u] = HostThread
  /\ module
  /\ Fill(u, u)
  /\ heap' = AddRef(heap, Factory)
  /\ Receives(u, Factory)
  /\ UNCHANGED <<raw, loading>>

\* The convenience loader makes an instance of a module loaded anew; a caller
\* that does not take the module leaves it loaded for good.
CreatePlugin(u) ==
  /\ ThreadOf[u] = HostThread
  /\ Fill(u, u)
  /\ ~module
  /\ \E o \in Objects, s \in Services :
       /\ FreshObject(o)
       /\ heap' = KeepHost([FactoryTaken(heap) EXCEPT ![o] = NewObject("plugin")], o, s)
       /\ Receives(u, o)
  /\ \/ module' = TRUE /\ pinned' = pinned
     \/ module' = module /\ pinned < MaxPinned /\ pinned' = pinned + 1
  /\ UNCHANGED <<raw, leaked>>

\* When initialize() fails the instance is released, terminate() not called,
\* and the module unloaded; u was emptied at the start.
CreatePluginFails(u) ==
  /\ ThreadOf[u] = HostThread
  /\ Fill(u, u)
  /\ ~module
  /\ \E o \in Objects, s \in Services :
       /\ FreshObject(o)
       /\ LET made == KeepHost([heap EXCEPT ![o] = NewObject("plugin")], o, s)
              held == made[o].holds
          IN  /\ heap' = [(IF held = Null THEN made ELSE [made EXCEPT ![held].refs = @ - 1])
                            EXCEPT ![o] = Free]
  /\ Receives(u, Null)
  /\ UNCHANGED <<raw, loading>>

-----------------------------------------------------------------------------
Next ==
  \/ Load \/ LoadFails \/ Unload
  \/ \E t \in Threads : GiveBack(t)
  \/ \E v \in Vars :
       \/ Reset(v) \/ Detach(v) \/ Adopt(v)
       \/ CreateRouter(v) \/ CreateServices(v) \/ SetUiWindow(v)
       \/ Initialize(v) \/ ServiceStart(v) \/ ServiceStop(v) \/ Terminate(v)
       \/ GetFactory(v) \/ CreatePlugin(v) \/ CreatePluginFails(v)
  \/ \E u, v \in Vars :
       \/ MoveAssign(u, v) \/ AddRefTo(u, v)
       \/ QueryUI(u, v) \/ QueryEvents(u, v) \/ QueryFails(u, v)
       \/ CreateInstance(u, v) \/ QueryService(u, v)

Spec == Init /\ [][Next]_vars

-----------------------------------------------------------------------------
(* Properties                                                              *)

Pointers(o) ==
  Cardinality({v \in Vars : owner[v] = o}) + (IF raw = o THEN 1 ELSE 0)
  + Cardinality({t \in Threads : owed[t] = o})
  + Cardinality({p \in Objects : heap[p].holds = o})

\* Every object is counted exactly as often as it is pointed to, so that it is
\* freed with its last pointer, not before and not never, whichever owners moved,
\* copied, queried or gave up references in whichever thread.
CountsExact ==
  /\ TypeOK
  /\ \A o \in Objects :
       /\ heap[o].refs = Pointers(o)
       /\ heap[o].kind = "free" <=> Pointers(o) = 0
  /\ Mapped => heap[Factory].refs =
       1 + (IF module THEN 1 ELSE 0) + pinned + leaked + Pointers(Factory)

\* Once the module is unmapped no object is left whose code was in it, in any
\* thread and behind any wrapper.
CodeOutlivesObjects ==
  ~Mapped => \A o \in All : heap[o].kind \notin {"plugin", "service", "factory"}

\* The services lend out a router they do not count; whoever can reach the
\* services finds it alive.
RouterOutlivesServices ==
  \A o \in Objects :
    heap[o].kind = "services" /\ heap[o].extra_qi_ctx # Null
      => heap[heap[o].extra_qi_ctx].kind = "router"

=============================================================================
