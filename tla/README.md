# A TLA+ model of piplugin

piplugin is a plugin framework in C: a host loads plugin modules, negotiates
capabilities with them through COM-style reference-counted interfaces, embeds
their views, and exchanges events with them. This directory holds a model of its
core logic in TLA+, the TLC configurations that check it on small instances, and
proofs that TLAPS checks for all values of the constants.

## 1. The system

| Part | Where | State | Operations |
|---|---|---|---|
| Event router | `host_kits/events` | bounded ring of events, subscription table, counters, one lock | `publish` (any thread), `subscribe`, `unsubscribe`, `drop_owner`, `set_capacity`, `pump` (main thread) |
| Host session kit | `host_kits/core` | 16 slots (module, factory, plugin, view, service, sink), the capabilities the host requires | `inspect`, `instantiate`, `load`, `attach_view`, `drive_idle`, `deliver_event`, `unload`, `unload_all`, `destroy`, `require` |
| Module loader | `src/pi_plugin_host.c` | one handle and one factory reference per loaded module | `module_load`, `get_factory`, `module_unload`, `host_create_plugin` |
| Default host services | `src/pi_plugin_host.c` | reference count, UI window, borrowed `extra_qi` context; UI wrappers that hold the services | `query_interface`, `add_ref`, `release`, `set_ui_window` |
| Descriptor helpers | `src/pi_plugin_unknown.c` | none | version test, capability and property search |
| Qt adapter | `adapters/qt` | registry of views under a mutex, one shared application, posted calls | `attach`, `detach`, `on_idle`, `post`, `shutdown`, `shutdown_owner` |
| ImGui adapter and its backends | `adapters/imgui` | a window, device, swap chain and ImGui context per view; the one current context | `attach`, `detach`, `on_idle`, `resize`, window messages, `destroy` |
| DX11 host kit | `host_kits/dx11` | device, swap chain, target, recorded size | `create`, `prepare_size`, `reset_resize_stats`, `destroy` |
| Qt embed area | `host_kits/qt` | a session and a slot index | `attach`, `detach`, idle, resize |
| Minimal Win32 kit | `examples/minimal_kit_win32` | views, windows, a registry of sixteen, a window class | `attach`, `detach`, `resize`, `shutdown` |
| Example service plugin | `examples/service_plugin` | factory, instance, service wrapper, borrowed host | `create_plugin`, `initialize`, `start`, `stop`, `terminate` |
| C++ owners | `include/piplugin/pi_cpp.h` | one owned pointer | adopt, copy, move, put, detach, reset |

How they interact. A host creates a services object and may hang a router on it
through `extra_qi`; a session keeps a reference to both. `load` maps a module,
takes its factory, passes two gates (what the plugin requires of the host, what
the host requires of the plugin), creates and initializes an instance and asks it
for a view, a service and an event sink. Plugin code then runs on the main thread
(initialize, idle, events, detach, terminate) and on the workers of a started
service. Subscriptions carry an owner, the plugin instance, and the session drops
the owner when it unloads the slot. The host's loop pumps the router, which calls
the callbacks with the lock released. An adapter kit (Qt, ImGui, or the minimal
Win32 one) lives in the plugin's module and turns `attach` into a child window of
the host's container; the window, its class and the toolkit's context belong to
the process, not to the module.

What is hard: callbacks that publish, cancel, resize or pump while a pump runs;
threads that publish meanwhile; a queue that is full, wraps and is resized;
rollback of a load that fails at any of its calls; the order of a teardown after
which any call is a jump into unmapped code; subscriptions, workers, windows and
window classes that outlive what they point to; a process-wide context or
application that several plugins share; graphics calls that fail in the middle.
Every such hazard is listed with its line and the properties aimed at it under
"hazards" in `PROJECT.json`.

## 2. The modules

| Module | What it is |
|---|---|
| `EventQueue` | what a router promises: a bounded FIFO queue that counts what it loses |
| `EventRouter` | the router, one atomic step for each stretch of code under its lock |
| `EventRouterProofs` | its inductive invariants: the ring and the accounting, that it implements `EventQueue`, handles, no call after leaving, delivery exactly once, in order and not of what the pump's callbacks published |
| `SlotTable` | what a session promises: an operation on a slot happens at once or not at all |
| `Descriptors` | the searches of a plugin's descriptor |
| `HostSession` | the session and the module loader, one step per call into a plugin |
| `HostSessionProofs` | its inductive invariant: mapped code only, balanced references, quiet plugins; views known and detached, gates first; that it implements `SlotTable` |
| `EmbedArea` | the session composed with a Qt embedding area bound to one of its slots |
| `EmbedAreaProofs` | the proofs that the composition implements the session, never drives a view that is gone, and drives the one it embedded |
| `QtView` | the Qt adapter: views, their shared application, posted calls, shutdowns |
| `QtViewProofs` | what an operation may still rely on after others ran in its drain, and seven theorems |
| `HostObjects` | the services object and its wrappers, the example service plugin's objects, the loader, and the C++ owners that hold them on two threads |
| `HostObjectsProofs` | what each operation on the heap does to counts and pointers, and three theorems |
| `ImGuiBackends` | the renderer and platform backends, as operators on their data |
| `ImGuiView` | the ImGui adapter over them: views, contexts, frames, messages |
| `ImGuiViewProofs` | what the backends' operators do to the objects they count, and four theorems |
| `HostDx11` | the DX11 host kit |
| `HostDx11Proofs` | its inductive invariant and three theorems |
| `Win32View` | the minimal Win32 kit: views, windows, the registry, the class, loads of the module |
| `Win32ViewProofs` | that views, windows, registry and class agree, and three theorems |
| `MC...` | the instances for TLC, one for each of the components above |

### EventRouter

The router has one lock and never holds it across a callback, so an atomic step
is what one thread does between an acquire and the next release. The variables
`ring`, `capacity`, `head`, `queued` and the counters are the fields of
`PiPluginEventRouter`. The subscription table only ever grows at its end and
closes up when an entry leaves, so it is the set `subs` of indices into `made`,
the sequence of all subscriptions ever made; "the first match of a loop" is the
least index. An event is its number and its topic; the payload is left out.

A pump is a frame on the main thread's stack with a phase: `take` (between
events), `call` (looking up the next match) and `in` (inside a callback). While
the innermost frame is `in`, or there is none, the main thread may run any host or
plugin code: publish, subscribe, cancel, drop an owner, resize, or start a
nested pump. `inside`, `received`, `dead` and `handed` are history variables.

An allocation that fails is a nondeterministic choice where the code has one:
copying the event (the event is counted as dropped), the match list (likewise),
and a new subscription or ring (the call changes nothing, so it is no step).

### HostSession and EmbedArea

The session takes no lock: all its functions belong to the GUI thread. `thread`
records the operation in progress, its slot and the next step; each call into a
plugin is one step whose outcomes are nondeterministic (a plugin may fail to
initialize, have no view, ...). Between the steps the workers of a started service
run, which is where a wrong order would show. `objects` are the instances with a
reference count for each of the four interfaces; `mapped` counts handles on each
file (two slots may load the same file), `factory_refs` the references to each
factory; `stray` becomes true when code of a module without a handle runs.
`subscribed` stands for the router: the instances that own a subscription.
`SubscribesIn` names the calls during which a plugin may subscribe. `lost` counts
the factory references `module_load` drops when there is no memory for the module
whose entry point has handed the factory over. A descriptor
is a version and a list of capabilities with flags, possibly with an entry listed
twice: the gate for the plugin's needs looks at every entry, the search for what
it provides stops at the first (`Descriptors`). `agreed` is history: what the host
demanded when the module was let in.

`unload_all` and `destroy` go on to the next slot in the step that ends the one
before. The teardown's steps 6 and 7 run no plugin code between them and are one
step.

`EmbedArea` adds the area's `m_slot`. The area keeps a slot's number and not a
view, and asks the session each time; the session tells it nothing, so the host
may unload the slot it is bound to and load another plugin there. `embedded` is
history: the instance whose view it embedded. Only one thing is left out: the host
does not pump an area whose session it has destroyed.

### QtView

All of Qt runs on the GUI thread. `frames` is its stack, innermost last: draining
Qt's events in the middle of a `detach` runs posted calls, and a posted call may
make the host detach another view, which drains again. A frame's step says where
the operation is, and `calls` what the event handler of its drain has taken from
the queue and not finished. `g_live_views`, `g_app`, `g_app_shutdown`, `m_queue`,
`m_accept_post` (field `accept`) are the variables of the source; `events` counts
wake-ups Qt has not delivered. The registry's mutex is held exactly by a frame at
step `sweep`.

A worker's post is two steps, the append to the queue and the wake-up. A view is
named by its address (`Addresses`), and `weak` is each plugin's pointer to its
newest view, which the plugin of `tests/test_plugin` keeps until its `terminate`
(external code: any plugin may do this, the adapter only compares the pointer).
Constants say what the host and plugin do: whether the host detaches before it
terminates (`DetachesFirst`), uses `shutdown` (`UsesShutdown`), whether a widget
factory may fail, a posted call may detach, an address may come back. `since` is
history: for each call that waits, whether its view was detached, attached or
destroyed in the meantime.

Posts from the GUI thread run inline and change nothing here. The registry and
application are those of one shared mapping of the kit's library: `g_app_shutdown`
is never reset.

### HostObjects

Objects are records in `heap` with a reference count, one counted pointer
(`holds`) and one that is not (`extra_qi_ctx`). A variable of the host is a
`PiPluginPtr` on a thread; `raw` is a pointer taken out with `detach()`. Giving a
reference back is a step: the last one frees the object and leaves the thread
owing (`owed`) the reference the object held, so that releases of two threads
interleave. The count itself is atomic in pibase, which is not in the repository
(external), as is the operating system's loader. Allocation fails where the
source tests for it. The host's discipline is stated in the guards: it releases
the objects of a module before the module, and the router last, as
`pi_plugin_host.c:187` and `pi_cpp.h:226` ask, and `pi_event_router.h:37` for the
router.

### ImGuiView and ImGuiBackends

The GUI thread runs everything; the variable that matters is `current`, Dear
ImGui's one current context, shared by all views and a host that uses ImGui too.
A draw callback may run the host's message loop, so `frames` is a stack of
callbacks, each with the context it replaced. The loop may idle, detach or release
any view, the drawing one too: nothing in the code looks whether a view is being
drawn. The frame then goes on without its view, and what it made current, or what it
will put back, is `Gone`. `d3d` says, for each view, which
pointers are set (`held`), what Direct3D has given out (`live`) and the sizes the
renderer noted for its two buffers; `platform` is the mouse state of each
context's Win32 backend, `down` the buttons really held, and `capturer` (history)
the context that took the mouse, as long as it has heard every button since. Direct3D fails at any checked call, `MaxFailures` times
once a view is attached and freely within an attach. `Slack` stands for the 5000
and 10000 by which a buffer is made larger than asked. Dear ImGui's core and
Direct3D are external.

### HostDx11

`stage` is how far `create` has come through its fallbacks (hardware or WARP, flip
model 1:1 or stretched, with or without a latency object, or the old bitblt
model). The other variables are the fields of the device; `com` counts what the
system has given out, `system` is the chain as DXGI knows it. `asked`, `failed` and
`go_on` are history of the last `prepare_size`: the size it was given, whether both
its resizes failed, and what it returned. DXGI's two rules are
in `Misused`: `ResizeBuffers` fails while a view of the buffers is held, and with
other flags than the chain was made with.

### Win32View

Windows and the window class belong to the system and remember the load of the
module whose code is their WndProc. A handle is not given out again while a view
still has it. The host may close its container before it detaches, forget to
detach, and load the module again. It attaches views of live plugins only, the
lifecycle of `docs/design/adapter-spec.md`. Geometry and painting keep no state.

## 3. What the runs check

| Run | Bounds | States | Shows |
|---|---|---|---|
| `router_core` | capacity 2, 3 events, 3 subscriptions, 3 handles, 1 topic, 1 owner | 282,000 | type correctness, the reentrancy rule, once and in order, handles through a wrap of their counter, a queued event reaches each subscriber that stays |
| `router_resize` | capacities 0, 1, 3 (0 is the default, 2), 3 events, 2 subscriptions, 2 topics, two nested pumps, failing allocations, resize inside callbacks | 2,400,000 | the ring stays an ordered window, every event is accounted for, each subscription that existed when a pump started gets each event it takes exactly once, nobody is called who has left, `EventQueue` is implemented |
| `session_core` | 2 slots, 2 modules, 2 instances, an embedding area, 1 lost factory reference | 2,100,000 | mapped code only, balanced references, order of the teardown, what the session remembers of a view is true, the area drives no view that is gone, and the view it embedded while that one is out |
| `session_gates` | 2 slots, 5 modules, 2 capabilities, 1 instance | 190,000 | nothing is created past a gate; `SlotTable` is implemented; every operation ends and `destroy` unmaps everything |
| `qt_core` | 2 addresses, 2 plugins, 2 posts, 3 nested operations, factories that fail | 182,000 | a well-behaved host: calls run once, never for a terminated plugin, and are served; the application goes with the last view |
| `qt_forgetful` | the same, addresses reused, hosts that terminate with views attached | 3,600,000 | the application outlives every widget; each retain is given back once; a call whose view is detached while it waits is dropped unless attach is called again |
| `qt_sweep` | 1 address, 1 plugin, 1 post | | violation: a shutdown with an attached view and a waiting call blocks the GUI thread for ever |
| `services` | 2 threads, 3 owners, 3 objects and the factory, 1 module left loaded | 496,000 | counts are exact; nothing outlives the module whose code it is; no wrapper hands out a freed router |
| `imgui` | 2 views, 1 mouse button, frames of 1 or 3 vertices, 2 nested draws, 1 failing call | 682,000 | the current context comes back unless its view went under its own frame; Direct3D's objects are given back; no frame is drawn past its buffers; a window gives the mouse back with the button, if the context that took it heard every press and release since |
| `imgui_input` | 1 view | | violation: messages feed whatever context is current |
| `dx11` | widths and heights 1 to 3, 2 failed resizes | 73,000 | nothing is leaked, the buffers cover every size whose own resize did not fail twice, no failure is of the kit's own making |
| `win32` | 2 instances, 3 views, a registry of 2, 3 windows, 2 loads | 4,800 | shutdown leaves no window or class behind unless the registry overflowed; only live plugins paint; the registry lists each attached view |

Why the bounds are enough. A ring of two slots wraps, fills and empties with three
events, and a third subscription lets one leave on either side of the one being
called. Three events, the middle one published after the first was taken, make
a wrapped window of two slots, which a resize to 1 keeps in part and a resize to
3 keeps whole. Two nested pumps are the smallest case in which one pump consumes
what another counted. Two slots show that a free slot below one in use is taken
first and that two slots share a file; the steps of a teardown touch one slot at a
time. The five modules of `session_gates` pass, lack a descriptor, need what the
host lacks, list a capability twice, and are too new. The counters are bounded by
`MaxPublished`, `MaxSubscribes`, `MaxDepth`, `MaxObjects`, `MaxLost`, `MaxPosts`,
`MaxPinned`, `MaxWindows`, `MaxLoads` and `MaxFailures`; nothing in the code depends
on them.

`router_core` gives three subscriptions three handles, of which one is the invalid
one: the counter wraps, and the third subscription may get the handle of the first
while that one is there. In the code this takes 2^32 subscriptions. Whoever cancels
one of the two then takes the other out of the table, so the liveness property
excepts a subscription whose handle was given out twice; and after as many
subscriptions within the delivery of one event, the pump's second look-up takes the
new one for the old, so `router_resize`, which checks that, has handles enough. That
a handle comes back as late as possible is also proved, for every number of handles
(`HandlesNeverClash`).

Two views of two plugins are the smallest case in which the last view of the
process belongs to another plugin than the one being unloaded, and in which a
posted call can detach a view other than its own; three nested operations let an
`on_idle` or `release` run a call that detaches a view whose drain runs a call.
Two posts give a batch whose first call can invalidate the second. Three owners on
two threads hold a services object, its wrapper and a third object at once, on
either thread. With two ImGui views and two nested draws a view's frame is nested in
another's or in its own, and either may go under it. One button can be pressed under
one context and let go under another or none; with two buttons the frames would have
to go (the theorem is about any number). Frames of one and three vertices with a
slack of one make a buffer that suffices, one that must grow and one left too small
by a failed allocation. A registry of two and three views overflow it, and two loads
leave a class behind for the second.
Lengths 1 to 3 let a window shrink one way and grow the other, and then grow back.

`router_core` has no symmetry because it checks liveness; the others permute only
values the code compares for equality (topics, views, plugins, objects,
the host's own variables).

Fairness. `EventRouter!FairSpec`: the host's loop calls `pump` again and again (the
header leaves the timing to the host, and every host of the repository pumps once
per frame), and a pump that started goes on, which includes that callbacks return.
Nothing is assumed of publishers. `HostSession!FairSpec`: calls into plugins and the
system loader return. Deadlock is not checked for the session: a destroyed session
does nothing more. `QtView!FairSpec`: an operation of the GUI thread goes on, a
worker inside `post` is not stopped there, and the host calls `on_idle` again and
again as long as there is an application (strong fairness: the host's loop comes
back to it although other operations come in between; `adapters/qt/README.md` asks
for one call per frame). Deadlock is not checked for Qt either: after every plugin
is terminated there is nothing to do, and the wait of the GUI thread for its own
mutex is the invariant `GuiNeverBlocks` (`qt_sweep`). Nor is it for `win32`, where
the last load of the module ends. The other components have no liveness of their
own: every operation is a call that returns.

### Findings

Two are violation runs; `PROJECT.json` quotes the lines that say otherwise.

- `qt_sweep`: `shutdown_owner` holds a non-recursive mutex across a `detach` that
  drains Qt's events, and a posted call locks it again on the same thread.
- `imgui_input`: the window procedure feeds the context that is current, and
  outside a frame that is the host's or none, never the view's.

The other claims of the repository that the code does not keep are stated beside the
properties in the modules. The properties that pass say what does hold there. TLC
finds each of these violated in a few seconds when it is added to the named
configuration (with the constants given in brackets), where no run checks it:

| Claim | Definition | Configuration | What the code does |
|---|---|---|---|
| `pi_event_router.h:81`: a pump delivers to the subscriptions that existed when it started | `PumpStartSubscribers` | `EventRouter_core` | subscriptions are looked up event by event, so a callback's are served too (`pi_event_router.c:530`) |
| `pi_event_router.h:85`: what a callback publishes waits for the next pump | `ReentrancyRule` | `EventRouter_core` (`Capacities = {1}`, `ResizeInCallback = TRUE`) | a callback that lowers the capacity makes room in the batch counted before it, and what it then publishes is reached (`:487`) |
| `pi_host_session.h:74`: a failed load leaves nothing behind | `FactoriesGivenBack` | `EmbedArea_core` | without memory for the module, `module_load` closes the library and keeps the factory reference (`pi_plugin_host.c:154`) |
| `pi_plugin_events.h:171`: a subscription is dropped before its module is unmapped | `RunsMappedCode` | `EmbedArea_core` (`SubscribesIn <- AnyCall`) | subscriptions are dropped before `detach` and `terminate`; what a plugin subscribes there stays (`pi_host_session.c:125`) |
| `pi_host_embed_area.h:18`: the area forgets an unloaded view by itself | `ForgetsUnloaded` | `EmbedArea_core` | it drives whatever is in its slot by then (`pi_host_embed_area.cpp:73`) |
| `pi_qt_view.h:161`: a call is dropped when its view is detached | `DroppedByDetach` | `QtView_core` | a call whose wake-up was not yet posted finds the gate open again after the next attach (`pi_qt_view.cpp:641`) |
| `pi_qt_view.h:161`: ... or destroyed | `DroppedByDestruction` | `QtView_forgetful` | a call names its view by address, which may be another view's by then (`:284`) |
| `pi_qt_view.h:162`: no call back after the widget is gone | `NotWithoutWidget` | `QtView_core` | a factory that returns NULL leaves the gate open (`:598`) |
| `imgui_impl_win32.cpp:704`: the mouse is followed while it drags | `CapturedWhileDragging` | `ImGuiView_core` | a press is heard by one context and the release by another or none (`pi_imgui_view.cpp:106`) |
| `pi_imgui_view.cpp:451`: no work is pending | `NoPendingWork` | `ImGuiView_core` | a view may be detached or released inside its own draw callback (`:454`) |
| `pi_host_dx11.h:89`: the buffers are never smaller than the window | `GrantedFits` | `HostDx11_core` | when both resizes failed, the frame is granted on the old buffers (`pi_host_dx11.cpp:118`) |
| `pi_host_dx11.cpp:86`: non-zero means that the target can be used | `GrantedHasTarget` | `HostDx11_core` | after a resize that succeeded, the frame is granted whether or not there is a target (`:125`) |
| `pi_win32_view.h:58`: window and class are gone before the module is | `GoneBeforeUnload` | `Win32View_core` | a view attached when the registry is full is not entered, and no shutdown reaches it (`pi_win32_view.c:212`) |

### Seen while modelling, not the subject of a run

Router: a nested pump serves newer events before the outer one has served the older
to everybody, so `OnceInOrder` is checked without nesting.

Session: `deliver_event` does not look at whether the host has an events interface
(`pi_host_session.c:642`).

Qt: the gate a failed factory leaves open stays open after a
`terminate` that found the view unattached, against `adapters/qt/README.md:125`;
`g_app_shutdown`, once set, forbids every later attach (`:367`).

DX11: the early return for buffers that are large enough does not look at the
target, and never makes one that was lost.

ImGui: `detach` clears the window's user data before it destroys the window, so
`WM_DESTROY` resets nothing; after a shader failed to compile the vertex shader is
set and no later frame tries again; a frame whose target could not be made is
drawn to none; a failed attach leaves its window class registered.

Win32 kit: `terminate` of one instance detaches every instance's views, as the kit's
header says; the comments at `pi_win32_view.c:45` and `:52` disagree about it.

Services: a terminated service can be started again by whoever still holds it.

## 4. What is proved

For all topics, owners, capacities, handle spaces and bounds (the assumptions
`RouterConstants` and `NoEventIsNoEvent`):

- `TypeCorrect`: `Spec => []TypeOK`;
- `RingCorrect`: `Spec => []RingWellFormed`;
- `EveryEventAccounted`: `Spec => []Accounted`;
- `RouterImplementsQueue`: `Spec => ImplementsQueue`, the refinement of
  `EventQueue`;
- `HandlesNeverClash`: `Spec => []HandlesUnique`, through every wrap of the counter;
- `NoLateCallback`: `Fewer => (Spec => NoCallAfterLeave)`;
- `DeliveredExactlyOnce`: `Fewer => (Spec => []ExactlyOnce)`;
- `DeliveredInOrder`: `NoNesting => (Spec => OnceInOrder)`;
- `OwnPublishingWaits`: `NoNesting /\ ~ResizeInCallback => (Spec => []ReentrancyRule)`,

where `ExactlyOnce` speaks of the subscriptions that existed when a pump started,
`Fewer` says that fewer subscriptions are made than there are handles (2^32
in the code) and `NoNesting` that no callback pumps (`MaxDepth = 1`). Without
its hypothesis each of the four is false, as said above: a handle given out again
is taken for another's, a nested pump serves a later event before the outer one
has served its own to everybody, and a callback that shrinks the queue lets its
pump reach what it published. The runs that check them have the
same values.

The inductive invariant is `IInv == TypeOK /\ FramesShape /\ RingInv /\
Accounted`. `TypeOK` alone is not inductive: a callback is recorded with the
number of the event its pump holds, which is an event only because the slot at
the head of a non-empty queue is never empty (`RingInv`), and because a pump past
its `take` phase holds an event (`FramesShape`). The accounting needs
`FramesShape` as well: ending a pump leaves the number of events in flight alone
only because the pump under it is inside a callback. The heart of the proof is
three lemmas about the ring (`AcceptRing`, `TakeRing`, `ResizeRing`): what a
publish, a take and a resize do to the sequence of waiting events, from the fact
that the place of a slot and the slot of a place are inverse to each other
(`PlaceOfSlot`, `SlotOfPlace`). The refinement cites the same lemmas, and reads
the number of events in flight off the accounting.

`HandleInv` says what the last round of handles looks like, counting down from the
last one given out; the step that matters is the wrap from the highest value to 1.
With `Fewer` it makes the look-up by handle find that subscription or nothing
(`LookUp`), from which `SubsInv` (nothing in the table has left) is inductive.
`DeliveryInv` adds what exactly-once delivery rests on: what has left the table is
dead; everything taken so far is older than everything waiting (`Older`), so a new
event was never delivered before; and nested pumps serve later and later events
(`Ascending`), so a nested pump's calls are not mistaken for the outer pump's.
`OrderInv` is the simpler fact for one pump: what was delivered is no newer than
the event in hand, and the matches left have not had it. `BatchInv` says that
the events a pump still has to take are the oldest of the queue and none of them
was published by its callbacks: a publish appends behind them, and nothing but a
resize or another pump could shorten the queue in front of what it appended.

For all sets of window lengths and any bound on failures (the assumption
`LengthsArePositive`), in `HostDx11Proofs`:

- `HoldsWhatItNames`: `Spec => []ReferencesBalanced`;
- `OnlyFailedResizesCutOff`: `Spec => []BuffersCover`;
- `NeverFailsItself`: `Spec => []OnlySystemFails`.

The three are not inductive alone. `Stages` says which fields are set at each stage
of `create`, without which a fallback might release what it does not have.
`Agrees` says that the flags noted are the chain's, so that DXGI never refuses a
resize by its rules, and that the noted size, not the buffers' own, covers every
size but those whose two resizes failed: the decision to leave the buffers alone is made on the note, and the note
may be "unknown" until the first resize. `Covers` then follows through every resize
because a hull is the least size that covers both (`HullIsLeast`).

For every number of slots, all modules, descriptors and bounds, and plugins that
do not subscribe during `detach` or `terminate` (`Mannered`, assumed by every theorem
of this list and the next; with other plugins the first is false, as section 3
says), in `HostSessionProofs`:

- `MappedWhenRun`: `Spec => []RunsMappedCode`;
- `ReferencesStayBalanced`: `Spec => []ReferencesBalanced`, which allows for the
  factory references `module_load` loses;
- `TerminatedIsQuiet`: `Spec => []QuietBeforeTerminate`;
- `ViewsAreOnRecord`: `Spec => []SessionKnowsAttached`;
- `DetachComesFirst`: `Spec => DetachedBeforeReleased`;
- `GatesComeFirst`: `Spec => []GatedBeforeCreated`;
- `SessionImplementsTable`: `Spec => ImplementsSlotTable`, the refinement of
  `SlotTable`,

and in `EmbedAreaProofs`:

- `AreaImplementsSession`: `AreaSpec => Spec`, so that a session with an area has
  all of these properties;
- `AreaDrivesLiveViews`: `AreaSpec => []DrivesLiveView`;
- `AreaDrivesItsOwn`: `AreaSpec => []DrivesWhatItEmbedded`.

That no code runs unmapped says nothing about why, and is far from inductive. The
invariant (`IInv` of `HostSessionProofs`) ties together four things that a load and
a teardown change at different steps: each instance is owned by one slot, which
has its module (`SlotShape`, `OneOwner`); the instance's references are those the
slot holds, and without an owner there are none (`RefsCounted`); who has a worker
running or a subscription still has an owner (`OwnedWhileActive`); and a module's
handles are as many as the slots that have it (`ModulesCounted`). So whoever may
still run belongs to a slot, and that slot's handle keeps the code mapped
(`MappedIfActive`). `ThreadShape` and `TearDownShape` say how far the operation in
progress has come; in them the order of the teardown is used, since the instance
gives up its owner only when service, events and view are gone.

`AttachedKnown` and `GatesKnown` strengthen the rules: an embedded view is known to
the slot that owns it or was released on the host's demand a moment ago, and a slot
that has a factory is past the gates unless the thread is just going to apply them.
For the area, `Bound` adds that the instance it embedded has its view in no slot but
the bound one, where it is on record as attached. It is kept because a step of the
session leaves a slot's view as it was or takes it away, unless the slot's instance
is just being set up (`ViewsOfSlots`), and an instance is set up only once.

For the refinement, `OpShape` relates the operation under way to what its slot held
before it: an operation that makes something took the lowest free slot, one that
frees something found the slot in use, and the thread in the host's loop is at no
slot. A step in the middle of an operation changes its own slot and instance only
(`OwnOnly`), so the table stutters (`OthersPhase`); the last step of an operation is
the table's step. The end of one teardown in a sweep is also the beginning of the
next, whose slot counts as what it holds.

For all addresses, plugins, posts and depths of nesting, in `QtViewProofs`:

- `RetainAlwaysBalanced`: `Spec => []RetainBalanced`;
- `AppLivesWhileAttached`: `Spec => []AppWhileAttached`;
- `AppGoesWithLast`: `Spec => []AppGoesWithLastView`;
- `CallsRunOnce`: `Spec => RunsAtMostOnce`;
- `HostThatDetachesNeverBlocks`: `DetachesFirst => (Spec => []GuiNeverBlocks)`;
- `DetachedCallsDropped`: `Spec => DroppedWhileDetached`;
- `NothingAfterTerminate`: `DetachesFirst => (Spec => NoCallAfterTerminate)`.

`DetachesFirst` is the duty of `adapters/qt/README.md:124`. `qt_sweep` shows the wait
of a host that forgets it; that one which does not forget never waits is proved
only. The other five assume nothing of host, factories or allocator,
and say what is left of the adapter's promises when these are at their worst:
`DroppedWhileDetached` that the gate of a detached view is closed until attach is
called again (what comes through it then is in the table of section 3), `NoCallAfterTerminate` that a terminated plugin's call needs another plugin's
view at the same address. The invariant says what each frame of the stack may still rely on when it is resumed.
`StackShape`: only a detach is ever nested, in an operation that is sweeping,
unregistering or inside a call. `AppInv`: there is an application while a widget
is left, and with no view on the registry only while the bottom frame is the release
that will quit it. `RetainInv`: a view has at most one detach on the stack, and no
widget then. To these the theorems add `DetachInv` (with `DetachesFirst` a sweep
finds no widget, and no view outlives its plugin's `terminate`), `OnceInv` (a call is
in the queue or in one handler, and not yet started) and `SinceInv` (an open gate
and a waiting call whose view was detached mean an attach in between).

For any number of plugins, views, windows and loads, in `Win32ViewProofs`:

- `RegistryAlwaysComplete`: `Spec => []RegistryComplete`;
- `NothingLeftBehind`: `Spec => []NothingOutlivesModule`;
- `PaintersLive`: `Spec => []PaintsLivePlugins`.

The first is inductive only together with the rest. As long as the registry was
never full, a window that is open was made by the module's present load and points to a view that points back (`WindowsInv`),
no two attached views share a window (`ViewsInv`), the class is there while an
instance is live (`ClassInv`), and a terminated plugin has no view attached
(`LiveInv`), which holds because `terminate` sweeps the registry and the registry
misses no attached view. After an overflow it misses one:
`RegistryComplete`, `PaintsLivePlugins` and `NothingOutlivesModule` say
themselves that they end with an overflow; the count of references does not.

For any number of views, buttons, sizes of frames and depth of draw callbacks, in
`ImGuiViewProofs`:

- `ContextAlwaysRestored`: `Spec => []ContextRestored`;
- `ResourcesAlwaysBalanced`: `Spec => []ResourcesBalanced`;
- `FramesFitTheirBuffers`: `Spec => []DrawsWithinBuffers`;
- `CaptureEndsWithTheButtons`: `Spec => []CapturedWhileHeard`.

The four properties are nearly inductive together; what is missing is that a view is
unmade, new or attached and has a platform backend only when attached (`ShapeInv`),
and that the context that took the mouse knows of a button that is held and of none
that is not (`CaptureInv`). `ContextRestored` allows for a view that went under its own frame.
The work is in the lemmas about `ImGuiBackends`, which say what each operator does to
the objects counted, whichever call of Direct3D failed before it.

For any number of threads, owners and objects, in `HostObjectsProofs`:

- `ReferencesCountedExactly`: `Spec => []CountsExact`;
- `NothingOutlivesItsCode`: `Spec => []CodeOutlivesObjects`;
- `RouterOutlives`: `Spec => []RouterOutlivesServices`.

The pointers from outside the heap (variables, the detached pointer, the threads'
debts) are counted as `ext`. `HeapOK(heap, ext)` says that each object's count is
`ext` plus the objects that hold it, and that whatever is held exists and is of the
right kind; each operation on the heap is one lemma that says which `ext` it needs
afterwards, and each action one lemma that says that this is what the variables
count. `FactoryInv` is the same for the factory, whose count includes the module's
entry and the loads left; `RouterInv` keeps the router owned while services refer
to it, which rests on the host's discipline in the guards.

Only model-checked: liveness (`EventReachesSubscriber`, `OperationsFinish`,
`PostedCallServed`), which is out of the prover's reach because it rests on
fairness. Every invariant, action property and refinement that a passing run checks
is proved. The proofs assume nothing beyond the hypotheses named above and the
assumptions on the constants, which TLC evaluates in every run. Lemmas about
recursive data are not needed: no module that is proved about declares a recursive
operator.

## 5. What could come next

1. A session operation started from inside a plugin's callback: the same slot
   unloaded twice, and a callback of a pump that unloads its own plugin.
2. As a theorem, the half of `OperationsFinish` that is no liveness: a destroyed
   session has every module unmapped.
3. The router with nested pumps: an order that does hold there (each pump serves in
   order, and a nested one only later events) as a property of a run and a theorem.

## 6. What is not modelled

An operation on a session started from inside another one (by a plugin's callback
into the host, `pi_host_session.c:113`): the host thread runs one operation at a
time.

Of the descriptor helpers, `requires` and the property search: pure functions that
nothing in the modelled code calls. Of the Qt adapter, embedding, geometry,
visibility and painting. Of the ImGui backends, hover tracking, keys, gamepads,
cursors, clipboard, DPI and textures that cannot be created. Of the DX11 kit,
`present` and the container window, which keep no state.

The ABI headers keep no state. The other examples, the FFI bindings, the build
system, the scripts and the tests carry no logic of the framework. Logging, error
texts and argument checks that return before any change are left out.
