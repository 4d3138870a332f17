------------------------------ MODULE Win32View -----------------------------
(***************************************************************************)
(* The toolkit-free adapter kit (examples/minimal_kit_win32) in a plugin   *)
(* module: views, the windows they create in the host's containers, the    *)
(* registry a shutdown sweeps, and the window class.                       *)
(*                                                                         *)
(* Everything runs on the host's GUI thread.  Windows and the class belong *)
(* to the system and outlive the module when nobody removes them: each     *)
(* remembers the load (`loads`) whose code its WndProc is.                 *)
(***************************************************************************)
EXTENDS Integers, FiniteSets

CONSTANTS
  Plugins,            \* instances the module may create
  Views,              \* addresses of views
  NoView, NoPlugin,
  MaxLive,            \* PI_PLUGIN_WIN32_VIEW_MAX_LIVE
  MaxWindows,         \* bound on windows open at a time
  MaxLoads,           \* bound on loads of the module
  Retains             \* whether the plugins give retain and release hooks

ASSUME Win32Constants ==
  /\ IsFiniteSet(Views) /\ NoView \notin Views
  /\ NoPlugin \notin Plugins
  /\ {MaxLive, MaxWindows, MaxLoads} \subseteq Nat \ {0}
  /\ Retains \in BOOLEAN

VARIABLES
  mapped, loads,      \* whether the module is loaded, and how often it was
  plugin,             \* the instances, with the references to them
  view,               \* the views that exist
  window,             \* the system's windows
  class,              \* the load that registered the class, 0 for no class
  g_live, g_class_registered,
  overflowed          \* history: a view found the registry full

module == <<mapped, loads>>
kit == <<g_live, g_class_registered>>
vars == <<module, plugin, view, window, class, kit, overflowed>>

Windows == 1 .. MaxWindows
Slots == 1 .. MaxLive

\* hwnd may name a window that is gone: the host can close its container first.
View == [of : Plugins \cup {NoPlugin}, attached : BOOLEAN, hwnd : 0 .. MaxWindows]
Window == [load : 0 .. MaxLoads, userdata : Views \cup {NoView}]
Plugin == [state : {"none", "live", "terminated"}, host_ui : BOOLEAN,
           host : BOOLEAN, refs : Int]

Unmade == [of |-> NoPlugin, attached |-> FALSE, hwnd |-> 0]
Closed == [load |-> 0, userdata |-> NoView]
NotCreated == [state |-> "none", host_ui |-> FALSE, host |-> FALSE, refs |-> 0]

Open(w) == window[w].load # 0

\* A handle is not given out again while a view still has it.
Unused(w) == ~Open(w) /\ \A v \in Views : view[v].hwnd # w
Exists(v) == view[v].of # NoPlugin

TypeOK ==
  /\ mapped \in BOOLEAN
  /\ loads \in 0 .. MaxLoads
  /\ plugin \in [Plugins -> Plugin]
  /\ view \in [Views -> View]
  /\ window \in [Windows -> Window]
  /\ class \in 0 .. MaxLoads
  /\ g_live \in [Slots -> Views \cup {NoView}]
  /\ g_class_registered \in BOOLEAN
  /\ overflowed \in BOOLEAN

\* The statics of a module that has just been mapped.
FreshModule ==
  /\ g_live' = [s \in Slots |-> NoView]
  /\ g_class_registered' = FALSE

Init ==
  /\ mapped = FALSE
  /\ loads = 0
  /\ plugin = [p \in Plugins |-> NotCreated]
  /\ view = [v \in Views |-> Unmade]
  /\ window = [w \in Windows |-> Closed]
  /\ class = 0
  /\ g_live = [s \in Slots |-> NoView]
  /\ g_class_registered = FALSE
  /\ overflowed = FALSE

-----------------------------------------------------------------------------
(* The window class                                                        *)

\* The class is registered once per load.  A class of the same name left by an
\* earlier load is dropped first, which fails while it has windows; the window
\* is then made of the old class.
RegisterClass ==
  \/ /\ g_class_registered
     /\ UNCHANGED <<class, g_class_registered>>
  \/ /\ ~g_class_registered
     /\ class = 0 \/ \A w \in Windows : ~Open(w)
     /\ class' = loads
     /\ g_class_registered' = TRUE
  \/ /\ ~g_class_registered
     /\ class' = IF \A w \in Windows : ~Open(w) THEN 0 ELSE class
     /\ UNCHANGED g_class_registered

-----------------------------------------------------------------------------
(* The registry                                                            *)

FreeSlots == {s \in Slots : g_live[s] = NoView}
InFreeSlot(s) == s \in FreeSlots /\ \A t \in FreeSlots : s <= t

\* The first free slot; with none, the view is not entered.
AddLive(v) ==
  \/ /\ \E s \in Slots : InFreeSlot(s) /\ g_live' = [g_live EXCEPT ![s] = v]
     /\ UNCHANGED overflowed
  \/ /\ FreeSlots = {}
     /\ g_live' = g_live
     /\ overflowed' = TRUE

KeepsLive(gone) == g_live
RemoveLive(gone) ==
  [s \in Slots |-> IF g_live[s] \in gone THEN NoView ELSE g_live[s]]

-----------------------------------------------------------------------------
(* The view's slots                                                        *)

Retain(p) == [plugin EXCEPT ![p].refs = IF Retains THEN @ + 1 ELSE @]

\* A window that cannot be made fails the attach and leaves nothing but the
\* class.
RetainsAnyway(p) == Retain(p)
Untouched(p) == plugin

Attach(v) ==
  LET p == view[v].of
  IN  /\ mapped
      /\ Exists(v)
      /\ ~view[v].attached
      /\ plugin[p].state = "live"
      /\ RegisterClass
      /\ \/ /\ class' # 0
            /\ \E w \in Windows :
                 /\ Unused(w) /\ \A u \in 1 .. w - 1 : ~Unused(u)
                 /\ window' = [window EXCEPT ![w] =
                                 [load |-> class', userdata |-> v]]
                 /\ view' = [view EXCEPT ![v].attached = TRUE, ![v].hwnd = w]
            /\ AddLive(v)
            /\ plugin' = Retain(p)
         \/ /\ plugin' = Untouched(p)
            /\ UNCHANGED <<view, window, g_live, overflowed>>
      /\ UNCHANGED module

\* Detaching the attached ones of some views: the windows lose their view and
\* are destroyed, the registry forgets the views, the plugins are released.
DestroyWindows(gone) ==
  [w \in Windows |->
     IF \E v \in gone : view[v].attached /\ view[v].hwnd = w
       THEN Closed ELSE window[w]]

Released(gone) ==
  [p \in Plugins |-> [plugin[p] EXCEPT !.refs =
     IF Retains
       THEN @ - Cardinality({v \in gone : view[v].attached /\ view[v].of = p})
       ELSE @]]

Detached(gone) ==
  [v \in Views |-> IF v \in gone /\ view[v].attached
                     THEN [view[v] EXCEPT !.attached = FALSE, !.hwnd = 0]
                     ELSE view[v]]

Detach(v) ==
  /\ mapped
  /\ Exists(v)
  /\ view[v].attached
  /\ window' = DestroyWindows({v})
  /\ view' = Detached({v})
  /\ g_live' = RemoveLive({v})
  /\ plugin' = Released({v})
  /\ UNCHANGED <<module, class, g_class_registered, overflowed>>

\* WM_PAINT, on on_idle() or when the system wants it, reads the view from the
\* window and calls the paint callback of the view's plugin.
PaintedView(w) == window[w].userdata
Painter(v) == v.of

\* Giving the last reference to a view back detaches it first.
Release(v) ==
  /\ mapped
  /\ Exists(v)
  /\ window' = DestroyWindows({v})
  /\ view' = [view EXCEPT ![v] = Unmade]
  /\ g_live' = RemoveLive({v})
  /\ plugin' = Released({v})
  /\ UNCHANGED <<module, class, g_class_registered, overflowed>>

\* A plugin that was given a host with windows makes a view; nothing is created
\* before attach.
GetView(p, v) ==
  /\ mapped
  /\ plugin[p].state = "live"
  /\ plugin[p].host_ui
  /\ ~Exists(v)
  /\ view' = [view EXCEPT ![v] = [Unmade EXCEPT !.of = p]]
  /\ UNCHANGED <<module, plugin, window, class, kit, overflowed>>

-----------------------------------------------------------------------------
(* The plugin and its host                                                 *)

Load ==
  /\ ~mapped
  /\ loads < MaxLoads
  /\ mapped' = TRUE
  /\ loads' = loads + 1
  /\ FreshModule
  /\ UNCHANGED <<plugin, view, window, class, overflowed>>

\* A host may be headless, and creation may run out of memory.
Initialized(ui) == [state |-> "live", host_ui |-> ui, host |-> TRUE, refs |-> 1]

Create(p) ==
  /\ mapped
  /\ plugin[p].state = "none"
  /\ \E ui \in BOOLEAN : plugin' = [plugin EXCEPT ![p] = Initialized(ui)]
  /\ UNCHANGED <<module, view, window, class, kit, overflowed>>

\* terminate() shuts the kit down: every registered view of the module is
\* detached, whichever instance it belongs to; the class goes unless it still
\* has windows.
SweepsFirst == {g_live[1]} \ {NoView}
Swept == {g_live[s] : s \in Slots} \ {NoView}

ClassDropped == g_class_registered /\ \A w \in Windows : window'[w] = Closed

Terminate(p) ==
  /\ mapped
  /\ plugin[p].state = "live"
  /\ window' = DestroyWindows(Swept)
  /\ view' = Detached(Swept)
  /\ g_live' = RemoveLive(Swept)
  /\ plugin' = [Released(Swept) EXCEPT ![p].state = "terminated"]
  /\ g_class_registered' = FALSE
  /\ class' = IF ClassDropped THEN 0 ELSE class
  /\ UNCHANGED <<module, overflowed>>

\* The host gives its reference back, and the module up once no instance is
\* left that it did not terminate and release; views it kept are lost.
ReleasePlugin(p) ==
  /\ mapped
  /\ plugin[p].state = "terminated"
  /\ plugin[p].host
  /\ plugin' = [plugin EXCEPT ![p].host = FALSE, ![p].refs = @ - 1]
  /\ UNCHANGED <<module, view, window, class, kit, overflowed>>

Unload ==
  /\ mapped
  /\ \A p \in Plugins : ~plugin[p].host
  /\ mapped' = FALSE
  /\ plugin' = [p \in Plugins |-> NotCreated]
  /\ view' = [v \in Views |-> Unmade]
  /\ UNCHANGED <<loads, window, class, kit, overflowed>>

\* The host destroys a container with the plugin's window in it.
CloseContainer(w) ==
  /\ Open(w)
  /\ window' = [window EXCEPT ![w] = Closed]
  /\ UNCHANGED <<module, plugin, view, class, kit, overflowed>>

-----------------------------------------------------------------------------
Next ==
  \/ Load
  \/ Unload
  \/ \E p \in Plugins : Create(p) \/ Terminate(p) \/ ReleasePlugin(p)
  \/ \E p \in Plugins, v \in Views : GetView(p, v)
  \/ \E v \in Views : Attach(v) \/ Detach(v) \/ Release(v)
  \/ \E w \in Windows : CloseContainer(w)

Spec == Init /\ [][Next]_vars

-----------------------------------------------------------------------------
(* Properties                                                              *)

\* The header on shutdown: "the window class and the WndProc belong to the plugin's
\* module, so they must be gone before the host unloads it".
GoneBeforeUnload ==
  /\ \A w \in Windows : Open(w) => mapped /\ window[w].load = loads
  /\ class # 0 => mapped /\ class = loads

\* Unless a view found the registry full, no window and no class are left whose
\* WndProc was unmapped with the module, even if the host never detached.
NothingOutlivesModule == ~overflowed => GoneBeforeUnload

\* A plugin is held by its host and once by each of its attached views, through
\* failed attaches, sweeps and releases of views still attached.
RetainBalanced ==
  mapped => \A p \in Plugins :
    plugin[p].refs = (IF plugin[p].host THEN 1 ELSE 0)
      + (IF Retains THEN Cardinality({v \in Views : view[v].of = p
                                                    /\ view[v].attached}) ELSE 0)

\* Whatever window is told to paint, its view is attached to just that window,
\* and the plugin that paints, held once by each of its attached views, has not
\* been freed.
PaintsLivePlugins ==
  /\ RetainBalanced
  /\ ~overflowed =>
       \A w \in Windows : Open(w) =>
         /\ PaintedView(w) \in Views
         /\ LET v == view[PaintedView(w)]
            IN  v.attached /\ v.hwnd = w /\ plugin[Painter(v)].refs > 0

\* The registry holds no view twice and none that is not attached; and, until a view
\* finds it full, every attached one, or a shutdown would pass it by.
RegistryComplete ==
  /\ TypeOK
  /\ mapped =>
       /\ \A s \in Slots : g_live[s] # NoView => view[g_live[s]].attached
       /\ \A s, t \in Slots : g_live[s] = g_live[t] /\ g_live[s] # NoView => s = t
       /\ ~overflowed => \A v \in Views : view[v].attached =>
            \E s \in Slots : g_live[s] = v

=============================================================================
