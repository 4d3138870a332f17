--------------------------- MODULE Win32ViewProofs --------------------------
(***************************************************************************)
(* What the toolkit-free adapter kit keeps for any number of plugins,      *)
(* views, windows and loads of the module.                                 *)
(*                                                                         *)
(* A view, its window, its place in the registry, the plugin's reference   *)
(* and the window class are five records of one fact.  The inductive       *)
(* invariant ties them to each other; as long as the registry was never    *)
(* full, terminate() then finds every window, and so may drop the class.   *)
(***************************************************************************)
EXTENDS Win32View, FiniteSetTheorems, TLAPS

-----------------------------------------------------------------------------
(* The inductive invariant                                                 *)

\* Nothing of the module is there while it is not mapped; an instance that is
\* live is the host's, and only an instance that was created has views.
InstancesInv ==
  /\ ~mapped => \A p \in Plugins : plugin[p] = NotCreated
  /\ ~mapped => \A v \in Views : view[v] = Unmade
  /\ \A p \in Plugins : plugin[p].state = "live" => plugin[p].host
  /\ \A v \in Views : Exists(v) => plugin[view[v].of].state # "none"

\* A view is attached with a window of its own.
ViewsInv ==
  /\ \A v \in Views : view[v].attached <=> view[v].hwnd # 0
  /\ \A v \in Views : view[v].attached => Exists(v)
  /\ \A u, v \in Views : view[u].attached /\ view[u].hwnd = view[v].hwnd => u = v

\* A window belongs to this load and to the view that is attached to it.
WindowsInv ==
  /\ \A w \in Windows : ~Open(w) => window[w] = Closed
  /\ ~overflowed =>
       \A w \in Windows : Open(w) =>
         /\ mapped /\ window[w].load = loads
         /\ window[w].userdata \in Views
         /\ view[window[w].userdata].attached
         /\ view[window[w].userdata].hwnd = w

\* The class is there while an instance is live, and the kit knows of it.
ClassInv ==
  ~overflowed /\ class # 0 =>
    /\ mapped /\ class = loads /\ g_class_registered
    /\ \E p \in Plugins : plugin[p].state = "live"

\* terminate() leaves no view attached.
LiveInv ==
  ~overflowed =>
    \A v \in Views : view[v].attached => plugin[view[v].of].state = "live"

IInv ==
  /\ RegistryComplete
  /\ InstancesInv
  /\ ViewsInv
  /\ WindowsInv
  /\ ClassInv
  /\ LiveInv
  /\ RetainBalanced

-----------------------------------------------------------------------------
(* Counting attached views                                                 *)

AttachedTo(p) == {v \in Views : view[v].of = p /\ view[v].attached}
Held(p) == (IF plugin[p].host THEN 1 ELSE 0)
             + (IF Retains THEN Cardinality(AttachedTo(p)) ELSE 0)

LEMMA Balance == RetainBalanced <=> (mapped => \A p \in Plugins : plugin[p].refs = Held(p))
  BY DEF RetainBalanced, Held, AttachedTo

LEMMA AttachedFinite ==
  ASSUME NEW p
  PROVE  /\ IsFiniteSet(AttachedTo(p)) /\ Cardinality(AttachedTo(p)) \in Nat
         /\ Held(p) \in Int
<1>1. AttachedTo(p) \in SUBSET Views
  BY DEF AttachedTo
<1>2. IsFiniteSet(AttachedTo(p))
  BY <1>1, FS_Subset, Win32Constants DEF Win32Constants
<1>3. Cardinality(AttachedTo(p)) \in Nat
  BY <1>2, FS_CardinalityType
<1>. QED
  BY <1>2, <1>3, Win32Constants DEF Held, Win32Constants

LEMMA CardinalityOfRest ==
  ASSUME NEW S, NEW T, IsFiniteSet(S)
  PROVE  /\ Cardinality(S \ T) = Cardinality(S) - Cardinality(S \cap T)
         /\ Cardinality(S \ T) \in Nat /\ Cardinality(S \cap T) \in Nat
<1>1. S \ T \in SUBSET S /\ S \cap T \in SUBSET S
  OBVIOUS
<1>2. IsFiniteSet(S \ T) /\ IsFiniteSet(S \cap T)
  BY <1>1, FS_Subset
<1>3. (S \ T) \cup (S \cap T) = S /\ (S \ T) \cap (S \cap T) = {}
  OBVIOUS
<1>4. /\ Cardinality(S) \in Nat /\ Cardinality(S \ T) \in Nat /\ Cardinality(S \cap T) \in Nat
      /\ Cardinality({}) = 0
  BY <1>2, FS_CardinalityType, FS_EmptySet
<1> DEFINE A == S \ T  B == S \cap T
<1>5. Cardinality(A \cup B) = Cardinality(A) + Cardinality(B) - Cardinality(A \cap B)
  BY <1>2, FS_Union
<1>6. A \cup B = S /\ A \cap B = {} /\ Cardinality(A) \in Nat /\ Cardinality(B) \in Nat
  BY <1>3, <1>4
<1> HIDE DEF A, B
<1>7. Cardinality(A) = Cardinality(S) - Cardinality(B)
  BY <1>4, <1>5, <1>6
<1>. QED
  BY <1>4, <1>7 DEF A, B

LEMMA PluginFields ==
  ASSUME NEW r \in Plugin
  PROVE  /\ \A n \in Int : LET q == [r EXCEPT !.refs = n]
                           IN  /\ q \in Plugin /\ q.refs = n /\ q.state = r.state
                               /\ q.host = r.host /\ q.host_ui = r.host_ui
         /\ LET q == [r EXCEPT !.state = "terminated"]
            IN  /\ q \in Plugin /\ q.refs = r.refs /\ q.state = "terminated"
                /\ q.host = r.host /\ q.host_ui = r.host_ui
  BY DEF Plugin

LEMMA DetachedFields ==
  ASSUME NEW r \in View
  PROVE  LET q == [r EXCEPT !.attached = FALSE, !.hwnd = 0]
         IN  q \in View /\ ~q.attached /\ q.hwnd = 0 /\ q.of = r.of
<1> DEFINE q == [r EXCEPT !.attached = FALSE, !.hwnd = 0]
<1>1. 0 \in 0 .. MaxWindows
  BY Win32Constants DEF Win32Constants
<1>2. q \in View
  BY <1>1 DEF View
<1>3. q.hwnd = 0 /\ q.of = r.of
  BY DEF View
<1>4. ~q.attached
  BY DEF View
<1>. QED
  BY <1>2, <1>3, <1>4

\* What Released() makes of the instances: their references only.
LEMMA ReleasedPlugins ==
  ASSUME IInv, mapped, NEW gone \in SUBSET Views
  PROVE  /\ Released(gone) \in [Plugins -> Plugin]
         /\ \A p \in Plugins :
              LET q == Released(gone)[p]
              IN  /\ q.state = plugin[p].state /\ q.host = plugin[p].host
                  /\ q.refs = (IF plugin[p].host THEN 1 ELSE 0)
                       + (IF Retains THEN Cardinality(AttachedTo(p) \ gone) ELSE 0)
<1>. SUFFICES ASSUME NEW p \in Plugins
              PROVE  LET q == Released(gone)[p]
                     IN  /\ q \in Plugin
                         /\ q.state = plugin[p].state /\ q.host = plugin[p].host
                         /\ q.refs = (IF plugin[p].host THEN 1 ELSE 0)
                              + (IF Retains THEN Cardinality(AttachedTo(p) \ gone) ELSE 0)
  BY DEF Released
<1> DEFINE lost == {v \in gone : view[v].attached /\ view[v].of = p}
           r == plugin[p]
           n == IF Retains THEN r.refs - Cardinality(lost) ELSE r.refs
<1>1. lost = AttachedTo(p) \cap gone
  BY DEF AttachedTo
<1>2. r \in Plugin /\ r.refs = Held(p) /\ r.refs \in Int
  BY Balance DEF IInv, RegistryComplete, TypeOK, Plugin
<1>3. /\ Cardinality(AttachedTo(p) \ gone) = Cardinality(AttachedTo(p)) - Cardinality(lost)
      /\ Cardinality(AttachedTo(p) \ gone) \in Nat /\ Cardinality(lost) \in Nat
      /\ Cardinality(AttachedTo(p)) \in Nat
  BY <1>1, AttachedFinite, CardinalityOfRest
<1>4. /\ n \in Int
      /\ n = (IF plugin[p].host THEN 1 ELSE 0)
               + (IF Retains THEN Cardinality(AttachedTo(p) \ gone) ELSE 0)
  <2> HIDE DEF lost
  <2>1. CASE Retains
    BY <1>2, <1>3, <2>1 DEF Held
  <2>2. CASE ~Retains
    BY <1>2, <2>2 DEF Held
  <2>. QED
    BY <2>1, <2>2
<1>5. Released(gone)[p] = [r EXCEPT !.refs = n]
  BY DEF Released
<1> HIDE DEF n
<1>6. [r EXCEPT !.refs = n] \in Plugin /\ [r EXCEPT !.refs = n].refs = n
      /\ [r EXCEPT !.refs = n].state = r.state /\ [r EXCEPT !.refs = n].host = r.host
  <2> HIDE DEF r
  <2>. QED
    BY <1>2, <1>4, PluginFields
<1>. QED
  BY <1>4, <1>5, <1>6

-----------------------------------------------------------------------------
(* Detaching                                                               *)

\* Some views lose their windows, their places and their references together.
LEMMA DetachingKeeps ==
  ASSUME IInv, mapped, mapped', NEW gone \in SUBSET Views,
         window' = DestroyWindows(gone), g_live' = RemoveLive(gone),
         view' \in [Views -> View],
         \A v \in Views : v \notin gone => view'[v] = view[v],
         \A v \in gone : ~view'[v].attached /\ view'[v].hwnd = 0
                         /\ view'[v].of \in {view[v].of, NoPlugin},
         plugin' \in [Plugins -> Plugin],
         \A p \in Plugins : /\ plugin'[p].refs = Released(gone)[p].refs
                            /\ plugin'[p].host = plugin[p].host
                            /\ plugin'[p].state \in {plugin[p].state, "terminated"}
                            /\ plugin[p].state = "none" => plugin'[p].state = "none",
         UNCHANGED <<loads, overflowed>>,
         class' \in {0, class}, g_class_registered' \in BOOLEAN
  PROVE  /\ RegistryComplete' /\ InstancesInv' /\ ViewsInv' /\ WindowsInv'
         /\ RetainBalanced'
         /\ \A v \in Views : view'[v].attached <=> view[v].attached /\ v \notin gone
<1>1. /\ view \in [Views -> View] /\ window \in [Windows -> Window]
      /\ g_live \in [Slots -> Views \cup {NoView}] /\ NoView \notin Views
  BY Win32Constants DEF IInv, RegistryComplete, TypeOK, Win32Constants
<1>2. \A v \in Views : view'[v].attached <=> view[v].attached /\ v \notin gone
  OBVIOUS
<1>3. /\ \A s \in Slots : g_live'[s] = IF g_live[s] \in gone THEN NoView ELSE g_live[s]
      /\ g_live' \in [Slots -> Views \cup {NoView}]
  BY <1>1 DEF RemoveLive
<1>4. /\ \A w \in Windows :
           window'[w] = IF \E v \in gone : view[v].attached /\ view[v].hwnd = w
                          THEN Closed ELSE window[w]
      /\ window' \in [Windows -> Window]
  <2>1. Closed \in Window
    BY Win32Constants DEF Closed, Window, Win32Constants
  <2>. QED
    BY <1>1, <2>1 DEF DestroyWindows
<1>5. TypeOK'
  BY <1>3, <1>4, Win32Constants DEF IInv, RegistryComplete, TypeOK, Win32Constants
<1>6. RegistryComplete'
  <2>1. \A s \in Slots : g_live'[s] # NoView =>
          g_live'[s] = g_live[s] /\ g_live[s] \in Views /\ g_live[s] \notin gone
    BY <1>1, <1>3
  <2>2. \A s \in Slots : g_live'[s] # NoView => view'[g_live'[s]].attached
    BY <2>1, <1>2 DEF IInv, RegistryComplete
  <2>3. \A s, t \in Slots : g_live'[s] = g_live'[t] /\ g_live'[s] # NoView => s = t
    BY <2>1 DEF IInv, RegistryComplete
  <2>4. ~overflowed => \A v \in Views : view'[v].attached => \E s \in Slots : g_live'[s] = v
    <3>. SUFFICES ASSUME ~overflowed, NEW v \in Views, view'[v].attached
                  PROVE  \E s \in Slots : g_live'[s] = v
      OBVIOUS
    <3>1. PICK s \in Slots : g_live[s] = v
      BY <1>2 DEF IInv, RegistryComplete
    <3>. QED
      BY <1>2, <1>3, <3>1
  <2>. QED
    BY <1>5, <2>2, <2>3, <2>4 DEF RegistryComplete
<1>7. InstancesInv'
  <2>1. \A v \in Views : Exists(v)' => Exists(v) /\ view'[v].of = view[v].of
    BY DEF Exists
  <2>2. \A v \in Views : Exists(v) => view[v].of \in Plugins
    BY <1>1 DEF Exists, View
  <2>3. \A p \in Plugins : plugin'[p].state = "live" => plugin'[p].host
    BY DEF IInv, InstancesInv
  <2>4. \A v \in Views : Exists(v)' => plugin'[view'[v].of].state # "none"
    BY <2>1, <2>2 DEF IInv, InstancesInv
  <2>. QED
    BY <2>3, <2>4 DEF InstancesInv
<1>8. ViewsInv'
  <2>1. \A v \in Views : view'[v].attached <=> view'[v].hwnd # 0
    BY DEF IInv, ViewsInv
  <2>2. \A v \in Views : view'[v].attached => Exists(v)'
    BY <1>2 DEF IInv, ViewsInv, Exists
  <2>3. \A u, v \in Views : view'[u].attached /\ view'[u].hwnd = view'[v].hwnd => u = v
    BY <1>2, <2>1 DEF IInv, ViewsInv
  <2>. QED
    BY <2>1, <2>2, <2>3 DEF ViewsInv
<1>9. WindowsInv'
  <2>1. Closed.load = 0
    BY DEF Closed
  <2>2. \A w \in Windows : ~(window'[w].load # 0) => window'[w] = Closed
    BY <1>4 DEF IInv, WindowsInv, Open
  <2>3. ASSUME ~overflowed, NEW w \in Windows, window'[w].load # 0
        PROVE  /\ window'[w].load = loads /\ window'[w].userdata \in Views
               /\ view'[window'[w].userdata].attached
               /\ view'[window'[w].userdata].hwnd = w
    <3>1. window'[w] = window[w] /\ ~ \E v \in gone : view[v].attached /\ view[v].hwnd = w
      BY <1>4, <2>1, <2>3
    <3>2. /\ window[w].load = loads /\ window[w].userdata \in Views
          /\ view[window[w].userdata].attached /\ view[window[w].userdata].hwnd = w
      BY <2>3, <3>1 DEF IInv, WindowsInv, Open
    <3>. QED
      BY <3>1, <3>2
  <2>. QED
    BY <2>2, <2>3 DEF WindowsInv, Open
<1>10. RetainBalanced'
  <2>1. \A p : AttachedTo(p)' = AttachedTo(p) \ gone
    BY <1>2 DEF AttachedTo
  <2>2. \A p \in Plugins : plugin'[p].refs = Held(p)'
    BY <2>1, ReleasedPlugins DEF Held
  <2>. QED
    BY <2>2 DEF RetainBalanced, Held, AttachedTo
<1>. QED
  BY <1>2, <1>6, <1>7, <1>8, <1>9, <1>10

\* detach() of one view.
LEMMA DetachKeeps ==
  ASSUME IInv, NEW v \in Views, Detach(v)
  PROVE  IInv'
<1>1. /\ mapped /\ mapped' /\ {v} \in SUBSET Views
      /\ window' = DestroyWindows({v}) /\ g_live' = RemoveLive({v})
      /\ plugin' = Released({v}) /\ view' = Detached({v}) /\ view[v].attached
      /\ UNCHANGED <<module, class, g_class_registered, overflowed>>
      /\ view \in [Views -> View]
  BY DEF Detach, module, IInv, RegistryComplete, TypeOK
<1> DEFINE u == [view[v] EXCEPT !.attached = FALSE, !.hwnd = 0]
<1>2. u \in View /\ ~u.attached /\ u.hwnd = 0 /\ u.of = view[v].of
  BY <1>1, DetachedFields
<1>3. view' = [view EXCEPT ![v] = u]
  BY <1>1 DEF Detached
<1> HIDE DEF u
<1>4. view' \in [Views -> View] /\ view'[v] = u /\ \A w \in Views : w # v => view'[w] = view[w]
  BY <1>1, <1>2, <1>3
<1>5. /\ plugin' \in [Plugins -> Plugin]
      /\ \A p \in Plugins : /\ plugin'[p].refs = Released({v})[p].refs
                            /\ plugin'[p].host = plugin[p].host
                            /\ plugin'[p].state = plugin[p].state
  BY <1>1, ReleasedPlugins
<1>6. class' \in {0, class} /\ g_class_registered' \in BOOLEAN
  BY <1>1 DEF IInv, RegistryComplete, TypeOK
<1>7. /\ RegistryComplete' /\ InstancesInv' /\ ViewsInv' /\ WindowsInv' /\ RetainBalanced'
      /\ \A w \in Views : view'[w].attached <=> view[w].attached /\ w \notin {v}
  BY <1>1, <1>2, <1>4, <1>5, <1>6, DetachingKeeps DEF module
<1>8. ClassInv'
  BY <1>1, <1>5 DEF IInv, ClassInv, module
<1>9. LiveInv'
  <2>1. \A w \in Views : view'[w].attached => view[w].attached /\ view'[w] = view[w]
                                              /\ view[w].of \in Plugins
    BY <1>1, <1>4, <1>7 DEF IInv, ViewsInv, Exists, View
  <2>2. \A w \in Views : view'[w].attached => plugin'[view'[w].of].state = plugin[view[w].of].state
    BY <1>5, <2>1
  <2>. QED
    BY <1>1, <2>1, <2>2 DEF IInv, LiveInv
<1>. QED
  BY <1>7, <1>8, <1>9 DEF IInv

\* The last release of a view, attached or not.
LEMMA ReleaseKeeps ==
  ASSUME IInv, NEW v \in Views, Release(v)
  PROVE  IInv'
<1>1. /\ mapped /\ mapped' /\ {v} \in SUBSET Views
      /\ window' = DestroyWindows({v}) /\ g_live' = RemoveLive({v})
      /\ plugin' = Released({v}) /\ view' = [view EXCEPT ![v] = Unmade]
      /\ UNCHANGED <<module, class, g_class_registered, overflowed>>
      /\ view \in [Views -> View]
  BY DEF Release, module, IInv, RegistryComplete, TypeOK
<1>2. Unmade \in View /\ ~Unmade.attached /\ Unmade.hwnd = 0 /\ Unmade.of = NoPlugin
  BY Win32Constants DEF View, Unmade, Win32Constants
<1>4. view' \in [Views -> View] /\ view'[v] = Unmade /\ \A w \in Views : w # v => view'[w] = view[w]
  BY <1>1, <1>2
<1>5. /\ plugin' \in [Plugins -> Plugin]
      /\ \A p \in Plugins : /\ plugin'[p].refs = Released({v})[p].refs
                            /\ plugin'[p].host = plugin[p].host
                            /\ plugin'[p].state = plugin[p].state
  BY <1>1, ReleasedPlugins
<1>6. class' \in {0, class} /\ g_class_registered' \in BOOLEAN
  BY <1>1 DEF IInv, RegistryComplete, TypeOK
<1>7. /\ RegistryComplete' /\ InstancesInv' /\ ViewsInv' /\ WindowsInv' /\ RetainBalanced'
      /\ \A w \in Views : view'[w].attached <=> view[w].attached /\ w \notin {v}
  BY <1>1, <1>2, <1>4, <1>5, <1>6, DetachingKeeps DEF module
<1>8. ClassInv'
  BY <1>1, <1>5 DEF IInv, ClassInv, module
<1>9. LiveInv'
  <2>1. \A w \in Views : view'[w].attached => view[w].attached /\ view'[w] = view[w]
                                              /\ view[w].of \in Plugins
    BY <1>1, <1>4, <1>7 DEF IInv, ViewsInv, Exists, View
  <2>2. \A w \in Views : view'[w].attached => plugin'[view'[w].of].state = plugin[view[w].of].state
    BY <1>5, <2>1
  <2>. QED
    BY <1>1, <2>1, <2>2 DEF IInv, LiveInv
<1>. QED
  BY <1>7, <1>8, <1>9 DEF IInv

\* terminate() sweeps every view of the module, and as long as the registry was
\* never full, with it every window: so the class goes too.
LEMMA TerminateKeeps ==
  ASSUME IInv, NEW p \in Plugins, Terminate(p)
  PROVE  IInv'
<1>1. /\ mapped /\ mapped' /\ Swept \in SUBSET Views
      /\ window' = DestroyWindows(Swept) /\ g_live' = RemoveLive(Swept)
      /\ plugin' = [Released(Swept) EXCEPT ![p].state = "terminated"]
      /\ view' = Detached(Swept) /\ plugin[p].state = "live"
      /\ UNCHANGED <<module, overflowed>> /\ g_class_registered' = FALSE
      /\ class' = IF ClassDropped THEN 0 ELSE class
      /\ view \in [Views -> View]
  BY DEF Terminate, module, IInv, RegistryComplete, TypeOK, Swept
<1>2. /\ view' \in [Views -> View]
      /\ \A v \in Views : v \notin Swept => view'[v] = view[v]
      /\ \A v \in Swept : ~view'[v].attached /\ view'[v].hwnd = 0 /\ view'[v].of = view[v].of
  <2> DEFINE u(v) == [view[v] EXCEPT !.attached = FALSE, !.hwnd = 0]
  <2>1. \A v \in Views : u(v) \in View /\ ~u(v).attached /\ u(v).hwnd = 0 /\ u(v).of = view[v].of
    BY <1>1, DetachedFields
  <2>2. view' = [v \in Views |-> IF v \in Swept /\ view[v].attached THEN u(v) ELSE view[v]]
    BY <1>1 DEF Detached
  <2> HIDE DEF u
  <2>3. view' \in [Views -> View]
    BY <1>1, <2>1, <2>2
  <2>4. \A v \in Views : ~view[v].attached => view[v].hwnd = 0
    BY DEF IInv, ViewsInv
  <2>. QED
    BY <1>1, <2>1, <2>2, <2>3, <2>4
<1>3. /\ plugin' \in [Plugins -> Plugin]
      /\ \A q \in Plugins : /\ plugin'[q].refs = Released(Swept)[q].refs
                            /\ plugin'[q].host = plugin[q].host
                            /\ plugin'[q].state = IF q = p THEN "terminated" ELSE plugin[q].state
  <2>1. /\ Released(Swept) \in [Plugins -> Plugin]
        /\ \A q \in Plugins : /\ Released(Swept)[q].host = plugin[q].host
                              /\ Released(Swept)[q].state = plugin[q].state
    BY <1>1, ReleasedPlugins
  <2> DEFINE R == Released(Swept)  r == [R[p] EXCEPT !.state = "terminated"]
  <2> HIDE DEF R
  <2>2. R \in [Plugins -> Plugin] /\ plugin' = [R EXCEPT ![p] = r] /\ R[p] \in Plugin
    BY <1>1, <2>1 DEF R
  <2>3. r \in Plugin /\ r.refs = R[p].refs /\ r.state = "terminated" /\ r.host = R[p].host
    BY <2>2, PluginFields
  <2> HIDE DEF r
  <2>4. plugin' \in [Plugins -> Plugin] /\ plugin'[p] = r /\ \A q \in Plugins : q # p => plugin'[q] = R[q]
    BY <2>2, <2>3
  <2>. QED
    BY <2>1, <2>3, <2>4 DEF R
<1>4. class' \in {0, class} /\ g_class_registered' \in BOOLEAN
  BY <1>1
<1>5. /\ RegistryComplete' /\ InstancesInv' /\ ViewsInv' /\ WindowsInv' /\ RetainBalanced'
      /\ \A v \in Views : view'[v].attached <=> view[v].attached /\ v \notin Swept
  BY <1>1, <1>2, <1>3, <1>4, DetachingKeeps DEF module
<1>6. ~overflowed => \A v \in Views : ~view'[v].attached
  <2>1. ~overflowed => \A v \in Views : view[v].attached => v \in Swept
    BY <1>1, Win32Constants DEF IInv, RegistryComplete, Swept, Win32Constants
  <2>. QED
    BY <1>5, <2>1
<1>7. ~overflowed => \A w \in Windows : window'[w] = Closed
  BY <1>1, <1>5, <1>6 DEF WindowsInv, Open
<1>8. ClassInv'
  BY <1>1, <1>7 DEF IInv, ClassInv, ClassDropped
<1>9. LiveInv'
  BY <1>1, <1>6 DEF LiveInv
<1>. QED
  BY <1>5, <1>8, <1>9 DEF IInv

-----------------------------------------------------------------------------
(* Attaching                                                               *)

\* After ensure_class_registered() the class, if there is one, is this load's.
LEMMA ClassRegistered ==
  ASSUME IInv, mapped, RegisterClass
  PROVE  /\ class' \in 0 .. MaxLoads /\ g_class_registered' \in BOOLEAN
         /\ ~overflowed /\ class' # 0 => class' = loads /\ g_class_registered'
<1>1. /\ class \in 0 .. MaxLoads /\ loads \in 0 .. MaxLoads /\ g_class_registered \in BOOLEAN
      /\ 0 \in 0 .. MaxLoads
  BY Win32Constants DEF IInv, RegistryComplete, TypeOK, Win32Constants
<1>2. CASE g_class_registered /\ UNCHANGED <<class, g_class_registered>>
  BY <1>1, <1>2 DEF IInv, ClassInv
<1>3. CASE class' = loads /\ g_class_registered' = TRUE
  BY <1>1, <1>3
<1>4. CASE /\ ~g_class_registered /\ UNCHANGED g_class_registered
           /\ class' = IF \A w \in Windows : ~Open(w) THEN 0 ELSE class
  BY <1>1, <1>4 DEF IInv, ClassInv
<1>. QED
  BY <1>2, <1>3, <1>4 DEF RegisterClass

\* An attach that fails changes the class only.
LEMMA AttachFails ==
  ASSUME IInv, mapped, RegisterClass, UNCHANGED <<module, plugin, view, window, g_live, overflowed>>,
         NEW p \in Plugins, plugin[p].state = "live"
  PROVE  IInv'
<1>1. /\ class' \in 0 .. MaxLoads /\ g_class_registered' \in BOOLEAN
      /\ ~overflowed /\ class' # 0 => class' = loads /\ g_class_registered'
  BY ClassRegistered
<1>2. RegistryComplete'
  BY <1>1 DEF IInv, RegistryComplete, TypeOK, module
<1>3. InstancesInv' /\ ViewsInv'
  BY DEF IInv, InstancesInv, ViewsInv, Exists, module
<1>4. WindowsInv'
  BY DEF IInv, WindowsInv, Open, module
<1>5. ClassInv'
  BY <1>1 DEF ClassInv, module
<1>6. LiveInv' /\ RetainBalanced'
  BY DEF IInv, LiveInv, RetainBalanced, module
<1>. QED
  BY <1>2, <1>3, <1>4, <1>5, <1>6 DEF IInv

LEMMA AttachedFields ==
  ASSUME NEW r \in View, NEW w \in Windows
  PROVE  LET q == [r EXCEPT !.attached = TRUE, !.hwnd = w]
         IN  q \in View /\ q.attached /\ q.hwnd = w /\ q.of = r.of
<1> DEFINE q == [r EXCEPT !.attached = TRUE, !.hwnd = w]
<1>1. w \in 0 .. MaxWindows
  BY Win32Constants DEF Win32Constants, Windows
<1>2. q \in View
  BY <1>1 DEF View
<1>3. q.hwnd = w /\ q.of = r.of
  BY DEF View
<1>4. q.attached
  BY DEF View
<1>. QED
  BY <1>2, <1>3, <1>4

LEMMA RetainKeeps ==
  ASSUME IInv, NEW p \in Plugins, plugin' = Retain(p)
  PROVE  /\ plugin' \in [Plugins -> Plugin]
         /\ \A q \in Plugins :
              /\ plugin'[q].state = plugin[q].state /\ plugin'[q].host = plugin[q].host
              /\ plugin'[q].refs = IF q = p /\ Retains THEN plugin[q].refs + 1 ELSE plugin[q].refs
<1> DEFINE n == IF Retains THEN plugin[p].refs + 1 ELSE plugin[p].refs
           r == [plugin[p] EXCEPT !.refs = n]
<1>1. plugin \in [Plugins -> Plugin] /\ plugin[p] \in Plugin
  BY DEF IInv, RegistryComplete, TypeOK
<1>2. n \in Int
  BY <1>1 DEF Plugin
<1>3. plugin' = [plugin EXCEPT ![p] = r]
  BY DEF Retain
<1>4. r \in Plugin /\ r.refs = n /\ r.state = plugin[p].state /\ r.host = plugin[p].host
  <2> HIDE DEF n
  <2>. QED
    BY <1>1, <1>2, PluginFields
<1> HIDE DEF r
<1>5. plugin' \in [Plugins -> Plugin] /\ plugin'[p] = r /\ \A q \in Plugins : q # p => plugin'[q] = plugin[q]
  BY <1>1, <1>3, <1>4
<1>. QED
  BY <1>4, <1>5

LEMMA AttachWorks ==
  ASSUME IInv, NEW v \in Views, mapped, Exists(v), ~view[v].attached,
         plugin[view[v].of].state = "live", RegisterClass, class' # 0,
         NEW w \in Windows, Unused(w),
         window' = [window EXCEPT ![w] = [load |-> class', userdata |-> v]],
         view' = [view EXCEPT ![v].attached = TRUE, ![v].hwnd = w],
         AddLive(v), plugin' = Retain(view[v].of), UNCHANGED module
  PROVE  IInv'
<1> DEFINE p == view[v].of  u == [view[v] EXCEPT !.attached = TRUE, !.hwnd = w]
           x == [load |-> class', userdata |-> v]
<1>1. /\ view \in [Views -> View] /\ window \in [Windows -> Window]
      /\ g_live \in [Slots -> Views \cup {NoView}] /\ NoView \notin Views /\ w # 0
      /\ p \in Plugins /\ overflowed \in BOOLEAN
  BY Win32Constants DEF IInv, RegistryComplete, TypeOK, Win32Constants, View, Exists, Windows
<1>2. /\ class' \in 0 .. MaxLoads /\ g_class_registered' \in BOOLEAN
      /\ ~overflowed => class' = loads /\ g_class_registered'
  BY ClassRegistered
<1>3. u \in View /\ u.attached /\ u.hwnd = w /\ u.of = p
  BY <1>1, AttachedFields
<1>4. view' = [view EXCEPT ![v] = u]
  OBVIOUS
<1>5. x \in Window /\ x.load = class' /\ x.userdata = v
  BY <1>2 DEF Window
<1> HIDE DEF u, x
<1>6. view' \in [Views -> View] /\ view'[v] = u /\ \A t \in Views : t # v => view'[t] = view[t]
  BY <1>1, <1>3, <1>4
<1>7. /\ window' \in [Windows -> Window] /\ window'[w] = x
      /\ \A t \in Windows : t # w => window'[t] = window[t]
  BY <1>1, <1>5 DEF x
<1>8. /\ plugin' \in [Plugins -> Plugin]
      /\ \A q \in Plugins :
           /\ plugin'[q].state = plugin[q].state /\ plugin'[q].host = plugin[q].host
           /\ plugin'[q].refs = IF q = p /\ Retains THEN plugin[q].refs + 1 ELSE plugin[q].refs
  BY <1>1, RetainKeeps
<1>9. /\ \A t \in Views : view[t].hwnd # w
      /\ \A t \in Views : view[t].attached => view[t].of \in Plugins
      /\ \A t \in Views : view'[t].attached <=> view[t].attached \/ t = v
      /\ \A t \in Views : view'[t].of = view[t].of
  BY <1>1, <1>3, <1>6 DEF Unused, IInv, ViewsInv, Exists, View
\* The registry.
<1>10. /\ g_live' \in [Slots -> Views \cup {NoView}] /\ overflowed' \in BOOLEAN
       /\ ~overflowed' => ~overflowed
       /\ \/ g_live' = g_live /\ overflowed' = TRUE
          \/ \E s \in Slots : /\ g_live[s] = NoView /\ g_live'[s] = v
                              /\ \A t \in Slots : t # s => g_live'[t] = g_live[t]
  <2>1. CASE /\ \E s \in Slots : InFreeSlot(s) /\ g_live' = [g_live EXCEPT ![s] = v]
             /\ UNCHANGED overflowed
    BY <1>1, <2>1 DEF InFreeSlot, FreeSlots
  <2>2. CASE g_live' = g_live /\ overflowed' = TRUE
    BY <1>1, <2>2
  <2>. QED
    BY <2>1, <2>2 DEF AddLive
<1>11. TypeOK'
  BY <1>2, <1>6, <1>7, <1>8, <1>10 DEF IInv, RegistryComplete, TypeOK, module
<1>12. RegistryComplete'
  <2>0. \A s \in Slots : g_live[s] # v
    BY <1>1 DEF IInv, RegistryComplete
  <2>1. \A s \in Slots : g_live[s] # NoView => g_live[s] \in Views /\ view[g_live[s]].attached
    BY <1>1 DEF IInv, RegistryComplete
  <2>2. \A s \in Slots : g_live'[s] # NoView => view'[g_live'[s]].attached
    BY <1>3, <1>6, <1>9, <1>10, <2>1
  <2>3. \A s, t \in Slots : g_live'[s] = g_live'[t] /\ g_live'[s] # NoView => s = t
    BY <1>1, <1>10, <2>0 DEF IInv, RegistryComplete
  <2>4. ASSUME ~overflowed', NEW t \in Views, view'[t].attached
        PROVE  \E s \in Slots : g_live'[s] = t
    <3>1. CASE t = v
      BY <1>10, <2>4, <3>1
    <3>2. CASE t # v
      <4>1. PICK s \in Slots : g_live[s] = t
        BY <1>9, <1>10, <2>4, <3>2 DEF IInv, RegistryComplete
      <4>2. g_live'[s] = t
        BY <1>1, <1>10, <4>1
      <4>. QED
        BY <4>2
    <3>. QED
      BY <3>1, <3>2
  <2>. QED
    BY <1>11, <2>2, <2>3, <2>4 DEF RegistryComplete
<1>13. InstancesInv'
  <2>1. mapped' /\ \A q \in Plugins : plugin'[q].state = "live" => plugin'[q].host
    BY <1>8 DEF IInv, InstancesInv, module
  <2>2. \A t \in Views : view[t].of # NoPlugin => view[t].of \in Plugins
    BY <1>1 DEF View
  <2>3. \A t \in Views : view[t].of # NoPlugin => plugin[view[t].of].state # "none"
    BY DEF IInv, InstancesInv, Exists
  <2>4. \A t \in Views : view'[t].of # NoPlugin => plugin'[view'[t].of].state # "none"
    <3>. SUFFICES ASSUME NEW t \in Views, view'[t].of # NoPlugin
                  PROVE  plugin'[view'[t].of].state # "none"
      OBVIOUS
    <3>1. view'[t].of = view[t].of /\ view[t].of \in Plugins /\ plugin[view[t].of].state # "none"
      BY <1>9, <2>2, <2>3
    <3>. QED
      BY <1>8, <3>1
  <2>. QED
    BY <2>1, <2>4 DEF InstancesInv, Exists
<1>14. ViewsInv'
  <2>1. \A t \in Views : view'[t].attached <=> view'[t].hwnd # 0
    BY <1>1, <1>3, <1>6 DEF IInv, ViewsInv
  <2>2. \A t \in Views : view'[t].attached => view'[t].of # NoPlugin
    BY <1>9 DEF IInv, ViewsInv, Exists
  <2>3. \A s, t \in Views : view'[s].attached /\ view'[s].hwnd = view'[t].hwnd => s = t
    BY <1>3, <1>6, <1>9 DEF IInv, ViewsInv
  <2>. QED
    BY <2>1, <2>2, <2>3 DEF ViewsInv, Exists
<1>15. WindowsInv'
  <2>1. \A t \in Windows : ~(window'[t].load # 0) => window'[t] = Closed
    BY <1>5, <1>7 DEF IInv, WindowsInv, Open
  <2>2. ASSUME ~overflowed', NEW t \in Windows, window'[t].load # 0
        PROVE  /\ mapped' /\ window'[t].load = loads' /\ window'[t].userdata \in Views
               /\ view'[window'[t].userdata].attached
               /\ view'[window'[t].userdata].hwnd = t
    <3>1. CASE t = w
      BY <1>2, <1>3, <1>5, <1>6, <1>7, <1>10, <2>2, <3>1 DEF module
    <3>2. CASE t # w
      <4>1. /\ window[t].load = loads /\ window[t].userdata \in Views
            /\ view[window[t].userdata].attached
            /\ view[window[t].userdata].hwnd = t /\ window'[t] = window[t]
        BY <1>7, <1>10, <2>2, <3>2 DEF IInv, WindowsInv, Open
      <4>2. window[t].userdata # v
        BY <4>1
      <4>. QED
        BY <1>6, <4>1, <4>2 DEF module
    <3>. QED
      BY <3>1, <3>2
  <2>. QED
    BY <2>1, <2>2 DEF WindowsInv, Open
<1>16. ClassInv'
  <2>1. plugin'[p].state = "live"
    BY <1>1, <1>8
  <2>. QED
    BY <1>1, <1>2, <1>10, <2>1 DEF ClassInv, module
<1>17. LiveInv'
  <2>1. \A t \in Views : view'[t].attached => plugin'[view'[t].of].state = plugin[view[t].of].state
    BY <1>1, <1>8, <1>9
  <2>2. ASSUME ~overflowed', NEW t \in Views, view'[t].attached
        PROVE  plugin'[view'[t].of].state = "live"
    <3>1. plugin[view[t].of].state = "live"
      <4>1. CASE t = v
        BY <4>1
      <4>2. CASE t # v
        BY <1>9, <1>10, <2>2, <4>2 DEF IInv, LiveInv
      <4>. QED
        BY <4>1, <4>2
    <3>. QED
      BY <2>1, <2>2, <3>1
  <2>. QED
    BY <2>2 DEF LiveInv
<1>18. RetainBalanced'
  <2>1. ASSUME NEW q \in Plugins
        PROVE  plugin'[q].refs = Held(q)'
    <3>1. AttachedTo(q)' = IF q = p THEN AttachedTo(q) \cup {v} ELSE AttachedTo(q)
      BY <1>9 DEF AttachedTo
    <3>2. /\ v \notin AttachedTo(q) /\ IsFiniteSet(AttachedTo(q))
          /\ Cardinality(AttachedTo(q)) \in Nat
      BY AttachedFinite DEF AttachedTo
    <3>3. Cardinality(AttachedTo(q) \cup {v}) = Cardinality(AttachedTo(q)) + 1
      BY <3>2, FS_AddElement
    <3>4. plugin[q].refs = Held(q)
      BY Balance DEF IInv
    <3>5. Cardinality(AttachedTo(q)') = Cardinality(AttachedTo(q)) + (IF q = p THEN 1 ELSE 0)
      BY <3>1, <3>2, <3>3
    <3>6. CASE Retains
      BY <1>8, <3>2, <3>4, <3>5, <3>6 DEF Held
    <3>7. CASE ~Retains
      BY <1>8, <3>4, <3>7 DEF Held
    <3>. QED
      BY <3>6, <3>7
  <2>. QED
    BY <2>1 DEF RetainBalanced, Held, AttachedTo
<1>. QED
  BY <1>12, <1>13, <1>14, <1>15, <1>16, <1>17, <1>18 DEF IInv

LEMMA AttachKeeps ==
  ASSUME IInv, NEW v \in Views, Attach(v)
  PROVE  IInv'
<1> DEFINE p == view[v].of
<1>1. /\ mapped /\ Exists(v) /\ ~view[v].attached /\ plugin[p].state = "live"
      /\ RegisterClass /\ UNCHANGED module
  BY DEF Attach
<1>2. p \in Plugins
  BY <1>1 DEF IInv, RegistryComplete, TypeOK, View, Exists
<1>3. CASE plugin' = Untouched(p) /\ UNCHANGED <<view, window, g_live, overflowed>>
  BY <1>1, <1>2, <1>3, AttachFails DEF Untouched
<1>4. CASE /\ class' # 0
           /\ \E w \in Windows :
                /\ Unused(w) /\ \A u \in 1 .. w - 1 : ~Unused(u)
                /\ window' = [window EXCEPT ![w] = [load |-> class', userdata |-> v]]
                /\ view' = [view EXCEPT ![v].attached = TRUE, ![v].hwnd = w]
           /\ AddLive(v)
           /\ plugin' = Retain(p)
  BY <1>1, <1>4, AttachWorks
<1>. QED
  BY <1>3, <1>4 DEF Attach

-----------------------------------------------------------------------------
(* The module and its instances                                            *)

LEMMA InitInv == Init => IInv
<1>. SUFFICES ASSUME Init PROVE IInv
  OBVIOUS
<1>1. /\ NotCreated \in Plugin /\ Unmade \in View /\ Closed \in Window /\ 0 \in 0 .. MaxLoads
      /\ ~Unmade.attached /\ Unmade.hwnd = 0 /\ Unmade.of = NoPlugin
      /\ Closed.load = 0 /\ NotCreated.state = "none"
  BY Win32Constants DEF Win32Constants, NotCreated, Plugin, Unmade, View, Closed, Window
<1>2. TypeOK
  BY <1>1 DEF Init, TypeOK
<1>3. RegistryComplete
  BY <1>2 DEF Init, RegistryComplete
<1>4. /\ \A v \in Views : view[v] = Unmade
      /\ \A w \in Windows : window[w] = Closed
      /\ \A p \in Plugins : plugin[p] = NotCreated
      /\ ~mapped /\ class = 0
  BY DEF Init
<1>5. InstancesInv /\ ViewsInv
  BY <1>1, <1>4 DEF InstancesInv, ViewsInv, Exists
<1>6. WindowsInv
  BY <1>1, <1>4 DEF WindowsInv, Open
<1>7. ClassInv /\ LiveInv /\ RetainBalanced
  BY <1>1, <1>4 DEF ClassInv, LiveInv, RetainBalanced
<1>. QED
  BY <1>3, <1>5, <1>6, <1>7 DEF IInv

\* Nothing is attached while the module is not mapped.
LEMMA NothingUnmapped ==
  ASSUME IInv, ~mapped
  PROVE  /\ \A v \in Views : view[v] = Unmade /\ ~view[v].attached /\ view[v].of = NoPlugin
         /\ \A p \in Plugins : /\ plugin[p] = NotCreated /\ ~plugin[p].host
                               /\ plugin[p].refs = 0 /\ plugin[p].state = "none"
         /\ \A p \in Plugins : AttachedTo(p) = {} /\ Held(p) = 0
<1>0. ~Unmade.attached /\ Unmade.of = NoPlugin
  BY DEF Unmade
<1>1. \A v \in Views : view[v] = Unmade /\ ~view[v].attached /\ view[v].of = NoPlugin
  BY <1>0 DEF IInv, InstancesInv
<1>2. \A p \in Plugins : /\ plugin[p] = NotCreated /\ ~plugin[p].host
                         /\ plugin[p].refs = 0 /\ plugin[p].state = "none"
  BY DEF IInv, InstancesInv, NotCreated
<1>3. \A p \in Plugins : AttachedTo(p) = {}
  BY <1>1 DEF AttachedTo
<1>4. \A p \in Plugins : Held(p) = 0
  BY <1>2, <1>3, FS_EmptySet DEF Held
<1>. QED
  BY <1>1, <1>2, <1>3, <1>4

LEMMA LoadKeeps ==
  ASSUME IInv, Load
  PROVE  IInv'
<1>1. /\ ~mapped /\ mapped' = TRUE /\ loads' = loads + 1 /\ loads < MaxLoads
      /\ g_live' = [s \in Slots |-> NoView] /\ g_class_registered' = FALSE
      /\ UNCHANGED <<plugin, view, window, class, overflowed>>
  BY DEF Load, FreshModule
<1>2. /\ \A v \in Views : ~view[v].attached /\ view[v].of = NoPlugin
      /\ \A p \in Plugins : plugin[p].refs = Held(p) /\ plugin[p].state = "none"
  BY <1>1, NothingUnmapped
<1>3. TypeOK'
  <2>1. loads' \in 0 .. MaxLoads
    BY <1>1, Win32Constants DEF Win32Constants, IInv, RegistryComplete, TypeOK
  <2>. QED
    BY <1>1, <2>1 DEF IInv, RegistryComplete, TypeOK
<1>4. RegistryComplete'
  BY <1>1, <1>2, <1>3 DEF RegistryComplete
<1>5. InstancesInv'
  BY <1>1, <1>2 DEF InstancesInv, Exists
<1>6. ViewsInv'
  BY <1>1 DEF IInv, ViewsInv, Exists
<1>7. WindowsInv'
  BY <1>1 DEF IInv, WindowsInv, Open
<1>8. ClassInv' /\ LiveInv'
  BY <1>1, <1>2 DEF IInv, ClassInv, LiveInv
<1>9. RetainBalanced'
  BY <1>1, <1>2 DEF RetainBalanced, Held, AttachedTo
<1>. QED
  BY <1>4, <1>5, <1>6, <1>7, <1>8, <1>9 DEF IInv

\* The module goes when the host has given every instance back; by then, unless
\* the registry was full, no view is attached and there is no class.
LEMMA UnloadKeeps ==
  ASSUME IInv, Unload
  PROVE  IInv'
<1>1. /\ mapped /\ mapped' = FALSE /\ \A p \in Plugins : ~plugin[p].host
      /\ plugin' = [p \in Plugins |-> NotCreated] /\ view' = [v \in Views |-> Unmade]
      /\ UNCHANGED <<loads, window, class, kit, overflowed>>
  BY DEF Unload
<1>2. \A p \in Plugins : plugin[p].state # "live"
  BY <1>1 DEF IInv, InstancesInv
<1>3. ~overflowed => \A v \in Views : ~view[v].attached
  BY <1>2 DEF IInv, LiveInv, ViewsInv, Exists, RegistryComplete, TypeOK, View
<1>4. /\ NotCreated \in Plugin /\ Unmade \in View
      /\ ~Unmade.attached /\ Unmade.hwnd = 0 /\ Unmade.of = NoPlugin
      /\ NotCreated.state = "none"
  BY Win32Constants DEF Win32Constants, NotCreated, Plugin, Unmade, View
<1>5. TypeOK'
  BY <1>1, <1>4 DEF IInv, RegistryComplete, TypeOK, kit
<1>6. RegistryComplete'
  BY <1>1, <1>5 DEF RegistryComplete
<1>7. /\ \A v \in Views : view'[v] = Unmade
      /\ \A p \in Plugins : plugin'[p] = NotCreated
  BY <1>1
<1>8. InstancesInv' /\ ViewsInv'
  BY <1>4, <1>7 DEF InstancesInv, ViewsInv, Exists
<1>9. WindowsInv'
  BY <1>1, <1>3 DEF IInv, WindowsInv, Open
<1>10. ClassInv'
  BY <1>1, <1>2 DEF IInv, ClassInv
<1>11. LiveInv' /\ RetainBalanced'
  BY <1>1, <1>4, <1>7 DEF LiveInv, RetainBalanced
<1>. QED
  BY <1>6, <1>8, <1>9, <1>10, <1>11 DEF IInv

\* An instance is created, or the host gives its reference to one back.
LEMMA InstanceKeeps ==
  ASSUME IInv, NEW p \in Plugins, NEW r \in Plugin, mapped,
         plugin' = [plugin EXCEPT ![p] = r],
         r.state = "live" => r.host,
         plugin[p].state # "none" => r.state # "none",
         plugin[p].state = "live" => r.state = "live",
         r.refs - (IF r.host THEN 1 ELSE 0) = plugin[p].refs - (IF plugin[p].host THEN 1 ELSE 0),
         UNCHANGED <<module, view, window, class, kit, overflowed>>
  PROVE  IInv'
<1>1. /\ plugin \in [Plugins -> Plugin] /\ plugin' \in [Plugins -> Plugin]
      /\ plugin'[p] = r /\ \A q \in Plugins : q # p => plugin'[q] = plugin[q]
  BY DEF IInv, RegistryComplete, TypeOK
<1>2. RegistryComplete'
  BY <1>1 DEF IInv, RegistryComplete, TypeOK, module, kit
<1>3. \A v \in Views : view[v].of # NoPlugin => view[v].of \in Plugins
  BY DEF IInv, RegistryComplete, TypeOK, View
<1>4. InstancesInv'
  <2>1. \A q \in Plugins : plugin'[q].state = "live" => plugin'[q].host
    BY <1>1 DEF IInv, InstancesInv
  <2>2. \A q \in Plugins : plugin[q].state # "none" => plugin'[q].state # "none"
    BY <1>1
  <2>3. \A v \in Views : view[v].of # NoPlugin => plugin'[view[v].of].state # "none"
    BY <1>3, <2>2 DEF IInv, InstancesInv, Exists
  <2>. QED
    BY <2>1, <2>3 DEF InstancesInv, Exists, module
<1>5. ViewsInv'
  BY DEF IInv, ViewsInv, Exists
<1>6. WindowsInv'
  BY DEF IInv, WindowsInv, Open, module
<1>7. \A q \in Plugins : plugin[q].state = "live" => plugin'[q].state = "live"
  BY <1>1
<1>8. ClassInv'
  BY <1>7 DEF IInv, ClassInv, module, kit
<1>9. LiveInv'
  <2>1. \A v \in Views : view[v].attached => view[v].of \in Plugins
    BY <1>3 DEF IInv, ViewsInv, Exists
  <2>. QED
    BY <1>7, <2>1 DEF IInv, LiveInv
<1>10. RetainBalanced'
  <2>1. ASSUME NEW q \in Plugins
        PROVE  plugin'[q].refs = Held(q)'
    <3>1. /\ AttachedTo(q)' = AttachedTo(q) /\ plugin[q].refs = Held(q)
          /\ Cardinality(AttachedTo(q)) \in Nat
      BY Balance, AttachedFinite DEF AttachedTo, IInv
    <3>2. CASE q # p
      BY <1>1, <3>1, <3>2 DEF Held
    <3>3. CASE q = p
      <4>1. plugin'[q].refs \in Int /\ plugin[q].refs \in Int
        BY <1>1 DEF Plugin
      <4>. QED
        BY <1>1, <3>1, <3>3, <4>1 DEF Held
    <3>. QED
      BY <3>2, <3>3
  <2>. QED
    BY <2>1 DEF RetainBalanced, Held, AttachedTo
<1>. QED
  BY <1>2, <1>4, <1>5, <1>6, <1>8, <1>9, <1>10 DEF IInv

LEMMA CreateKeeps ==
  ASSUME IInv, NEW p \in Plugins, Create(p)
  PROVE  IInv'
<1>1. PICK ui \in BOOLEAN : plugin' = [plugin EXCEPT ![p] = Initialized(ui)]
  BY DEF Create
<1> DEFINE r == Initialized(ui)
<1>2. r \in Plugin /\ r.state = "live" /\ r.host /\ r.refs = 1
  BY DEF Initialized, Plugin
<1> HIDE DEF r
<1>3. /\ mapped /\ plugin[p].state = "none" /\ plugin' = [plugin EXCEPT ![p] = r]
      /\ UNCHANGED <<module, view, window, class, kit, overflowed>>
  BY <1>1 DEF Create, r
<1>4. AttachedTo(p) = {}
  BY <1>3 DEF AttachedTo, IInv, InstancesInv, ViewsInv
<1>5. plugin[p].refs - (IF plugin[p].host THEN 1 ELSE 0) = 0
  <2>1. plugin[p].refs = Held(p)
    BY <1>3, Balance DEF IInv
  <2>2. Cardinality(AttachedTo(p)) = 0
    BY <1>4, FS_EmptySet
  <2>3. Held(p) = IF plugin[p].host THEN 1 ELSE 0
    BY <2>2 DEF Held
  <2>. QED
    BY <2>1, <2>3
<1>6. r.refs - (IF r.host THEN 1 ELSE 0) = 0
  BY <1>2
<1>. QED
  BY <1>2, <1>3, <1>5, <1>6, InstanceKeeps

LEMMA ReleasePluginKeeps ==
  ASSUME IInv, NEW p \in Plugins, ReleasePlugin(p)
  PROVE  IInv'
<1> DEFINE r == [plugin[p] EXCEPT !.host = FALSE, !.refs = plugin[p].refs - 1]
<1>1. /\ mapped /\ plugin[p].state = "terminated" /\ plugin[p].host
      /\ plugin' = [plugin EXCEPT ![p] = r] /\ plugin[p] \in Plugin
      /\ UNCHANGED <<module, view, window, class, kit, overflowed>>
  BY DEF ReleasePlugin, IInv, RegistryComplete, TypeOK
<1>2. plugin[p].refs \in Int /\ plugin[p].refs - 1 \in Int
  BY <1>1 DEF Plugin
<1>3. r \in Plugin
  BY <1>1, <1>2 DEF Plugin
<1>4. r.state = "terminated" /\ r.refs = plugin[p].refs - 1
  BY <1>1 DEF Plugin
<1>5. ~r.host
  BY <1>1 DEF Plugin
<1> HIDE DEF r
<1>6. r.refs - (IF r.host THEN 1 ELSE 0) = plugin[p].refs - (IF plugin[p].host THEN 1 ELSE 0)
  BY <1>1, <1>2, <1>4, <1>5
<1>. QED
  BY <1>1, <1>3, <1>4, <1>5, <1>6, InstanceKeeps

LEMMA GetViewKeeps ==
  ASSUME IInv, NEW p \in Plugins, NEW v \in Views, GetView(p, v)
  PROVE  IInv'
<1> DEFINE u == [Unmade EXCEPT !.of = p]
<1>1. /\ mapped /\ plugin[p].state = "live" /\ view[v].of = NoPlugin
      /\ view' = [view EXCEPT ![v] = u] /\ view \in [Views -> View]
      /\ UNCHANGED <<module, plugin, window, class, kit, overflowed>>
  BY DEF GetView, Exists, IInv, RegistryComplete, TypeOK
<1>2. u \in View /\ ~u.attached /\ u.hwnd = 0 /\ u.of = p
  <2>1. Unmade \in View /\ ~Unmade.attached /\ Unmade.hwnd = 0
    BY Win32Constants DEF Unmade, View, Win32Constants
  <2>2. u \in View /\ u.attached = Unmade.attached /\ u.hwnd = Unmade.hwnd /\ u.of = p
    BY <2>1 DEF View
  <2>. QED
    BY <2>1, <2>2
<1> HIDE DEF u
<1>3. view' \in [Views -> View] /\ view'[v] = u /\ \A t \in Views : t # v => view'[t] = view[t]
  BY <1>1, <1>2
<1>4. ~view[v].attached
  BY <1>1 DEF IInv, ViewsInv, Exists
<1>5. \A t \in Views : /\ view'[t].attached <=> view[t].attached
                       /\ view[t].attached => view'[t] = view[t]
                       /\ view'[t].hwnd = view[t].hwnd
  BY <1>1, <1>2, <1>3, <1>4 DEF IInv, ViewsInv
<1>6. RegistryComplete'
  <2>1. TypeOK'
    BY <1>1, <1>3 DEF IInv, RegistryComplete, TypeOK, module, kit
  <2>2. \A s \in Slots : g_live[s] # NoView => g_live[s] \in Views
    BY DEF IInv, RegistryComplete, TypeOK
  <2>. QED
    BY <1>1, <1>5, <2>1, <2>2 DEF IInv, RegistryComplete, module, kit
<1>7. InstancesInv'
  BY <1>1, <1>2, <1>3 DEF IInv, InstancesInv, Exists, module
<1>8. ViewsInv'
  BY <1>5 DEF IInv, ViewsInv, Exists
<1>9. WindowsInv'
  BY <1>1, <1>5 DEF IInv, WindowsInv, Open, module
<1>10. ClassInv' /\ LiveInv'
  BY <1>1, <1>5 DEF IInv, ClassInv, LiveInv, module, kit
<1>11. RetainBalanced'
  <2>1. \A q : AttachedTo(q)' = AttachedTo(q)
    BY <1>5 DEF AttachedTo
  <2>2. \A q \in Plugins : Held(q)' = Held(q)
    BY <1>1, <2>1 DEF Held
  <2>3. \A q \in Plugins : plugin'[q].refs = Held(q)'
    BY <1>1, <2>2, Balance DEF IInv
  <2>. QED
    BY <2>3 DEF RetainBalanced, Held, AttachedTo
<1>. QED
  BY <1>6, <1>7, <1>8, <1>9, <1>10, <1>11 DEF IInv

LEMMA CloseKeeps ==
  ASSUME IInv, NEW w \in Windows, CloseContainer(w)
  PROVE  IInv'
<1>1. /\ window' = [window EXCEPT ![w] = Closed] /\ window \in [Windows -> Window]
      /\ UNCHANGED <<module, plugin, view, class, kit, overflowed>>
  BY DEF CloseContainer, IInv, RegistryComplete, TypeOK
<1>2. Closed \in Window /\ Closed.load = 0
  BY Win32Constants DEF Closed, Window, Win32Constants
<1>3. /\ window' \in [Windows -> Window] /\ window'[w] = Closed
      /\ \A t \in Windows : t # w => window'[t] = window[t]
  BY <1>1, <1>2
<1>4. RegistryComplete'
  BY <1>1, <1>3 DEF IInv, RegistryComplete, TypeOK, module, kit
<1>5. InstancesInv' /\ ViewsInv'
  BY <1>1 DEF IInv, InstancesInv, ViewsInv, Exists, module
<1>6. WindowsInv'
  BY <1>1, <1>2, <1>3 DEF IInv, WindowsInv, Open, module
<1>7. ClassInv' /\ LiveInv' /\ RetainBalanced'
  BY <1>1 DEF IInv, ClassInv, LiveInv, RetainBalanced, module, kit
<1>. QED
  BY <1>4, <1>5, <1>6, <1>7 DEF IInv

LEMMA NextInv == IInv /\ [Next]_vars => IInv'
<1>. SUFFICES ASSUME IInv, [Next]_vars PROVE IInv'
  OBVIOUS
<1>1. CASE UNCHANGED vars
  BY <1>1 DEF vars, module, kit, IInv, RegistryComplete, TypeOK, InstancesInv, ViewsInv, Exists,
              WindowsInv, Open, ClassInv, LiveInv, RetainBalanced
<1>2. CASE Load \/ Unload
  BY <1>2, LoadKeeps, UnloadKeeps
<1>3. CASE \E p \in Plugins : Create(p) \/ Terminate(p) \/ ReleasePlugin(p)
  BY <1>3, CreateKeeps, TerminateKeeps, ReleasePluginKeeps
<1>4. CASE \E p \in Plugins, v \in Views : GetView(p, v)
  BY <1>4, GetViewKeeps
<1>5. CASE \E v \in Views : Attach(v) \/ Detach(v) \/ Release(v)
  BY <1>5, AttachKeeps, DetachKeeps, ReleaseKeeps
<1>6. CASE \E w \in Windows : CloseContainer(w)
  BY <1>6, CloseKeeps
<1>. QED
  BY <1>1, <1>2, <1>3, <1>4, <1>5, <1>6 DEF Next

\* Views, windows, registry, references and class agree after every call of the
\* kit.
THEOREM AlwaysIInv == Spec => []IInv
<1>. QED
  BY InitInv, NextInv, PTL DEF Spec

-----------------------------------------------------------------------------
(* What follows                                                            *)

\* The registry holds just the attached views, each once, until it was full: so
\* a shutdown's sweep passes none by.
THEOREM RegistryAlwaysComplete == Spec => []RegistryComplete
<1>1. IInv => RegistryComplete
  BY DEF IInv
<1>. QED
  BY <1>1, AlwaysIInv, PTL

\* Unless a view found the registry full, no window and no class outlive the
\* module whose code they would call, even if the host never detached.
THEOREM NothingLeftBehind == Spec => []NothingOutlivesModule
<1>1. IInv => NothingOutlivesModule
  BY DEF IInv, NothingOutlivesModule, GoneBeforeUnload, WindowsInv, ClassInv
<1>. QED
  BY <1>1, AlwaysIInv, PTL

\* What paints is a plugin that still exists, through the view attached to just
\* that window; references are balanced whatever the order of attaches, sweeps
\* and releases.
THEOREM PaintersLive == Spec => []PaintsLivePlugins
<1>1. IInv => PaintsLivePlugins
  <2>. SUFFICES ASSUME IInv, ~overflowed, NEW w \in Windows, Open(w)
                PROVE  /\ PaintedView(w) \in Views
                       /\ LET v == view[PaintedView(w)]
                          IN  v.attached /\ v.hwnd = w /\ plugin[Painter(v)].refs > 0
    BY DEF PaintsLivePlugins, IInv
  <2> DEFINE v == PaintedView(w)  p == view[v].of
  <2>1. v \in Views /\ view[v].attached /\ view[v].hwnd = w /\ mapped
    BY DEF IInv, WindowsInv, PaintedView
  <2>2. p \in Plugins
    BY <2>1 DEF IInv, ViewsInv, Exists, RegistryComplete, TypeOK, View
  <2>3. plugin[p].host
    BY <2>1, <2>2 DEF IInv, LiveInv, InstancesInv
  <2>4. plugin[p].refs = Held(p) /\ Cardinality(AttachedTo(p)) \in Nat
    BY <2>1, <2>2, Balance, AttachedFinite DEF IInv
  <2>5. plugin[p].refs > 0
    BY <2>3, <2>4 DEF Held
  <2>. QED
    BY <2>1, <2>5 DEF Painter
<1>. QED
  BY <1>1, AlwaysIInv, PTL

=============================================================================
