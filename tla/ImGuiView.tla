------------------------------ MODULE ImGuiView ------------------------------
(***************************************************************************)
(* The ImGui adapter kit (adapters/imgui/pi_imgui_view.cpp) in a host that *)
(* may use Dear ImGui itself: views, each with a child window, a D3D11     *)
(* device and an ImGui context, and the one current context all share.     *)
(*                                                                         *)
(* Everything runs on the host's GUI thread.  A draw callback may run the  *)
(* host's message loop (a modal dialog), so while one view draws, messages *)
(* arrive and the host attaches, draws, resizes, detaches and releases     *)
(* views, the drawing one among them: no slot asks whether it draws.  The  *)
(* context of a view that is taken down under its own frames is gone, and  *)
(* the model stops where the code would go on to use it.                   *)
(***************************************************************************)
EXTENDS ImGuiBackends, Sequences, FiniteSets

CONSTANTS
  Views,              \* addresses of views, and names of their contexts
  Host, NoContext,
  Gone,               \* a context that has been destroyed, or its view
  Counts,             \* vertices, and indices, of a frame
  MaxDepth,           \* draw callbacks on the stack
  MaxFailures         \* bound on D3D calls that fail once the view is attached

ASSUME ImGuiConstants ==
  /\ IsFiniteSet(Views) /\ NoWindow \notin Views
  /\ Host \notin Views /\ NoContext \notin Views \cup {Host}
  /\ Gone \notin Views \cup {Host, NoContext}
  /\ Counts \subseteq Nat \ {0}
  /\ MaxDepth \in Nat \ {0} /\ MaxFailures \in Nat

VARIABLES
  hostsOwn,           \* what the host last made current itself
  current,            \* ImGui's current context
  frames,             \* the draw callbacks that run, each with what it replaced
  view,               \* what each view says of itself
  d3d,                \* what it and its renderer backend hold
  platform,           \* the platform backends, the host's among them
  window, class,      \* the windows and window classes the system has
  down,               \* the buttons of the mouse that are held
  capture,            \* the window that has the mouse
  capturer,           \* history: the context that took it, while it hears all
  retains,            \* retain calls not yet given back
  failures,           \* D3D calls that failed
  refused,            \* history: views whose last attach failed
  drawn               \* history: what the last frame of a view drew

lists == <<hostsOwn, frames>>
system == <<window, class>>
mouse == <<down, capture, capturer>>
history == <<failures, refused, drawn>>
vars == <<lists, current, view, d3d, platform, system, mouse, retains, history>>

Contexts == Views \cup {Host}
Frame == [view : Views \cup {Gone}, previous : Contexts \cup {NoContext, Gone}]
View == [exists : BOOLEAN, attached : BOOLEAN, hwnd : BOOLEAN, imguiCtx : BOOLEAN]
Unmade == [exists |-> FALSE, attached |-> FALSE, hwnd |-> FALSE, imguiCtx |-> FALSE]
New == [Unmade EXCEPT !.exists = TRUE]
Attached == [exists |-> TRUE, attached |-> TRUE, hwnd |-> TRUE, imguiCtx |-> TRUE]
Undrawn == 0

TypeOK ==
  /\ hostsOwn \in {NoContext, Host}
  /\ current \in Contexts \cup {NoContext, Gone}
  /\ frames \in Seq(Frame)
  /\ view \in [Views -> View]
  /\ d3d \in [Views -> D3D]
  /\ platform \in [Contexts -> Platform(Contexts)]
  /\ window \subseteq Views
  /\ class \subseteq Views
  /\ down \subseteq MouseButtons
  /\ capture \in Views \cup {NoWindow}
  /\ capturer \in Contexts \cup {NoContext}
  /\ retains \in [Views -> Int]
  /\ failures \in 0 .. MaxFailures
  /\ refused \subseteq Views
  /\ drawn \in [Views -> Counts \cup {Undrawn}]

Init ==
  /\ hostsOwn = NoContext
  /\ current = NoContext
  /\ frames = <<>>
  /\ view = [v \in Views |-> Unmade]
  /\ d3d = [v \in Views |-> Nothing]
  /\ \E hosted \in {NoPlatform, Win32Init(Host)} :
       platform = [c \in Contexts |-> IF c = Host THEN hosted ELSE NoPlatform]
  /\ window = {}
  /\ class = {}
  /\ down = {}
  /\ capture = NoWindow
  /\ capturer = NoContext
  /\ retains = [v \in Views |-> 0]
  /\ failures = 0
  /\ refused = {}
  /\ drawn = [v \in Views |-> Undrawn]

\* A call that may fail does so while the bound allows it.
Fails(failed) ==
  /\ failed => failures < MaxFailures
  /\ failures' = failures + IF failed THEN 1 ELSE 0

\* The host makes its own context current, or none, between its calls.
HostSwitches(c) ==
  /\ frames = <<>>
  /\ hostsOwn' = c
  /\ current' = c
  /\ UNCHANGED <<frames, view, d3d, platform, system, mouse, retains, history>>

-----------------------------------------------------------------------------
(* Making and taking down a view's resources                               *)

\* A class left by an earlier attach at this address is dropped and registered
\* again; registering may fail for the system's reasons.
RegisterClass(v) ==
  {class \cup {v}, class \ {v}}

\* One after the other, as far as it gets: no class; no window; no device, by
\* hardware or software, which takes the window back.
ResourcesRefused(v) ==
  /\ class' \in RegisterClass(v)
  /\ UNCHANGED <<window, view, d3d, platform>>

\* Device, context and chain come together, the target may not.  The contexts
\* and backends are made with the view's context current.
ResourcesMade(v) ==
  /\ class' = class \cup {v}
  /\ window' = window \cup {v}
  /\ \E target \in SUBSET {"target"} :
       /\ Fails(target = {})
       /\ d3d' = [d3d EXCEPT ![v] =
                    DX11Init(Make(@, {"device", "context", "chain"} \cup target))]
  /\ platform' = [platform EXCEPT ![v] = Win32Init(v)]
  /\ view' = [view EXCEPT ![v] = Attached]

\* ImGui makes a new context current only if there was none; create_resources
\* saved what was current before that.
KeepsOwn(previous, v) == v
Restored(previous, v) == previous

\* ShutDown is destroy_resources(): nothing when there is no window; else the
\* backends and the context, the D3D objects, the window and its class.  The
\* capture goes with the window, and whoever held the context holds one that is
\* gone.
UnregisterClass(v) == class \ {v}

Forget(c, v) == IF c = v THEN Gone ELSE c

ReleaseD3D(v) == Drop(DX11Shutdown(d3d[v]), ViewObjects)

ShutDown(v) ==
  /\ window' = window \ {v}
  /\ class' = IF view[v].hwnd THEN UnregisterClass(v) ELSE class
  /\ d3d' = IF view[v].hwnd THEN [d3d EXCEPT ![v] = ReleaseD3D(v)] ELSE d3d
  /\ platform' = [platform EXCEPT ![v] = NoPlatform]
  /\ capture' = IF capture = v THEN NoWindow ELSE capture
  /\ capturer' = IF capture = v \/ capturer = v THEN NoContext ELSE capturer
  /\ current' = Forget(Restored(current, v), v)
  /\ frames' = [i \in 1 .. Len(frames) |->
                  [view |-> Forget(frames[i].view, v),
                   previous |-> Forget(frames[i].previous, v)]]
  /\ drawn' = [drawn EXCEPT ![v] = Undrawn]

-----------------------------------------------------------------------------
(* The slots of the view                                                   *)

Create(v) ==
  /\ ~view[v].exists
  /\ view' = [view EXCEPT ![v] = New]
  /\ UNCHANGED <<lists, current, d3d, platform, system, mouse, retains, history>>

Attach(v) ==
  /\ view[v].exists
  /\ ~view[v].attached
  /\ \/ /\ ResourcesMade(v)
        /\ retains' = [retains EXCEPT ![v] = @ + 1]
        /\ refused' = refused \ {v}
        /\ current' = Restored(current, v)
     \/ /\ ResourcesRefused(v)
        /\ refused' = refused \cup {v}
        /\ UNCHANGED <<retains, current, failures>>
  /\ UNCHANGED <<lists, mouse, drawn>>

\* The plugin is released before its resources go.
GivenBack(v) == IF view[v].attached THEN [retains EXCEPT ![v] = @ - 1] ELSE retains

Detach(v) ==
  /\ view[v].attached
  /\ retains' = GivenBack(v)
  /\ ShutDown(v)
  /\ view' = [view EXCEPT ![v] = New]
  /\ UNCHANGED <<hostsOwn, down, failures, refused>>

\* The last reference: whatever is still alive is torn down.
Release(v) ==
  /\ view[v].exists
  /\ retains' = GivenBack(v)
  /\ ShutDown(v)
  /\ view' = [view EXCEPT ![v] = Unmade]
  /\ UNCHANGED <<hostsOwn, down, failures, refused>>

\* on_idle(): the view's context is made current around a frame, in whose
\* middle the plugin's draw callback runs.  A view may be idled again under its
\* own frame: ImGui objects with an assertion, in a build that has them.
BeginFrame(v) ==
  /\ view[v].attached /\ view[v].imguiCtx
  /\ Len(frames) < MaxDepth
  /\ frames' = Append(frames, [view |-> v, previous |-> current])
  /\ current' = v
  /\ \E d \in DX11NewFrame(d3d[v]) :
       /\ Fails("vs" \notin d3d[v].held /\ ~Shaders \subseteq d.held)
       /\ d3d' = [d3d EXCEPT ![v] = d]
  /\ drawn' = [drawn EXCEPT ![v] = Undrawn]
  /\ UNCHANGED <<hostsOwn, view, platform, system, mouse, retains,
                 refused>>

\* The frame goes on with the view's device and target, which must be there.
EndFrame ==
  /\ frames # <<>>
  /\ frames[Len(frames)].view # Gone
  /\ LET frame == frames[Len(frames)]
         v == frame.view
     IN  /\ \E count \in Counts : \E r \in RenderDrawData(d3d[v], count) :
              /\ Fails(~r.ok)
              /\ d3d' = [d3d EXCEPT ![v] = r.d3d]
              /\ drawn' = [drawn EXCEPT ![v] = IF r.ok THEN count ELSE Undrawn]
         /\ current' = Restored(frame.previous, v)
  /\ frames' = SubSeq(frames, 1, Len(frames) - 1)
  /\ UNCHANGED <<hostsOwn, view, platform, system, mouse, retains,
                 refused>>

-----------------------------------------------------------------------------
(* Messages to a view's window                                             *)

\* on_resize() resizes the window, whose WM_SIZE has the target made anew.
ResizeBackbuffer(v) ==
  /\ v \in window
  /\ \E target \in SUBSET {"target"} :
       /\ Fails(target = {})
       /\ d3d' = [d3d EXCEPT ![v] = Make(Drop(@, {"target"}), target)]
  /\ UNCHANGED <<lists, current, view, platform, system, mouse, retains,
                 refused, drawn>>

\* The window's messages are handed to the backend of the context that is
\* current when they are dispatched, which must be there.
Handler(v) == current

Receives(v) ==
  /\ v \in window
  /\ current # Gone
  /\ capture \in {NoWindow, v}
  /\ UNCHANGED <<lists, current, view, d3d, system, retains,
                 failures, refused, drawn>>

\* A button that another context hears, or none, is lost to the one that took
\* the mouse.
StillHears(c) == IF capturer = c THEN capturer ELSE NoContext
Hears(c) == c # NoContext /\ HasBackend(platform[c])

Press(v, button) ==
  /\ Receives(v)
  /\ button \notin down
  /\ down' = down \cup {button}
  /\ IF Hears(Handler(v))
       THEN LET p == platform[Handler(v)]
                took == CapturesAtPress(p, v, capture)
            IN  /\ platform' = [platform EXCEPT ![Handler(v)] =
                                  Pressed(p, v, button, capture)]
                /\ capture' = IF took THEN v ELSE capture
                /\ capturer' = IF took THEN Handler(v) ELSE StillHears(Handler(v))
       ELSE /\ capturer' = NoContext
            /\ UNCHANGED <<platform, capture>>

LetGo(v, button) ==
  /\ Receives(v)
  /\ button \in down
  /\ down' = down \ {button}
  /\ IF Hears(Handler(v))
       THEN LET p == platform[Handler(v)]
                gave == ReleasesCapture(p, v, button, capture)
            IN  /\ platform' = [platform EXCEPT ![Handler(v)] = Unpressed(p, button)]
                /\ capture' = IF gave THEN NoWindow ELSE capture
                /\ capturer' = IF gave THEN NoContext ELSE StillHears(Handler(v))
       ELSE /\ capturer' = NoContext
            /\ UNCHANGED <<platform, capture>>

\* Another window takes the mouse.
LoseCapture ==
  /\ capture # NoWindow
  /\ capture' = NoWindow
  /\ capturer' = NoContext
  /\ UNCHANGED <<lists, current, view, d3d, platform, system, down, retains, history>>

\* While no view's window has the mouse, other windows see its buttons.
ButtonsElsewhere(buttons) ==
  /\ capture = NoWindow
  /\ down' = buttons
  /\ UNCHANGED <<lists, current, view, d3d, platform, system, capture, capturer,
                 retains, history>>

-----------------------------------------------------------------------------
Next ==
  \/ \E c \in {NoContext, Host} : HostSwitches(c)
  \/ EndFrame
  \/ LoseCapture
  \/ \E buttons \in SUBSET MouseButtons : ButtonsElsewhere(buttons)
  \/ \E v \in Views :
       \/ Create(v) \/ Release(v)
       \/ Attach(v) \/ Detach(v)
       \/ BeginFrame(v)
       \/ ResizeBackbuffer(v)
       \/ \E button \in MouseButtons : Press(v, button) \/ LetGo(v, button)

Spec == Init /\ [][Next]_vars

-----------------------------------------------------------------------------
(* Properties                                                              *)

\* Outside draw callbacks the current context is the one the host chose, in one
\* the view's own, and the next frame's end puts back what the frame below it had:
\* so a view composes with a host that uses Dear ImGui itself.  A context exists
\* as long as the frames it draws, unless its view is detached or released under
\* them: then, and only then, what is current or put back is gone.
ContextRestored ==
  /\ current = IF frames = <<>> THEN hostsOwn ELSE frames[Len(frames)].view
  /\ \A i \in 1 .. Len(frames) :
       /\ frames[i].previous = IF i = 1 THEN hostsOwn ELSE frames[i - 1].view
       /\ frames[i].view # Gone => view[frames[i].view].imguiCtx

\* Every D3D object is held by exactly the pointer made for it and only an
\* attached view holds any, wherever attach, a frame or a resize gave up; the
\* window, both backends and the plugin's reference come and go with it, and a
\* class stays behind only after a failed attach.
ResourcesBalanced ==
  /\ TypeOK
  /\ \A v \in Views :
       /\ \A o \in Objects : d3d[v].live[o] = IF o \in d3d[v].held THEN 1 ELSE 0
       /\ view[v].attached <=> "device" \in d3d[v].held
       /\ view[v].attached <=> v \in window
       /\ view[v].attached <=> HasBackend(platform[v])
       /\ ~view[v].attached => d3d[v].held = {}
       /\ retains[v] = IF view[v].attached THEN 1 ELSE 0
       /\ v \in class => v \in window \cup refused

\* What a frame drew came from buffers that exist and are large enough, also
\* after a frame whose allocation failed.
DrawsWithinBuffers ==
  \A v \in Views : drawn[v] # Undrawn =>
    \A b \in Buffers : b \in d3d[v].held /\ d3d[v].size[b] >= drawn[v]

\* A view's window keeps the mouse only while a button is held, whatever buttons
\* were lost to other windows or contexts before it took the mouse, provided the
\* context that took it has heard every button since.
CapturedWhileHeard ==
  capture # NoWindow /\ capturer # NoContext => down # {}

\* What the comment at SetCapture says: the mouse is captured to follow it while
\* it drags, that is while a button is held.
\* (The code does not keep it: README.md, section 3.)
CapturedWhileDragging == capture # NoWindow => down # {}

\* What the comment in the view's destructor says: no work is pending when a view
\* is taken down, so no frame runs on without its view.
\* (The code does not keep it: README.md, section 3.)
NoPendingWork == \A i \in 1 .. Len(frames) : frames[i].view # Gone

\* What the comment at the window procedure says: input is fed to the plugin's
\* own backend, that is to the context of the window's view.
FeedsOwnContext == \A v \in window : Handler(v) = v

=============================================================================
