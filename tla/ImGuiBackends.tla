---------------------------- MODULE ImGuiBackends ----------------------------
(***************************************************************************)
(* The two Dear ImGui backends behind an ImGui view                        *)
(* (adapters/imgui/backends), as operators on the data each keeps for one  *)
(* ImGui context.                                                          *)
(*                                                                         *)
(* A D3D record says what a view and its renderer backend hold: the        *)
(* pointers that are not null, the objects the system counts for them, and *)
(* the sizes the backend noted for its two buffers.  A call that can fail  *)
(* is a set of results.                                                    *)
(***************************************************************************)
EXTENDS Integers

CONSTANTS
  Slack,              \* what a buffer is made larger than asked (5000, 10000)
  MouseButtons,
  NoWindow

ASSUME SlackIsPositive == Slack \in Nat \ {0}

ViewObjects == {"device", "context", "chain", "target"}
Buffers == {"vb", "ib"}
Shaders == {"vs", "layout", "ps", "states"}   \* states: all made unchecked
BackendRefs == {"deviceRef", "contextRef", "factory"}
Objects == ViewObjects \cup Buffers \cup Shaders \cup BackendRefs \cup {"texture"}

D3D == [held : SUBSET Objects, live : [Objects -> Nat], size : [Buffers -> Nat]]

Nothing == [held |-> {}, live |-> [o \in Objects |-> 0],
            size |-> [b \in Buffers |-> 0]]

\* A call that returns an object stores the pointer, whatever was in it before.
Make(d, made) ==
  [d EXCEPT !.held = @ \cup made,
            !.live = [o \in Objects |-> IF o \in made THEN @[o] + 1 ELSE @[o]]]

Drop(d, gone) ==
  [d EXCEPT !.held = @ \ gone,
            !.live = [o \in Objects |->
                        IF o \in gone \cap d.held THEN @[o] - 1 ELSE @[o]]]

-----------------------------------------------------------------------------
(* The renderer backend (imgui_impl_dx11.cpp)                              *)

\* The data is new and notes the first buffers' sizes before there are any.
DX11Init(d) ==
  Make([d EXCEPT !.size = [b \in Buffers |-> Slack]], BackendRefs)

NothingInvalidated(d) == d
InvalidateDeviceObjects(d) == Drop(d, Shaders \cup Buffers \cup {"texture"})

DX11Shutdown(d) ==
  [Drop(InvalidateDeviceObjects(d), BackendRefs) EXCEPT !.size = [b \in Buffers |-> 0]]

\* The calls whose result is checked end the function when they fail; what was
\* made before stays.  The others are taken to succeed.
CreateDeviceObjects(d) ==
  LET e == InvalidateDeviceObjects(d)
  IN  {Make(e, made) : made \in {{}, {"vs"}, {"vs", "layout"}, Shaders}}

DX11NewFrame(d) == IF "vs" \in d.held THEN {d} ELSE CreateDeviceObjects(d)

\* The atlas is uploaded when the context wants it, later updated in place, and
\* destroyed when the context asks for that.
UpdateTexture(d) ==
  IF "texture" \in d.held
    THEN {d, Drop(d, {"texture"})}
    ELSE {Make(d, {"texture"})}

\* A buffer too small for the frame is replaced; a failed allocation has noted
\* the new size already.
GrowsBySize(d, b, count) ==
  IF d.size[b] >= count
    THEN {[d3d |-> d, ok |-> TRUE]}
    ELSE LET e == [Drop(d, {b}) EXCEPT !.size[b] = count + Slack]
         IN  {[d3d |-> e, ok |-> FALSE], [d3d |-> Make(e, {b}), ok |-> TRUE]}

EnsureBuffer(d, b, count) ==
  IF b \in d.held /\ d.size[b] >= count
    THEN {[d3d |-> d, ok |-> TRUE]}
    ELSE LET e == [Drop(d, {b}) EXCEPT !.size[b] = count + Slack]
         IN  {[d3d |-> e, ok |-> FALSE], [d3d |-> Make(e, {b}), ok |-> TRUE]}

\* An empty window draws nothing; a buffer that cannot be made or mapped ends
\* the frame before the draw calls.  What the pipeline had bound before is taken
\* and given back within the draw.
RenderDrawData(d, count) ==
  {[d3d |-> d, ok |-> FALSE]} \cup
  UNION { UNION { IF ~first.ok THEN {first} ELSE EnsureBuffer(first.d3d, "ib", count)
                  : first \in EnsureBuffer(t, "vb", count) }
          : t \in UpdateTexture(d) }

-----------------------------------------------------------------------------
(* The platform backend (imgui_impl_win32.cpp)                             *)

Platform(windows) ==
  [hWnd : windows \cup {NoWindow}, MouseButtonsDown : SUBSET MouseButtons]

NoPlatform == [hWnd |-> NoWindow, MouseButtonsDown |-> {}]

Win32Init(w) == [hWnd |-> w, MouseButtonsDown |-> {}]

\* Backend data that is not there ignores the message.
HasBackend(p) == p.hWnd # NoWindow

\* A press takes the capture unless a window has it, and first forgets buttons
\* whose release went elsewhere when the capture was lost.
Pressed(p, w, button, captured) ==
  LET lost == p.MouseButtonsDown # {} /\ captured # w
  IN  [p EXCEPT !.MouseButtonsDown = (IF lost THEN {} ELSE @) \cup {button}]

CapturesAtPress(p, w, captured) ==
  captured = NoWindow

\* The last release gives the capture back.
Unpressed(p, button) == [p EXCEPT !.MouseButtonsDown = @ \ {button}]
KeepsAtRelease(p, w, button, captured) == FALSE
ReleasesCapture(p, w, button, captured) ==
  p.MouseButtonsDown \subseteq {button} /\ captured = w

=============================================================================
