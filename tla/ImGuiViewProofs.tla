--------------------------- MODULE ImGuiViewProofs --------------------------
(***************************************************************************)
(* What the ImGui adapter keeps for any number of views, draw callbacks    *)
(* that run inside each other, buttons and sizes of frames.                *)
(*                                                                         *)
(* First what the operators of the two backends do to the objects they     *)
(* count; then the invariant, which the properties need little help for:   *)
(* a view is in one of three states, and one that is not attached has no   *)
(* platform backend and so no button that is pressed.                      *)
(***************************************************************************)
EXTENDS ImGuiView, TLAPS

-----------------------------------------------------------------------------
(* The inductive invariant                                                 *)

\* The slots of a view are set and cleared together.
ShapeInv ==
  \A v \in Views :
    /\ view[v] \in {Unmade, New, Attached}
    /\ ~view[v].attached => platform[v] = NoPlatform

\* Who took the mouse and hears its buttons remembers some that are held, and
\* none that are not.
CaptureInv ==
  capture # NoWindow /\ capturer # NoContext =>
    /\ platform[capturer].MouseButtonsDown # {}
    /\ platform[capturer].MouseButtonsDown \subseteq down

IInv ==
  /\ ContextRestored
  /\ ResourcesBalanced
  /\ DrawsWithinBuffers
  /\ CaptureInv
  /\ ShapeInv

-----------------------------------------------------------------------------
(* Objects that are made and dropped                                       *)

\* Each pointer that is not null has the one reference made for it.
Counted(d) == \A o \in Objects : d.live[o] = IF o \in d.held THEN 1 ELSE 0

LEMMA MakeCounts ==
  ASSUME NEW d \in D3D, Counted(d), NEW made \in SUBSET Objects, made \cap d.held = {}
  PROVE  LET e == Make(d, made)
         IN  e \in D3D /\ Counted(e) /\ e.held = d.held \cup made /\ e.size = d.size
<1> DEFINE live == [o \in Objects |-> IF o \in made THEN d.live[o] + 1 ELSE d.live[o]]
           e == [d EXCEPT !.held = d.held \cup made, !.live = live]
<1>1. d.held \cup made \in SUBSET Objects /\ d.live \in [Objects -> Nat]
  BY DEF D3D
<1>2. live \in [Objects -> Nat]
  BY <1>1
<1>3. \A o \in Objects : live[o] = IF o \in d.held \cup made THEN 1 ELSE 0
  BY DEF Counted
<1>4. Make(d, made) = e
  BY DEF Make
<1> HIDE DEF live
<1>5. e \in D3D /\ e.held = d.held \cup made /\ e.live = live /\ e.size = d.size
  BY <1>1, <1>2 DEF D3D
<1> HIDE DEF e
<1>6. Counted(e)
  BY <1>3, <1>5 DEF Counted
<1>. QED
  BY <1>4, <1>5, <1>6

LEMMA DropCounts ==
  ASSUME NEW d \in D3D, Counted(d), NEW gone
  PROVE  LET e == Drop(d, gone)
         IN  e \in D3D /\ Counted(e) /\ e.held = d.held \ gone /\ e.size = d.size
<1> DEFINE live == [o \in Objects |->
                      IF o \in gone \cap d.held THEN d.live[o] - 1 ELSE d.live[o]]
           e == [d EXCEPT !.held = d.held \ gone, !.live = live]
<1>1. d.held \ gone \in SUBSET Objects /\ d.live \in [Objects -> Nat]
  BY DEF D3D
<1>2. \A o \in Objects : live[o] = IF o \in d.held \ gone THEN 1 ELSE 0
  BY DEF Counted
<1>3. live \in [Objects -> Nat]
  <2>1. \A o \in Objects : live[o] \in Nat
    BY <1>2
  <2>. QED
    BY <2>1
<1>4. Drop(d, gone) = e
  BY DEF Drop
<1> HIDE DEF live
<1>5. e \in D3D /\ e.held = d.held \ gone /\ e.live = live /\ e.size = d.size
  BY <1>1, <1>3 DEF D3D
<1> HIDE DEF e
<1>6. Counted(e)
  BY <1>2, <1>5 DEF Counted
<1>. QED
  BY <1>4, <1>5, <1>6

\* The sizes a backend notes are no objects.
LEMMA SizeCounts ==
  ASSUME NEW d \in D3D, Counted(d), NEW size \in [Buffers -> Nat]
  PROVE  LET e == [d EXCEPT !.size = size]
         IN  e \in D3D /\ Counted(e) /\ e.held = d.held /\ e.size = size
<1> DEFINE e == [d EXCEPT !.size = size]
<1>1. e \in D3D /\ e.held = d.held /\ e.size = size /\ e.live = d.live
  BY DEF D3D
<1> HIDE DEF e
<1>2. Counted(e)
  BY <1>1 DEF Counted
<1>. QED
  BY <1>1, <1>2 DEF e

LEMMA NewBackend ==
  ASSUME NEW d \in D3D, Counted(d), d.held \cap BackendRefs = {}
  PROVE  LET e == DX11Init(d)
         IN  e \in D3D /\ Counted(e) /\ e.held = d.held \cup BackendRefs
<1> DEFINE size == [b \in Buffers |-> Slack]  c == [d EXCEPT !.size = size]
<1>1. size \in [Buffers -> Nat]
  BY SlackIsPositive DEF SlackIsPositive
<1> HIDE DEF size
<1>2. c \in D3D /\ Counted(c) /\ c.held = d.held
  BY <1>1, SizeCounts
<1>3. BackendRefs \in SUBSET Objects /\ BackendRefs \cap c.held = {}
  BY <1>2 DEF Objects
<1>4. DX11Init(d) = Make(c, BackendRefs)
  BY DEF DX11Init, size
<1> HIDE DEF c
<1>. QED
  BY <1>2, <1>3, <1>4, MakeCounts

\* After the backend and the view have let go, nothing is held.
LEMMA AllReleased ==
  ASSUME NEW d \in D3D, Counted(d)
  PROVE  LET e == Drop(DX11Shutdown(d), ViewObjects)
         IN  e \in D3D /\ Counted(e) /\ e.held = {}
<1> DEFINE a == InvalidateDeviceObjects(d)
           b == Drop(a, BackendRefs)
           size == [x \in Buffers |-> 0]
           c == [b EXCEPT !.size = size]
           e == Drop(c, ViewObjects)
<1>1. a \in D3D /\ Counted(a) /\ a.held = d.held \ (Shaders \cup Buffers \cup {"texture"})
  BY DropCounts DEF InvalidateDeviceObjects
<1> HIDE DEF a
<1>2. b \in D3D /\ Counted(b) /\ b.held = a.held \ BackendRefs
  BY <1>1, DropCounts
<1> HIDE DEF b
<1>3. size \in [Buffers -> Nat]
  OBVIOUS
<1> HIDE DEF size
<1>4. c \in D3D /\ Counted(c) /\ c.held = b.held
  BY <1>2, <1>3, SizeCounts
<1> HIDE DEF c
<1>5. e \in D3D /\ Counted(e) /\ e.held = c.held \ ViewObjects
  BY <1>4, DropCounts
<1>6. d.held \subseteq Objects
  BY DEF D3D
<1>7. e.held = {}
  BY <1>1, <1>2, <1>4, <1>5, <1>6 DEF Objects
<1>8. e = Drop(DX11Shutdown(d), ViewObjects)
  BY DEF DX11Shutdown, a, b, c, size
<1>. QED
  BY <1>5, <1>7, <1>8

LEMMA FrameBegun ==
  ASSUME NEW d \in D3D, Counted(d), NEW e \in DX11NewFrame(d)
  PROVE  e \in D3D /\ Counted(e) /\ e.held \cap ViewObjects = d.held \cap ViewObjects
<1>1. CASE e = d
  BY <1>1
<1>2. CASE e \in CreateDeviceObjects(d)
  <2> DEFINE gone == Shaders \cup Buffers \cup {"texture"}  c == Drop(d, gone)
  <2>1. c \in D3D /\ Counted(c) /\ c.held = d.held \ gone
    BY DropCounts
  <2>2. PICK made \in {{}, {"vs"}, {"vs", "layout"}, Shaders} : e = Make(c, made)
    BY <1>2 DEF CreateDeviceObjects, InvalidateDeviceObjects
  <2>3. made \in SUBSET Shaders
    BY DEF Shaders
  <2>4. made \in SUBSET Objects /\ made \cap c.held = {}
    BY <2>1, <2>3 DEF Objects
  <2> HIDE DEF c
  <2>5. e \in D3D /\ Counted(e) /\ e.held = c.held \cup made
    BY <2>1, <2>2, <2>4, MakeCounts
  <2>. QED
    BY <2>1, <2>3, <2>5 DEF ViewObjects, Shaders, Buffers
<1>. QED
  BY <1>1, <1>2 DEF DX11NewFrame

\* A buffer that was ensured is there and large enough; nothing else changes.
LEMMA BufferEnsured ==
  ASSUME NEW d \in D3D, Counted(d), NEW b \in Buffers, NEW count \in Nat,
         NEW r \in EnsureBuffer(d, b, count)
  PROVE  /\ r.d3d \in D3D /\ Counted(r.d3d) /\ r.ok \in BOOLEAN
         /\ r.d3d.held \ {b} = d.held \ {b}
         /\ \A c \in Buffers : c # b => r.d3d.size[c] = d.size[c]
         /\ r.ok => b \in r.d3d.held /\ r.d3d.size[b] >= count
<1>1. CASE b \in d.held /\ d.size[b] >= count /\ r = [d3d |-> d, ok |-> TRUE]
  <2>1. r.d3d = d /\ r.ok = TRUE
    BY <1>1
  <2>. QED
    BY <1>1, <2>1
<1>2. CASE LET e == [Drop(d, {b}) EXCEPT !.size[b] = count + Slack]
           IN  r \in {[d3d |-> e, ok |-> FALSE], [d3d |-> Make(e, {b}), ok |-> TRUE]}
  <2> DEFINE c == Drop(d, {b})
             size == [c.size EXCEPT ![b] = count + Slack]
             e == [c EXCEPT !.size = size]
             f == Make(e, {b})
  <2>1. c \in D3D /\ Counted(c) /\ c.held = d.held \ {b} /\ c.size = d.size
    BY DropCounts
  <2>2. count + Slack \in Nat /\ count + Slack >= count /\ d.size \in [Buffers -> Nat]
    BY SlackIsPositive DEF SlackIsPositive, D3D
  <2> HIDE DEF c
  <2>3. /\ size \in [Buffers -> Nat] /\ size[b] = count + Slack
        /\ \A x \in Buffers : x # b => size[x] = d.size[x]
    BY <2>1, <2>2
  <2>4. e = [Drop(d, {b}) EXCEPT !.size[b] = count + Slack]
    BY <2>1 DEF c
  <2> HIDE DEF size
  <2>5. e \in D3D /\ Counted(e) /\ e.held = d.held \ {b} /\ e.size = size
    BY <2>1, <2>3, SizeCounts
  <2> HIDE DEF e
  <2>6. {b} \in SUBSET Objects /\ {b} \cap e.held = {}
    BY <2>5 DEF Objects
  <2>7. f \in D3D /\ Counted(f) /\ f.held = e.held \cup {b} /\ f.size = e.size
    BY <2>5, <2>6, MakeCounts
  <2>8. r = [d3d |-> e, ok |-> FALSE] \/ r = [d3d |-> f, ok |-> TRUE]
    BY <1>2, <2>4
  <2> HIDE DEF f
  <2>9. CASE r = [d3d |-> e, ok |-> FALSE]
    <3>1. r.d3d = e /\ r.ok = FALSE
      BY <2>9
    <3>. QED
      BY <2>3, <2>5, <3>1
  <2>10. CASE r = [d3d |-> f, ok |-> TRUE]
    <3>1. r.d3d = f /\ r.ok = TRUE
      BY <2>10
    <3>. QED
      BY <2>2, <2>3, <2>5, <2>7, <3>1
  <2>. QED
    BY <2>8, <2>9, <2>10
<1>. QED
  BY <1>1, <1>2 DEF EnsureBuffer

\* A frame that is drawn has both buffers, each large enough.
LEMMA FrameDrawn ==
  ASSUME NEW d \in D3D, Counted(d), NEW count \in Nat, NEW r \in RenderDrawData(d, count)
  PROVE  /\ r.d3d \in D3D /\ Counted(r.d3d) /\ r.ok \in BOOLEAN
         /\ r.d3d.held \cap ViewObjects = d.held \cap ViewObjects
         /\ r.ok => \A b \in Buffers : b \in r.d3d.held /\ r.d3d.size[b] >= count
<1>1. CASE r = [d3d |-> d, ok |-> FALSE]
  <2>1. r.d3d = d /\ r.ok = FALSE
    BY <1>1
  <2>. QED
    BY <2>1
<1>2. CASE \E t \in UpdateTexture(d) : \E first \in EnsureBuffer(t, "vb", count) :
             r \in IF ~first.ok THEN {first} ELSE EnsureBuffer(first.d3d, "ib", count)
  <2>1. PICK t \in UpdateTexture(d) : \E first \in EnsureBuffer(t, "vb", count) :
          r \in IF ~first.ok THEN {first} ELSE EnsureBuffer(first.d3d, "ib", count)
    BY <1>2
  <2>2. PICK first \in EnsureBuffer(t, "vb", count) :
          r \in IF ~first.ok THEN {first} ELSE EnsureBuffer(first.d3d, "ib", count)
    BY <2>1
  <2>3. /\ t \in D3D /\ Counted(t)
        /\ t.held \cap ViewObjects = d.held \cap ViewObjects
    <3>1. CASE t = d
      BY <3>1
    <3>2. CASE t = Drop(d, {"texture"})
      BY <3>2, DropCounts DEF ViewObjects
    <3>3. CASE t = Make(d, {"texture"}) /\ "texture" \notin d.held
      <4>1. {"texture"} \in SUBSET Objects /\ {"texture"} \cap d.held = {}
        BY <3>3 DEF Objects
      <4>. QED
        BY <3>3, <4>1, MakeCounts DEF ViewObjects
    <3>. QED
      BY <3>1, <3>2, <3>3 DEF UpdateTexture
  <2>4. "vb" \in Buffers /\ "ib" \in Buffers /\ Buffers = {"vb", "ib"}
        /\ Buffers \cap ViewObjects = {}
    BY DEF Buffers, ViewObjects
  <2>5. /\ first.d3d \in D3D /\ Counted(first.d3d) /\ first.ok \in BOOLEAN
        /\ first.d3d.held \ {"vb"} = t.held \ {"vb"}
        /\ first.ok => "vb" \in first.d3d.held /\ first.d3d.size["vb"] >= count
    BY <2>3, <2>4, BufferEnsured
  <2>6. CASE ~first.ok /\ r = first
    BY <2>3, <2>4, <2>5, <2>6
  <2>7. CASE first.ok /\ r \in EnsureBuffer(first.d3d, "ib", count)
    <3>1. /\ r.d3d \in D3D /\ Counted(r.d3d) /\ r.ok \in BOOLEAN
          /\ r.d3d.held \ {"ib"} = first.d3d.held \ {"ib"}
          /\ r.d3d.size["vb"] = first.d3d.size["vb"]
          /\ r.ok => "ib" \in r.d3d.held /\ r.d3d.size["ib"] >= count
      BY <2>4, <2>5, <2>7, BufferEnsured
    <3>2. "vb" \in r.d3d.held /\ r.d3d.size["vb"] >= count
      BY <2>5, <2>7, <3>1
    <3>3. r.d3d.held \cap ViewObjects = d.held \cap ViewObjects
      BY <2>3, <2>4, <2>5, <3>1
    <3>. QED
      BY <2>4, <3>1, <3>2, <3>3
  <2>. QED
    BY <2>2, <2>6, <2>7
<1>. QED
  BY <1>1, <1>2 DEF RenderDrawData

-----------------------------------------------------------------------------
(* What the invariant says, in the pieces the proofs use                   *)

\* What one view, its D3D objects, its backend and its window agree on.
Agrees(v, a, d, p, windows, r) ==
  /\ Counted(d)
  /\ a.attached <=> "device" \in d.held
  /\ a.attached <=> v \in windows
  /\ a.attached <=> HasBackend(p)
  /\ ~a.attached => d.held = {}
  /\ r = IF a.attached THEN 1 ELSE 0
  /\ a \in {Unmade, New, Attached}
  /\ ~a.attached => p = NoPlatform

ClassInv == class \subseteq window \cup refused

LEMMA Pieces ==
  IInv <=> /\ TypeOK
           /\ \A v \in Views :
                Agrees(v, view[v], d3d[v], platform[v], window, retains[v])
           /\ ClassInv
           /\ ContextRestored
           /\ DrawsWithinBuffers
           /\ CaptureInv
<1>1. ASSUME TypeOK
      PROVE  ClassInv <=> \A v \in Views : v \in class => v \in window \cup refused
  BY <1>1 DEF ClassInv, TypeOK
<1>. QED
  BY <1>1 DEF IInv, ResourcesBalanced, ShapeInv, Agrees, Counted

LEMMA PiecesNext ==
  ASSUME TypeOK',
         \A v \in Views :
           Agrees(v, view'[v], d3d'[v], platform'[v], window', retains'[v]),
         ClassInv', ContextRestored', DrawsWithinBuffers', CaptureInv'
  PROVE  IInv'
<1>1. \A v \in Views : v \in class' => v \in window' \cup refused'
  BY DEF ClassInv
<1>. QED
  BY <1>1 DEF IInv, ResourcesBalanced, ShapeInv, Agrees, Counted

LEMMA Shapes ==
  /\ Unmade \in View /\ New \in View /\ Attached \in View
  /\ Unmade.attached = FALSE /\ New.attached = FALSE /\ Attached.attached = TRUE
  /\ Unmade.exists = FALSE /\ New.exists = TRUE /\ Attached.exists = TRUE
  /\ Unmade.hwnd = FALSE /\ New.hwnd = FALSE /\ Attached.hwnd = TRUE
  /\ Unmade.imguiCtx = FALSE /\ New.imguiCtx = FALSE /\ Attached.imguiCtx = TRUE
BY DEF Unmade, New, Attached, View

\* Views, the host and their backends.
LEMMA Names ==
  /\ Host \in Contexts /\ Views \subseteq Contexts /\ Host \notin Views
  /\ NoContext \notin Contexts /\ NoWindow \notin Views
  /\ Host # NoContext
BY ImGuiConstants DEF ImGuiConstants, Contexts

LEMMA Backends ==
  /\ NoPlatform \in Platform(Contexts)
  /\ ~HasBackend(NoPlatform) /\ NoPlatform.MouseButtonsDown = {}
  /\ \A c \in Contexts : Win32Init(c) \in Platform(Contexts)
  /\ \A v \in Views : HasBackend(Win32Init(v))
BY Names DEF NoPlatform, Platform, HasBackend, Win32Init

LEMMA NothingHeld == Nothing \in D3D /\ Counted(Nothing) /\ Nothing.held = {}
<1> DEFINE live == [o \in Objects |-> 0]  size == [b \in Buffers |-> 0]
<1>1. live \in [Objects -> Nat] /\ size \in [Buffers -> Nat] /\ {} \in SUBSET Objects
  OBVIOUS
<1>2. \A o \in Objects : live[o] = 0
  OBVIOUS
<1>3. Nothing = [held |-> {}, live |-> live, size |-> size]
  BY DEF Nothing
<1> HIDE DEF live, size
<1>4. Nothing \in D3D /\ Nothing.held = {} /\ Nothing.live = live
  BY <1>1, <1>3 DEF D3D
<1>5. Counted(Nothing)
  BY <1>2, <1>4 DEF Counted
<1>. QED
  BY <1>4, <1>5

-----------------------------------------------------------------------------
(* The first state and the steps of one view                               *)

LEMMA InitIInv == Init => IInv
<1> SUFFICES ASSUME Init PROVE IInv
  OBVIOUS
<1>1. TypeOK
  <2>1. platform \in [Contexts -> Platform(Contexts)]
    <3>1. PICK hosted \in {NoPlatform, Win32Init(Host)} :
            platform = [c \in Contexts |-> IF c = Host THEN hosted ELSE NoPlatform]
      BY DEF Init
    <3>2. hosted \in Platform(Contexts)
      BY Backends, Names
    <3>. QED
      BY <3>1, <3>2, Backends
  <2>2. view \in [Views -> View] /\ d3d \in [Views -> D3D]
    BY Shapes, NothingHeld DEF Init
  <2>3. retains \in [Views -> Int] /\ failures \in 0 .. MaxFailures
    BY ImGuiConstants DEF ImGuiConstants, Init
  <2>4. drawn \in [Views -> Counts \cup {Undrawn}]
    BY DEF Init
  <2>5. frames \in Seq(Frame)
    BY DEF Init
  <2>. QED
    BY <2>1, <2>2, <2>3, <2>4, <2>5 DEF Init, TypeOK
<1>2. \A v \in Views : Agrees(v, view[v], d3d[v], platform[v], window, retains[v])
  <2> SUFFICES ASSUME NEW v \in Views
               PROVE  Agrees(v, view[v], d3d[v], platform[v], window, retains[v])
    OBVIOUS
  <2>1. view[v] = Unmade /\ d3d[v] = Nothing /\ v \notin window /\ retains[v] = 0
    BY DEF Init
  <2>2. platform[v] = NoPlatform
    BY Names DEF Init
  <2>. QED
    BY <2>1, <2>2, Shapes, Backends, NothingHeld DEF Agrees
<1>3. ClassInv /\ DrawsWithinBuffers /\ CaptureInv
  BY DEF Init, ClassInv, DrawsWithinBuffers, CaptureInv, Undrawn
<1>4. ContextRestored
  BY DEF Init, ContextRestored
<1>. QED
  BY <1>1, <1>2, <1>3, <1>4, Pieces

LEMMA HostSwitchesInv ==
  ASSUME IInv, NEW c \in {NoContext, Host}, HostSwitches(c)
  PROVE  IInv'
<1> USE DEF HostSwitches, lists, system, mouse, history
<1>1. TypeOK'
  BY Pieces, Names DEF TypeOK
<1>2. ContextRestored'
  BY DEF ContextRestored
<1>3. /\ \A v \in Views : Agrees(v, view'[v], d3d'[v], platform'[v], window', retains'[v])
      /\ ClassInv'
  BY Pieces DEF ClassInv
<1>4. DrawsWithinBuffers' /\ CaptureInv'
  BY Pieces DEF DrawsWithinBuffers, CaptureInv
<1>. QED
  BY <1>1, <1>2, <1>3, <1>4, PiecesNext

LEMMA FramesTyped ==
  ASSUME TypeOK, NEW i \in 1 .. Len(frames)
  PROVE  /\ frames[i].view \in Views \cup {Gone}
         /\ frames[i].previous \in Contexts \cup {NoContext, Gone}
<1>1. frames \in Seq(Frame)
  BY DEF TypeOK
<1>2. frames[i] \in Frame
  BY <1>1
<1>. QED
  BY <1>2 DEF Frame

\* Frames whose views keep their context stay as they were.
LEMMA FramesKept ==
  ASSUME TypeOK, ContextRestored, UNCHANGED <<lists, current>>,
         \A w \in Views : view[w].imguiCtx => view'[w].imguiCtx
  PROVE  ContextRestored'
<1>1. \A i \in 1 .. Len(frames) : frames[i].view \in Views \cup {Gone}
  BY FramesTyped
<1>. QED
  BY <1>1 DEF ContextRestored, lists

LEMMA CreateInv ==
  ASSUME IInv, NEW v \in Views, Create(v)
  PROVE  IInv'
<1> USE DEF lists, system, mouse, history
<1>1. TypeOK /\ Agrees(v, view[v], d3d[v], platform[v], window, retains[v])
  BY Pieces
<1>2. view[v] = Unmade
  BY <1>1, Shapes DEF Agrees, Create
<1>3. view' \in [Views -> View] /\ view'[v] = New
      /\ \A w \in Views : w # v => view'[w] = view[w]
  BY <1>1, Shapes DEF Create, TypeOK
<1>4. TypeOK'
  BY <1>1, <1>3 DEF Create, TypeOK
<1>5. ASSUME NEW w \in Views
      PROVE  Agrees(w, view'[w], d3d'[w], platform'[w], window', retains'[w])
  <2>1. Agrees(w, view[w], d3d[w], platform[w], window, retains[w])
    BY Pieces
  <2>2. CASE w # v
    BY <2>1, <2>2, <1>3 DEF Create
  <2>3. CASE w = v
    BY <2>1, <2>3, <1>2, <1>3, Shapes DEF Create, Agrees
  <2>. QED
    BY <2>2, <2>3
<1>6. ContextRestored'
  <2>1. \A w \in Views : view[w].imguiCtx => view'[w].imguiCtx
    BY <1>2, <1>3, Shapes
  <2>. QED
    BY <1>1, <2>1, FramesKept, Pieces DEF Create
<1>7. ClassInv' /\ DrawsWithinBuffers' /\ CaptureInv'
  BY Pieces DEF Create, ClassInv, DrawsWithinBuffers, CaptureInv
<1>. QED
  BY <1>4, <1>5, <1>6, <1>7, PiecesNext

-----------------------------------------------------------------------------
(* Attaching                                                               *)

\* What a call that may fail leaves of the bound.
LEMMA FailuresBounded ==
  ASSUME TypeOK, NEW failed \in BOOLEAN, Fails(failed)
  PROVE  failures' \in 0 .. MaxFailures
BY ImGuiConstants DEF ImGuiConstants, TypeOK, Fails

LEMMA MadeAgrees ==
  ASSUME NEW v \in Views, NEW windows, NEW d \in D3D, Counted(d), d.held = {},
         NEW target \in SUBSET {"target"}
  PROVE  LET e == DX11Init(Make(d, {"device", "context", "chain"} \cup target))
         IN  e \in D3D /\ Agrees(v, Attached, e, Win32Init(v), windows \cup {v}, 1)
<1> DEFINE made == {"device", "context", "chain"} \cup target
           m == Make(d, made)
           e == DX11Init(m)
<1>1. made \in SUBSET Objects /\ made \cap d.held = {}
  BY DEF Objects, ViewObjects
<1>2. "device" \in made /\ made \cap BackendRefs = {}
  BY DEF BackendRefs
<1> HIDE DEF made
<1>3. m \in D3D /\ Counted(m) /\ m.held = d.held \cup made
  BY <1>1, MakeCounts
<1> HIDE DEF m
<1>4. m.held \cap BackendRefs = {}
  BY <1>2, <1>3
<1>5. e \in D3D /\ Counted(e) /\ e.held = m.held \cup BackendRefs
  BY <1>3, <1>4, NewBackend
<1> HIDE DEF e
<1>6. Agrees(v, Attached, e, Win32Init(v), windows \cup {v}, 1)
  BY <1>2, <1>3, <1>5, Shapes, Backends DEF Agrees
<1>. QED
  BY <1>5, <1>6 DEF e, m, made

LEMMA AttachMadeInv ==
  ASSUME IInv, NEW v \in Views, view[v].exists, ~view[v].attached,
         ResourcesMade(v), retains' = [retains EXCEPT ![v] = @ + 1],
         refused' = refused \ {v}, current' = Restored(current, v),
         UNCHANGED <<lists, mouse, drawn>>
  PROVE  IInv'
<1> USE DEF lists, mouse
<1>1. TypeOK /\ Agrees(v, view[v], d3d[v], platform[v], window, retains[v])
  BY Pieces
<1>2. /\ d3d[v] \in D3D /\ Counted(d3d[v]) /\ d3d[v].held = {}
      /\ platform[v] = NoPlatform /\ retains[v] = 0 /\ v \notin window
      /\ view[v].imguiCtx = FALSE
  <2>1. d3d[v] \in D3D
    BY <1>1 DEF TypeOK
  <2>. QED
    BY <1>1, <2>1, Shapes DEF Agrees
<1>3. PICK target \in SUBSET {"target"} :
        /\ Fails(target = {})
        /\ d3d' = [d3d EXCEPT ![v] =
                     DX11Init(Make(@, {"device", "context", "chain"} \cup target))]
  BY DEF ResourcesMade
<1> DEFINE e == DX11Init(Make(d3d[v], {"device", "context", "chain"} \cup target))
<1>4. d3d' = [d3d EXCEPT ![v] = e]
  BY <1>3
<1>5. e \in D3D /\ Agrees(v, Attached, e, Win32Init(v), window \cup {v}, 1)
  BY <1>2, MadeAgrees
<1> HIDE DEF e
<1>6. /\ view' \in [Views -> View] /\ view'[v] = Attached
      /\ d3d' \in [Views -> D3D] /\ d3d'[v] = e
      /\ retains' \in [Views -> Int] /\ retains'[v] = 1
      /\ window' = window \cup {v}
  BY <1>1, <1>2, <1>4, <1>5, Shapes DEF TypeOK, ResourcesMade
<1>7. /\ platform' \in [Contexts -> Platform(Contexts)] /\ platform'[v] = Win32Init(v)
      /\ \A c \in Contexts : c # v => platform'[c] = platform[c]
  BY <1>1, Names, Backends DEF TypeOK, ResourcesMade
<1>8. ASSUME NEW w \in Views, w # v
      PROVE  view'[w] = view[w] /\ d3d'[w] = d3d[w] /\ retains'[w] = retains[w]
             /\ platform'[w] = platform[w]
  BY <1>1, <1>4, <1>7, <1>8, Names DEF TypeOK, ResourcesMade
<1>9. TypeOK'
  <2>1. failures' \in 0 .. MaxFailures
    BY <1>1, <1>3, FailuresBounded
  <2>2. window' \subseteq Views /\ class' \subseteq Views /\ refused' \subseteq Views
    BY <1>1 DEF TypeOK, ResourcesMade
  <2>3. current' = current
    BY DEF Restored
  <2>. QED
    BY <1>1, <1>6, <1>7, <2>1, <2>2, <2>3 DEF TypeOK
<1>10. ASSUME NEW w \in Views
       PROVE  Agrees(w, view'[w], d3d'[w], platform'[w], window', retains'[w])
  <2>1. Agrees(w, view[w], d3d[w], platform[w], window, retains[w])
    BY Pieces
  <2>2. CASE w # v
    BY <2>1, <2>2, <1>6, <1>8 DEF Agrees
  <2>3. CASE w = v
    BY <2>3, <1>5, <1>6, <1>7
  <2>. QED
    BY <2>2, <2>3
<1>11. ContextRestored'
  <2>1. \A w \in Views : view[w].imguiCtx => view'[w].imguiCtx
    BY <1>2, <1>8
  <2>. QED
    BY <1>1, <2>1, FramesKept, Pieces DEF Restored
<1>12. ClassInv'
  BY <1>6, Pieces DEF ClassInv, ResourcesMade
<1>13. DrawsWithinBuffers'
  <2> SUFFICES ASSUME NEW w \in Views, drawn[w] # Undrawn
               PROVE  \A b \in Buffers : b \in d3d'[w].held /\ d3d'[w].size[b] >= drawn[w]
    BY DEF DrawsWithinBuffers
  <2>1. \A b \in Buffers : b \in d3d[w].held /\ d3d[w].size[b] >= drawn[w]
    BY Pieces DEF DrawsWithinBuffers
  <2>2. w # v
    BY <1>2, <2>1 DEF Buffers
  <2>. QED
    BY <1>8, <2>1, <2>2
<1>14. CaptureInv'
  <2> SUFFICES ASSUME capture # NoWindow, capturer # NoContext
               PROVE  platform'[capturer] = platform[capturer]
    BY Pieces DEF CaptureInv
  <2>1. platform[capturer].MouseButtonsDown # {}
    BY Pieces DEF CaptureInv
  <2>2. capturer # v /\ capturer \in Contexts
    BY <1>1, <1>2, <2>1, Backends DEF TypeOK
  <2>. QED
    BY <1>7, <2>2
<1>. QED
  BY <1>9, <1>10, <1>11, <1>12, <1>13, <1>14, PiecesNext

LEMMA AttachRefusedInv ==
  ASSUME IInv, NEW v \in Views, ResourcesRefused(v), refused' = refused \cup {v},
         UNCHANGED <<retains, current, failures>>, UNCHANGED <<lists, mouse, drawn>>
  PROVE  IInv'
<1> USE DEF lists, mouse, ResourcesRefused
<1>1. class' \subseteq class \cup {v}
  BY DEF RegisterClass
<1>2. TypeOK'
  BY <1>1, Pieces DEF TypeOK
<1>3. ClassInv'
  BY <1>1, Pieces DEF ClassInv
<1>4. \A w \in Views : Agrees(w, view'[w], d3d'[w], platform'[w], window', retains'[w])
  BY Pieces
<1>5. ContextRestored'
  BY Pieces DEF ContextRestored
<1>6. DrawsWithinBuffers' /\ CaptureInv'
  BY Pieces DEF DrawsWithinBuffers, CaptureInv
<1>. QED
  BY <1>2, <1>3, <1>4, <1>5, <1>6, PiecesNext

LEMMA AttachInv ==
  ASSUME IInv, NEW v \in Views, Attach(v)
  PROVE  IInv'
<1>1. CASE /\ ResourcesMade(v)
           /\ retains' = [retains EXCEPT ![v] = @ + 1]
           /\ refused' = refused \ {v}
           /\ current' = Restored(current, v)
  BY <1>1, AttachMadeInv DEF Attach
<1>2. CASE /\ ResourcesRefused(v)
           /\ refused' = refused \cup {v}
           /\ UNCHANGED <<retains, current, failures>>
  BY <1>2, AttachRefusedInv DEF Attach
<1>. QED
  BY <1>1, <1>2 DEF Attach

-----------------------------------------------------------------------------
(* Detaching, and the last release                                         *)

\* Frames that held what goes with a view hold something that is gone.
LEMMA FramesForget ==
  ASSUME TypeOK, NEW v \in Views, ShutDown(v)
  PROVE  /\ frames' \in Seq(Frame) /\ Len(frames') = Len(frames)
         /\ frames' = <<>> <=> frames = <<>>
         /\ \A i \in 1 .. Len(frames) :
              /\ frames'[i].view = Forget(frames[i].view, v)
              /\ frames'[i].previous = Forget(frames[i].previous, v)
<1> DEFINE n == Len(frames)
           new(i) == [view |-> Forget(frames[i].view, v),
                      previous |-> Forget(frames[i].previous, v)]
<1>1. n \in Nat /\ (frames = <<>> <=> n = 0)
  BY DEF TypeOK
<1>2. frames' = [i \in 1 .. n |-> new(i)]
  BY DEF ShutDown
<1>3. ASSUME NEW i \in 1 .. n PROVE new(i) \in Frame
  <2>1. /\ frames[i].view \in Views \cup {Gone}
        /\ frames[i].previous \in Contexts \cup {NoContext, Gone}
    BY FramesTyped
  <2>2. /\ Forget(frames[i].view, v) \in Views \cup {Gone}
        /\ Forget(frames[i].previous, v) \in Contexts \cup {NoContext, Gone}
    BY <2>1 DEF Forget
  <2>. QED
    BY <2>2 DEF Frame
<1>4. \A i \in 1 .. n : /\ new(i).view = Forget(frames[i].view, v)
                        /\ new(i).previous = Forget(frames[i].previous, v)
  OBVIOUS
<1> HIDE DEF n, new
<1>5. frames' \in Seq(Frame) /\ Len(frames') = n /\ (frames' = <<>> <=> n = 0)
      /\ \A i \in 1 .. n : frames'[i] = new(i)
  BY <1>1, <1>2, <1>3
<1>. QED
  BY <1>1, <1>4, <1>5 DEF n

LEMMA EndInv ==
  ASSUME IInv, NEW v \in Views,
         NEW left \in {Unmade, New},
         retains' = GivenBack(v), ShutDown(v), view' = [view EXCEPT ![v] = left],
         UNCHANGED <<hostsOwn, down, failures, refused>>
  PROVE  IInv'
<1>1. TypeOK /\ Agrees(v, view[v], d3d[v], platform[v], window, retains[v])
  BY Pieces
<1>2. d3d[v] \in D3D /\ Counted(d3d[v])
  BY <1>1 DEF TypeOK, Agrees
<1>3. left \in View /\ ~left.attached
  BY Shapes
<1>4. /\ view' \in [Views -> View] /\ view'[v] = left
      /\ \A w \in Views : w # v => view'[w] = view[w]
  BY <1>1, <1>3 DEF TypeOK
<1>5. /\ retains' \in [Views -> Int] /\ retains'[v] = 0
      /\ \A w \in Views : w # v => retains'[w] = retains[w]
  <2>1. retains \in [Views -> Int]
    BY <1>1 DEF TypeOK
  <2>2. CASE view[v].attached
    BY <1>1, <2>1, <2>2 DEF GivenBack, Agrees
  <2>3. CASE ~view[v].attached
    BY <1>1, <2>1, <2>3 DEF GivenBack, Agrees
  <2>. QED
    BY <2>2, <2>3
<1>6. /\ d3d' \in [Views -> D3D] /\ Counted(d3d'[v]) /\ d3d'[v].held = {}
      /\ \A w \in Views : w # v => d3d'[w] = d3d[w]
  <2>1. d3d \in [Views -> D3D]
    BY <1>1 DEF TypeOK
  <2>2. CASE view[v].hwnd
    <3> DEFINE e == ReleaseD3D(v)
    <3>1. e \in D3D /\ Counted(e) /\ e.held = {}
      BY <1>2, AllReleased DEF ReleaseD3D
    <3>2. d3d' = [d3d EXCEPT ![v] = e]
      BY <2>2 DEF ShutDown
    <3> HIDE DEF e
    <3>. QED
      BY <2>1, <3>1, <3>2
  <2>3. CASE ~view[v].hwnd
    <3>1. ~view[v].attached
      BY <1>1, <2>3, Shapes DEF Agrees
    <3>. QED
      BY <1>1, <1>2, <2>1, <2>3, <3>1 DEF ShutDown, Agrees
  <2>. QED
    BY <2>2, <2>3
<1>7. /\ platform' \in [Contexts -> Platform(Contexts)] /\ platform'[v] = NoPlatform
      /\ \A c \in Contexts : c # v => platform'[c] = platform[c]
  BY <1>1, Names, Backends DEF TypeOK, ShutDown
<1>8. /\ drawn' \in [Views -> Counts \cup {Undrawn}] /\ drawn'[v] = Undrawn
      /\ \A w \in Views : w # v => drawn'[w] = drawn[w]
  BY <1>1 DEF TypeOK, ShutDown
<1>9. /\ current' = Forget(current, v) /\ window' = window \ {v}
      /\ class' \subseteq class
  BY DEF ShutDown, Restored, UnregisterClass
<1>10. TypeOK'
  <2>1. capture' \in Views \cup {NoWindow} /\ capturer' \in Contexts \cup {NoContext}
    BY <1>1 DEF TypeOK, ShutDown
  <2>2. frames' \in Seq(Frame)
    BY <1>1, FramesForget
  <2>3. current' \in Contexts \cup {NoContext, Gone}
    BY <1>1, <1>9 DEF TypeOK, Forget
  <2>. QED
    BY <1>1, <1>4, <1>5, <1>6, <1>7, <1>8, <1>9, <2>1, <2>2, <2>3 DEF TypeOK
<1>11. ASSUME NEW w \in Views
       PROVE  Agrees(w, view'[w], d3d'[w], platform'[w], window', retains'[w])
  <2>1. Agrees(w, view[w], d3d[w], platform[w], window, retains[w])
    BY Pieces
  <2>2. CASE w # v
    <3>1. platform'[w] = platform[w]
      BY <1>7, <2>2, Names
    <3>. QED
      BY <2>1, <2>2, <3>1, <1>4, <1>5, <1>6, <1>9 DEF Agrees
  <2>3. CASE w = v
    BY <2>3, <1>3, <1>4, <1>5, <1>6, <1>7, <1>9, Backends DEF Agrees
  <2>. QED
    BY <2>2, <2>3
<1>12. ContextRestored'
  <2>1. /\ ContextRestored /\ Len(frames) \in Nat
        /\ frames = <<>> <=> Len(frames) = 0
    BY <1>1, Pieces DEF TypeOK
  <2>2. /\ Len(frames') = Len(frames) /\ (frames' = <<>> <=> frames = <<>>)
        /\ \A i \in 1 .. Len(frames) :
             /\ frames'[i].view = Forget(frames[i].view, v)
             /\ frames'[i].previous = Forget(frames[i].previous, v)
    BY <1>1, FramesForget
  <2>3. hostsOwn' = hostsOwn /\ Forget(hostsOwn, v) = hostsOwn
    BY <1>1, Names DEF TypeOK, Forget
  <2>4. current' = IF frames' = <<>> THEN hostsOwn' ELSE frames'[Len(frames')].view
    BY <2>1, <2>2, <2>3, <1>9 DEF ContextRestored
  <2>5. ASSUME NEW i \in 1 .. Len(frames)
        PROVE  /\ frames'[i].previous = IF i = 1 THEN hostsOwn' ELSE frames'[i - 1].view
               /\ frames'[i].view # Gone => view'[frames'[i].view].imguiCtx
    <3>1. /\ frames[i].previous = IF i = 1 THEN hostsOwn ELSE frames[i - 1].view
          /\ frames[i].view # Gone => view[frames[i].view].imguiCtx
      BY <2>1 DEF ContextRestored
    <3>2. i # 1 => i - 1 \in 1 .. Len(frames)
      BY <2>1
    <3>3. frames[i].view \in Views \cup {Gone}
      BY <1>1, FramesTyped
    <3>4. frames'[i].view # Gone => frames'[i].view = frames[i].view /\ frames[i].view # v
                                    /\ frames[i].view # Gone
      BY <2>2 DEF Forget
    <3>5. frames'[i].previous = IF i = 1 THEN hostsOwn' ELSE frames'[i - 1].view
      BY <2>2, <2>3, <3>1, <3>2
    <3>6. frames'[i].view # Gone => view'[frames'[i].view].imguiCtx
      BY <3>1, <3>3, <3>4, <1>4
    <3>. QED
      BY <3>5, <3>6
  <2>. QED
    BY <2>2, <2>4, <2>5 DEF ContextRestored
<1>13. ClassInv'
  <2>1. CASE view[v].hwnd
    BY <2>1, <1>9, Pieces DEF ClassInv, ShutDown, UnregisterClass
  <2>2. CASE ~view[v].hwnd
    <3>1. v \notin window
      BY <1>1, <2>2, Shapes DEF Agrees
    <3>. QED
      BY <2>2, <3>1, <1>9, Pieces DEF ClassInv
  <2>. QED
    BY <2>1, <2>2
<1>14. DrawsWithinBuffers'
  <2> SUFFICES ASSUME NEW w \in Views, drawn'[w] # Undrawn
               PROVE  \A b \in Buffers : b \in d3d'[w].held /\ d3d'[w].size[b] >= drawn'[w]
    BY DEF DrawsWithinBuffers
  <2>1. w # v /\ drawn'[w] = drawn[w] /\ d3d'[w] = d3d[w]
    BY <1>6, <1>8
  <2>. QED
    BY <2>1, Pieces DEF DrawsWithinBuffers
<1>15. CaptureInv'
  <2> SUFFICES ASSUME capture' # NoWindow, capturer' # NoContext
               PROVE  /\ platform'[capturer'].MouseButtonsDown # {}
                      /\ platform'[capturer'].MouseButtonsDown \subseteq down
    BY DEF CaptureInv
  <2>1. capture # v /\ capture' = capture
    BY DEF ShutDown
  <2>2. capturer' = capturer /\ capturer # v /\ capturer \in Contexts
    BY <2>1, <1>1 DEF ShutDown, TypeOK
  <2>3. CaptureInv
    BY Pieces
  <2>. QED
    BY <1>7, <2>1, <2>2, <2>3 DEF CaptureInv
<1>. QED
  BY <1>10, <1>11, <1>12, <1>13, <1>14, <1>15, PiecesNext

LEMMA DetachInv ==
  ASSUME IInv, NEW v \in Views, Detach(v)
  PROVE  IInv'
BY EndInv DEF Detach

LEMMA ReleaseInv ==
  ASSUME IInv, NEW v \in Views, Release(v)
  PROVE  IInv'
BY EndInv DEF Release

-----------------------------------------------------------------------------
(* Frames                                                                  *)

\* A step that gives one view other D3D objects, and no new view of its own.
LEMMA ObjectsChanged ==
  ASSUME IInv, NEW v \in Views, NEW e \in D3D, Counted(e),
         "device" \in e.held <=> "device" \in d3d[v].held, view[v].attached,
         d3d' = [d3d EXCEPT ![v] = e],
         UNCHANGED <<view, platform, window, retains>>
  PROVE  /\ d3d' \in [Views -> D3D] /\ d3d'[v] = e
         /\ \A w \in Views : w # v => d3d'[w] = d3d[w]
         /\ \A w \in Views :
              Agrees(w, view'[w], d3d'[w], platform'[w], window', retains'[w])
<1>1. /\ d3d' \in [Views -> D3D] /\ d3d'[v] = e
      /\ \A w \in Views : w # v => d3d'[w] = d3d[w]
  BY Pieces DEF TypeOK
<1>2. ASSUME NEW w \in Views
      PROVE  Agrees(w, view'[w], d3d'[w], platform'[w], window', retains'[w])
  <2>1. Agrees(w, view[w], d3d[w], platform[w], window, retains[w])
    BY Pieces
  <2>2. CASE w # v
    BY <1>1, <2>1, <2>2
  <2>3. CASE w = v
    BY <1>1, <2>1, <2>3 DEF Agrees
  <2>. QED
    BY <2>2, <2>3
<1>. QED
  BY <1>1, <1>2

LEMMA BeginFrameInv ==
  ASSUME IInv, NEW v \in Views, BeginFrame(v)
  PROVE  IInv'
<1> USE DEF lists, system, mouse, history
<1>1. TypeOK /\ Agrees(v, view[v], d3d[v], platform[v], window, retains[v])
      /\ ContextRestored
  BY Pieces
<1>2. d3d[v] \in D3D /\ Counted(d3d[v])
  BY <1>1 DEF TypeOK, Agrees
<1>3. PICK d \in DX11NewFrame(d3d[v]) :
        /\ Fails("vs" \notin d3d[v].held /\ ~Shaders \subseteq d.held)
        /\ d3d' = [d3d EXCEPT ![v] = d]
  BY DEF BeginFrame
<1>4. /\ d \in D3D /\ Counted(d)
      /\ "device" \in d.held <=> "device" \in d3d[v].held
  BY <1>2, FrameBegun DEF ViewObjects
<1>5. view[v].attached /\ UNCHANGED <<view, platform, window, retains>>
  BY DEF BeginFrame
<1>6. /\ d3d' \in [Views -> D3D] /\ d3d'[v] = d
      /\ \A w \in Views : w # v => d3d'[w] = d3d[w]
      /\ \A w \in Views :
           Agrees(w, view'[w], d3d'[w], platform'[w], window', retains'[w])
  BY <1>3, <1>4, <1>5, ObjectsChanged
<1> DEFINE frame == [view |-> v, previous |-> current]
<1>7. frames \in Seq(Frame) /\ frame \in Frame /\ frame.view = v /\ frame.previous = current
  BY <1>1 DEF TypeOK, Frame
<1>8. frames' = Append(frames, frame) /\ current' = v /\ hostsOwn' = hostsOwn
  BY DEF BeginFrame
<1> HIDE DEF frame
<1>9. /\ frames' \in Seq(Frame) /\ Len(frames') = Len(frames) + 1 /\ Len(frames) \in Nat
      /\ frames'[Len(frames) + 1] = frame
      /\ \A i \in 1 .. Len(frames) : frames'[i] = frames[i]
  BY <1>7, <1>8
<1>10. /\ drawn' \in [Views -> Counts \cup {Undrawn}] /\ drawn'[v] = Undrawn
       /\ \A w \in Views : w # v => drawn'[w] = drawn[w]
  BY <1>1 DEF TypeOK, BeginFrame
<1>11. TypeOK'
  <2>1. failures' \in 0 .. MaxFailures
    BY <1>1, <1>3, FailuresBounded
  <2>. QED
    BY <1>1, <1>6, <1>8, <1>9, <1>10, <2>1, Names DEF TypeOK, BeginFrame
<1>12. ContextRestored'
  <2>1. frames' # <<>> /\ frames'[Len(frames')].view = v
    BY <1>7, <1>9
  <2>2. ASSUME NEW i \in 1 .. Len(frames')
        PROVE  /\ frames'[i].previous = IF i = 1 THEN hostsOwn' ELSE frames'[i - 1].view
               /\ frames'[i].view # Gone => view'[frames'[i].view].imguiCtx
    <3>1. CASE i = Len(frames) + 1
      <4>1. frames'[i].previous = current /\ frames'[i].view = v
        BY <3>1, <1>7, <1>9
      <4>2. CASE i = 1
        <5>1. frames = <<>>
          BY <3>1, <4>2, <1>7, <1>9
        <5>. QED
          BY <4>1, <4>2, <5>1, <1>1, <1>5, <1>8 DEF ContextRestored, BeginFrame
      <4>3. CASE i # 1
        <5>1. frames # <<>> /\ i - 1 = Len(frames) /\ i - 1 \in 1 .. Len(frames)
          BY <3>1, <4>3, <1>7, <1>9
        <5>. QED
          BY <4>1, <4>3, <5>1, <1>1, <1>5, <1>9 DEF ContextRestored, BeginFrame
      <4>. QED
        BY <4>2, <4>3
    <3>2. CASE i \in 1 .. Len(frames)
      <4>1. frames'[i] = frames[i] /\ (i # 1 => frames'[i - 1] = frames[i - 1])
        BY <3>2, <1>9
      <4>. QED
        BY <3>2, <4>1, <1>1, <1>5, <1>8 DEF ContextRestored
    <3>. QED
      BY <3>1, <3>2, <1>9
  <2>. QED
    BY <1>8, <2>1, <2>2 DEF ContextRestored
<1>13. ClassInv' /\ CaptureInv'
  BY Pieces DEF BeginFrame, ClassInv, CaptureInv
<1>14. DrawsWithinBuffers'
  <2> SUFFICES ASSUME NEW w \in Views, drawn'[w] # Undrawn
               PROVE  \A b \in Buffers : b \in d3d'[w].held /\ d3d'[w].size[b] >= drawn'[w]
    BY DEF DrawsWithinBuffers
  <2>1. w # v /\ drawn'[w] = drawn[w] /\ d3d'[w] = d3d[w]
    BY <1>6, <1>10
  <2>. QED
    BY <2>1, Pieces DEF DrawsWithinBuffers
<1>. QED
  BY <1>6, <1>11, <1>12, <1>13, <1>14, PiecesNext

LEMMA EndFrameInv ==
  ASSUME IInv, EndFrame
  PROVE  IInv'
<1> USE DEF lists, system, mouse, history
<1> DEFINE n == Len(frames)  v == frames[n].view
<1>1. TypeOK /\ ContextRestored
  BY Pieces
<1>2. frames \in Seq(Frame) /\ frames # <<>>
  BY <1>1 DEF TypeOK, EndFrame
<1>3. n \in Nat /\ n \in 1 .. n
  BY <1>2
<1>4. v \in Views /\ view[v].imguiCtx
  BY <1>1, <1>3, FramesTyped DEF ContextRestored, EndFrame
<1>5. PICK count \in Counts : \E r \in RenderDrawData(d3d[v], count) :
        /\ Fails(~r.ok)
        /\ d3d' = [d3d EXCEPT ![v] = r.d3d]
        /\ drawn' = [drawn EXCEPT ![v] = IF r.ok THEN count ELSE Undrawn]
  BY DEF EndFrame
<1>6. PICK r \in RenderDrawData(d3d[v], count) :
        /\ Fails(~r.ok)
        /\ d3d' = [d3d EXCEPT ![v] = r.d3d]
        /\ drawn' = [drawn EXCEPT ![v] = IF r.ok THEN count ELSE Undrawn]
  BY <1>5
<1>7. /\ current' = frames[n].previous
      /\ frames' = SubSeq(frames, 1, n - 1)
      /\ UNCHANGED <<hostsOwn, view, platform, window, class, capture, capturer,
                     retains, refused, down>>
  BY DEF EndFrame, Restored
<1> HIDE DEF v, n
<1>8. Agrees(v, view[v], d3d[v], platform[v], window, retains[v])
  BY <1>4, Pieces
<1>9. view[v].attached /\ d3d[v] \in D3D /\ Counted(d3d[v]) /\ count \in Nat
  <2>1. d3d[v] \in D3D
    BY <1>1, <1>4 DEF TypeOK
  <2>. QED
    BY <1>4, <1>8, <2>1, Shapes, ImGuiConstants DEF Agrees, ImGuiConstants
<1>10. /\ r.d3d \in D3D /\ Counted(r.d3d) /\ r.ok \in BOOLEAN
       /\ r.d3d.held \cap ViewObjects = d3d[v].held \cap ViewObjects
       /\ r.ok => \A b \in Buffers : b \in r.d3d.held /\ r.d3d.size[b] >= count
  BY <1>9, FrameDrawn
<1>11. "device" \in r.d3d.held <=> "device" \in d3d[v].held
  BY <1>10 DEF ViewObjects
<1>12. /\ d3d' \in [Views -> D3D] /\ d3d'[v] = r.d3d
       /\ \A w \in Views : w # v => d3d'[w] = d3d[w]
       /\ \A w \in Views :
            Agrees(w, view'[w], d3d'[w], platform'[w], window', retains'[w])
  BY <1>4, <1>6, <1>7, <1>9, <1>10, <1>11, ObjectsChanged
<1>13. /\ drawn' \in [Views -> Counts \cup {Undrawn}]
       /\ drawn'[v] = IF r.ok THEN count ELSE Undrawn
       /\ \A w \in Views : w # v => drawn'[w] = drawn[w]
  BY <1>1, <1>4, <1>6 DEF TypeOK
<1>14. /\ frames' \in Seq(Frame) /\ Len(frames') = n - 1
       /\ \A i \in 1 .. n - 1 : frames'[i] = frames[i]
  <2>1. n = Len(frames) /\ n - 1 \in Nat /\ n - 1 <= Len(frames)
    BY <1>2, <1>3 DEF n
  <2>2. \A i \in 1 .. n - 1 : frames[i] \in Frame
    BY <1>2, <2>1
  <2>3. frames' = SubSeq(frames, 1, n - 1)
    BY <1>7
  <2>4. Len(frames') = n - 1 /\ \A i \in 1 .. n - 1 : frames'[i] = frames[i]
    BY <1>2, <2>1, <2>3
  <2>5. frames' \in Seq(Frame)
    BY <1>2, <2>1, <2>2, <2>3
  <2>. QED
    BY <2>4, <2>5
<1>15. TypeOK'
  <2>1. failures' \in 0 .. MaxFailures
    BY <1>1, <1>6, <1>10, FailuresBounded
  <2>3. current' \in Contexts \cup {NoContext, Gone}
    BY <1>1, <1>3, <1>7, FramesTyped DEF n
  <2>. QED
    BY <1>1, <1>7, <1>12, <1>13, <1>14, <2>1, <2>3 DEF TypeOK
<1>16. ContextRestored'
  <2>1. current' = IF n = 1 THEN hostsOwn ELSE frames[n - 1].view
    BY <1>1, <1>3, <1>7 DEF ContextRestored, n
  <2>2. CASE n = 1
    <3>1. frames' = <<>> /\ Len(frames') = 0
      BY <2>2, <1>14
    <3>. QED
      BY <2>1, <2>2, <3>1, <1>7 DEF ContextRestored
  <2>3. CASE n # 1
    <3>1. frames' # <<>> /\ frames'[Len(frames')] = frames[n - 1]
      BY <2>3, <1>3, <1>14
    <3>2. ASSUME NEW i \in 1 .. Len(frames')
          PROVE  /\ frames'[i].previous = IF i = 1 THEN hostsOwn' ELSE frames'[i - 1].view
                 /\ frames'[i].view # Gone => view'[frames'[i].view].imguiCtx
      <4>1. i \in 1 .. n /\ frames'[i] = frames[i]
            /\ (i # 1 => frames'[i - 1] = frames[i - 1])
        BY <1>3, <1>14
      <4>. QED
        BY <4>1, <1>1, <1>7 DEF ContextRestored, n
    <3>. QED
      BY <2>1, <2>3, <3>1, <3>2 DEF ContextRestored
  <2>. QED
    BY <2>2, <2>3
<1>17. ClassInv' /\ CaptureInv'
  BY <1>7, Pieces DEF ClassInv, CaptureInv
<1>18. DrawsWithinBuffers'
  <2> SUFFICES ASSUME NEW w \in Views, drawn'[w] # Undrawn
               PROVE  \A b \in Buffers : b \in d3d'[w].held /\ d3d'[w].size[b] >= drawn'[w]
    BY DEF DrawsWithinBuffers
  <2>1. CASE w = v
    BY <2>1, <1>10, <1>12, <1>13
  <2>2. CASE w # v
    <3>1. drawn'[w] = drawn[w] /\ d3d'[w] = d3d[w]
      BY <2>2, <1>12, <1>13
    <3>. QED
      BY <3>1, Pieces DEF DrawsWithinBuffers
  <2>. QED
    BY <2>1, <2>2
<1>. QED
  BY <1>12, <1>15, <1>16, <1>17, <1>18, PiecesNext

-----------------------------------------------------------------------------
(* Messages to a window                                                    *)

LEMMA ResizeBackbufferInv ==
  ASSUME IInv, NEW v \in Views, ResizeBackbuffer(v)
  PROVE  IInv'
<1> USE DEF lists, system, mouse
<1>1. TypeOK /\ Agrees(v, view[v], d3d[v], platform[v], window, retains[v])
  BY Pieces
<1>2. PICK target \in SUBSET {"target"} :
        /\ Fails(target = {})
        /\ d3d' = [d3d EXCEPT ![v] = Make(Drop(@, {"target"}), target)]
  BY DEF ResizeBackbuffer
<1> DEFINE c == Drop(d3d[v], {"target"})  e == Make(c, target)
<1>3. view[v].attached /\ d3d[v] \in D3D /\ Counted(d3d[v])
  <2>1. d3d[v] \in D3D
    BY <1>1 DEF TypeOK
  <2>. QED
    BY <1>1, <2>1 DEF ResizeBackbuffer, Agrees
<1>4. /\ c \in D3D /\ Counted(c) /\ c.held = d3d[v].held \ {"target"}
      /\ c.size = d3d[v].size
  BY <1>3, DropCounts
<1>5. d3d' = [d3d EXCEPT ![v] = e]
  BY <1>2
<1> HIDE DEF c
<1>6. target \in SUBSET Objects /\ target \cap c.held = {}
  BY <1>4 DEF Objects, ViewObjects
<1>7. /\ e \in D3D /\ Counted(e) /\ e.held = c.held \cup target
      /\ e.size = d3d[v].size
  BY <1>4, <1>6, MakeCounts
<1> HIDE DEF e
<1>8. "device" \in e.held <=> "device" \in d3d[v].held
  BY <1>4, <1>7
<1>9. \A b \in Buffers : b \in e.held <=> b \in d3d[v].held
  BY <1>4, <1>7 DEF Buffers
<1>10. UNCHANGED <<view, platform, window, retains, drawn>>
  BY DEF ResizeBackbuffer
<1>11. /\ d3d' \in [Views -> D3D] /\ d3d'[v] = e
       /\ \A w \in Views : w # v => d3d'[w] = d3d[w]
       /\ \A w \in Views :
            Agrees(w, view'[w], d3d'[w], platform'[w], window', retains'[w])
  BY <1>3, <1>5, <1>7, <1>8, <1>10, ObjectsChanged
<1>12. TypeOK'
  <2>1. failures' \in 0 .. MaxFailures
    BY <1>1, <1>2, FailuresBounded
  <2>. QED
    BY <1>1, <1>11, <2>1 DEF TypeOK, ResizeBackbuffer
<1>13. ContextRestored'
  BY Pieces DEF ContextRestored, ResizeBackbuffer
<1>14. ClassInv' /\ CaptureInv'
  BY Pieces DEF ResizeBackbuffer, ClassInv, CaptureInv
<1>15. DrawsWithinBuffers'
  <2> SUFFICES ASSUME NEW w \in Views, drawn[w] # Undrawn
               PROVE  \A b \in Buffers : b \in d3d'[w].held /\ d3d'[w].size[b] >= drawn[w]
    BY <1>10 DEF DrawsWithinBuffers
  <2>1. \A b \in Buffers : b \in d3d[w].held /\ d3d[w].size[b] >= drawn[w]
    BY Pieces DEF DrawsWithinBuffers
  <2>2. CASE w = v
    BY <2>1, <2>2, <1>7, <1>9, <1>11
  <2>3. CASE w # v
    BY <2>1, <2>3, <1>11
  <2>. QED
    BY <2>2, <2>3
<1>. QED
  BY <1>11, <1>12, <1>13, <1>14, <1>15, PiecesNext

\* A step that changes the buttons some backend remembers, and the capture.
LEMMA InputInv ==
  ASSUME IInv, NEW h \in Contexts, NEW buttons \in SUBSET MouseButtons,
         HasBackend(platform[h]),
         platform' = [platform EXCEPT ![h] =
                        [platform[h] EXCEPT !.MouseButtonsDown = buttons]],
         down' \subseteq MouseButtons,
         capture' \in Views \cup {NoWindow}, capturer' \in Contexts \cup {NoContext},
         CaptureInv',
         UNCHANGED <<lists, current, view, d3d, system, retains, failures, refused, drawn>>
  PROVE  IInv'
<1> USE DEF lists, system
<1> DEFINE p == [platform[h] EXCEPT !.MouseButtonsDown = buttons]
<1>1. TypeOK
  BY Pieces
<1>2. platform[h] \in Platform(Contexts)
  BY <1>1 DEF TypeOK
<1>3. p \in Platform(Contexts) /\ p.hWnd = platform[h].hWnd
  BY <1>2 DEF Platform
<1> HIDE DEF p
<1>4. /\ platform' \in [Contexts -> Platform(Contexts)] /\ platform'[h] = p
      /\ \A c \in Contexts : c # h => platform'[c] = platform[c]
  BY <1>1, <1>3 DEF TypeOK, p
<1>5. TypeOK'
  BY <1>1, <1>4 DEF TypeOK
<1>6. ASSUME NEW w \in Views
      PROVE  Agrees(w, view'[w], d3d'[w], platform'[w], window', retains'[w])
  <2>1. Agrees(w, view[w], d3d[w], platform[w], window, retains[w])
    BY Pieces
  <2>2. CASE w # h
    <3>1. platform'[w] = platform[w]
      BY <2>2, <1>4, Names
    <3>. QED
      BY <2>1, <3>1
  <2>3. CASE w = h
    <3>1. view[w].attached
      BY <2>1, <2>3 DEF Agrees
    <3>2. HasBackend(platform'[w])
      BY <2>3, <1>3, <1>4 DEF HasBackend
    <3>. QED
      BY <2>1, <3>1, <3>2 DEF Agrees
  <2>. QED
    BY <2>2, <2>3
<1>7. ContextRestored' /\ ClassInv' /\ DrawsWithinBuffers'
  BY Pieces DEF ContextRestored, ClassInv, DrawsWithinBuffers
<1>. QED
  BY <1>5, <1>6, <1>7, PiecesNext

\* A button that no backend hears leaves nobody who took the mouse and hears all.
LEMMA UnheardInv ==
  ASSUME IInv, UNCHANGED <<lists, current, view, d3d, platform, system, capture,
                           retains, history>>,
         down' \subseteq MouseButtons,
         \/ UNCHANGED <<down, capturer>>
         \/ capturer' = NoContext
         \/ UNCHANGED capturer /\ capture = NoWindow
  PROVE  IInv'
<1> USE DEF lists, system, history
<1>1. TypeOK' /\ ContextRestored'
  BY Pieces DEF TypeOK, ContextRestored
<1>2. \A w \in Views : Agrees(w, view'[w], d3d'[w], platform'[w], window', retains'[w])
  BY Pieces
<1>3. ClassInv' /\ DrawsWithinBuffers' /\ CaptureInv'
  BY Pieces DEF ClassInv, DrawsWithinBuffers, CaptureInv
<1>. QED
  BY <1>1, <1>2, <1>3, PiecesNext

LEMMA ButtonsElsewhereInv ==
  ASSUME IInv, NEW buttons \in SUBSET MouseButtons, ButtonsElsewhere(buttons)
  PROVE  IInv'
BY UnheardInv DEF ButtonsElsewhere

\* A window with a message is one of the views', and so is whoever hears it.
LEMMA ReceiverKnown ==
  ASSUME IInv, NEW v \in Views, Receives(v)
  PROVE  /\ v \in window /\ capture \in {NoWindow, v} /\ v # NoWindow
         /\ Handler(v) # NoContext => Handler(v) \in Contexts
         /\ CaptureInv /\ TypeOK
<1>1. TypeOK /\ CaptureInv
  BY Pieces
<1>. QED
  BY <1>1, Names DEF Receives, Handler, TypeOK

\* The buttons a backend remembers after a message, which nobody else's change.
LEMMA Remembered ==
  ASSUME TypeOK, NEW h \in Contexts, NEW buttons \in SUBSET MouseButtons,
         platform' = [platform EXCEPT ![h] =
                        [platform[h] EXCEPT !.MouseButtonsDown = buttons]]
  PROVE  platform'[h].MouseButtonsDown = buttons
<1>1. platform[h] \in Platform(Contexts) /\ platform \in [Contexts -> Platform(Contexts)]
  BY DEF TypeOK
<1>2. [platform[h] EXCEPT !.MouseButtonsDown = buttons].MouseButtonsDown = buttons
  BY <1>1 DEF Platform
<1>3. platform'[h] = [platform[h] EXCEPT !.MouseButtonsDown = buttons]
  BY <1>1
<1>. QED
  BY <1>2, <1>3

LEMMA PressInv ==
  ASSUME IInv, NEW v \in Views, NEW button \in MouseButtons, Press(v, button)
  PROVE  IInv'
<1> DEFINE h == Handler(v)
<1>1. Receives(v) /\ down' = down \cup {button}
  BY DEF Press
<1>2. /\ v \in window /\ capture \in {NoWindow, v} /\ v # NoWindow
      /\ h # NoContext => h \in Contexts
      /\ CaptureInv /\ TypeOK
  BY <1>1, ReceiverKnown
<1>3. down' \subseteq MouseButtons
  BY <1>1, <1>2 DEF TypeOK
<1>4. CASE ~Hears(h)
  BY <1>1, <1>3, <1>4, UnheardInv DEF Press, Receives, history
<1>5. CASE Hears(h)
  <2> DEFINE lost == platform[h].MouseButtonsDown # {} /\ capture # v
             buttons == (IF lost THEN {} ELSE platform[h].MouseButtonsDown) \cup {button}
  <2>1. h \in Contexts /\ HasBackend(platform[h]) /\ platform[h] \in Platform(Contexts)
    BY <1>2, <1>5 DEF TypeOK, Hears
  <2>2. buttons \in SUBSET MouseButtons /\ buttons # {}
    BY <2>1 DEF Platform
  <2>3. platform' = [platform EXCEPT ![h] =
                       [platform[h] EXCEPT !.MouseButtonsDown = buttons]]
    BY <1>5 DEF Press, Pressed
  <2>4. /\ capture' = v
        /\ capturer' = IF capture = NoWindow THEN h ELSE StillHears(h)
    BY <1>2, <1>5 DEF Press, CapturesAtPress
  <2>5. capturer' \in {h, NoContext}
        /\ (capturer' = h /\ h # NoContext => capture = NoWindow \/ capturer = h)
    BY <2>4 DEF StillHears
  <2>6. UNCHANGED <<lists, current, view, d3d, system, retains, failures, refused, drawn>>
    BY <1>1 DEF Receives
  <2>7. platform'[h].MouseButtonsDown = buttons
    <3> HIDE DEF buttons, h
    <3>. QED
      BY <1>2, <2>1, <2>2, <2>3, Remembered
  <2>8. ASSUME capturer' # NoContext
        PROVE  buttons \subseteq down'
    <3>1. capture = NoWindow \/ capturer = h
      BY <2>5, <2>8
    <3>2. CASE capture = NoWindow
      BY <3>2, <1>1, <1>2
    <3>3. CASE capture # NoWindow /\ capturer = h
      BY <3>3, <1>1, <1>2, <2>1, Names DEF CaptureInv
    <3>. QED
      BY <3>1, <3>2, <3>3
  <2> HIDE DEF buttons
  <2>9. CaptureInv'
    BY <2>2, <2>5, <2>7, <2>8 DEF CaptureInv
  <2>10. capture' \in Views \cup {NoWindow} /\ capturer' \in Contexts \cup {NoContext}
    BY <2>1, <2>4, <2>5
  <2>. QED
    BY <1>3, <2>1, <2>2, <2>3, <2>6, <2>9, <2>10, InputInv
<1>. QED
  BY <1>4, <1>5

LEMMA LetGoInv ==
  ASSUME IInv, NEW v \in Views, NEW button \in MouseButtons, LetGo(v, button)
  PROVE  IInv'
<1> DEFINE h == Handler(v)
<1>1. Receives(v) /\ down' = down \ {button}
  BY DEF LetGo
<1>2. /\ v \in window /\ capture \in {NoWindow, v} /\ v # NoWindow
      /\ h # NoContext => h \in Contexts
      /\ CaptureInv /\ TypeOK
  BY <1>1, ReceiverKnown
<1>3. down' \subseteq MouseButtons
  BY <1>1, <1>2 DEF TypeOK
<1>4. CASE ~Hears(h)
  BY <1>1, <1>3, <1>4, UnheardInv DEF LetGo, Receives, history
<1>5. CASE Hears(h)
  <2> DEFINE buttons == platform[h].MouseButtonsDown \ {button}
             gave == platform[h].MouseButtonsDown \subseteq {button} /\ capture = v
  <2>1. h \in Contexts /\ HasBackend(platform[h]) /\ platform[h] \in Platform(Contexts)
    BY <1>2, <1>5 DEF TypeOK, Hears
  <2>2. buttons \in SUBSET MouseButtons
    BY <2>1 DEF Platform
  <2>3. platform' = [platform EXCEPT ![h] =
                       [platform[h] EXCEPT !.MouseButtonsDown = buttons]]
    BY <1>5 DEF LetGo, Unpressed
  <2>4. /\ capture' = IF gave THEN NoWindow ELSE capture
        /\ capturer' = IF gave THEN NoContext ELSE StillHears(h)
    BY <1>5 DEF LetGo, ReleasesCapture
  <2>5. UNCHANGED <<lists, current, view, d3d, system, retains, failures, refused, drawn>>
    BY <1>1 DEF Receives
  <2>6. platform'[h].MouseButtonsDown = buttons
    <3> HIDE DEF buttons, gave, h
    <3>. QED
      BY <1>2, <2>1, <2>2, <2>3, Remembered
  <2>7. CaptureInv'
    <3> SUFFICES ASSUME capture' # NoWindow, capturer' # NoContext
                 PROVE  /\ platform'[capturer'].MouseButtonsDown # {}
                        /\ platform'[capturer'].MouseButtonsDown \subseteq down'
      BY DEF CaptureInv
    <3>1. ~gave /\ capture = v /\ capturer' = h /\ capturer = h
      BY <1>2, <2>4 DEF StillHears
    <3>2. platform[h].MouseButtonsDown \subseteq down
      BY <1>2, <2>1, <3>1, Names DEF CaptureInv
    <3>3. buttons # {} /\ buttons \subseteq down'
      BY <1>1, <3>1, <3>2
    <3>. QED
      BY <2>6, <3>1, <3>3
  <2>8. capture' \in Views \cup {NoWindow} /\ capturer' \in Contexts \cup {NoContext}
    BY <1>2, <2>1, <2>4 DEF TypeOK, StillHears
  <2>. QED
    BY <1>3, <2>1, <2>2, <2>3, <2>5, <2>7, <2>8, InputInv
<1>. QED
  BY <1>4, <1>5

LEMMA LoseCaptureInv ==
  ASSUME IInv, LoseCapture
  PROVE  IInv'
<1> USE DEF LoseCapture, lists, system, history
<1>1. TypeOK' /\ ContextRestored'
  BY Pieces DEF TypeOK, ContextRestored
<1>2. \A w \in Views : Agrees(w, view'[w], d3d'[w], platform'[w], window', retains'[w])
  BY Pieces
<1>3. ClassInv' /\ DrawsWithinBuffers' /\ CaptureInv'
  BY Pieces DEF ClassInv, DrawsWithinBuffers, CaptureInv
<1>. QED
  BY <1>1, <1>2, <1>3, PiecesNext

-----------------------------------------------------------------------------
(* The theorems                                                            *)

LEMMA NextInv == IInv /\ [Next]_vars => IInv'
<1> SUFFICES ASSUME IInv, [Next]_vars PROVE IInv'
  OBVIOUS
<1>1. CASE \E c \in {NoContext, Host} : HostSwitches(c)
  BY <1>1, HostSwitchesInv
<1>2. CASE EndFrame
  BY <1>2, EndFrameInv
<1>3. CASE LoseCapture
  BY <1>3, LoseCaptureInv
<1>4. ASSUME NEW v \in Views,
             \/ Create(v) \/ Release(v)
             \/ Attach(v) \/ Detach(v)
             \/ BeginFrame(v)
             \/ ResizeBackbuffer(v)
             \/ \E button \in MouseButtons : Press(v, button) \/ LetGo(v, button)
      PROVE  IInv'
  <2>1. CASE Create(v)
    BY <2>1, CreateInv
  <2>2. CASE Release(v)
    BY <2>2, ReleaseInv
  <2>3. CASE Attach(v)
    BY <2>3, AttachInv
  <2>4. CASE Detach(v)
    BY <2>4, DetachInv
  <2>5. CASE BeginFrame(v)
    BY <2>5, BeginFrameInv
  <2>6. CASE ResizeBackbuffer(v)
    BY <2>6, ResizeBackbufferInv
  <2>7. CASE \E button \in MouseButtons : Press(v, button) \/ LetGo(v, button)
    BY <2>7, PressInv, LetGoInv
  <2>. QED
    BY <1>4, <2>1, <2>2, <2>3, <2>4, <2>5, <2>6, <2>7
<1>5. CASE \E buttons \in SUBSET MouseButtons : ButtonsElsewhere(buttons)
  BY <1>5, ButtonsElsewhereInv
<1>6. CASE UNCHANGED vars
  <2>1. down' \subseteq MouseButtons
    BY <1>6, Pieces DEF TypeOK, vars, mouse
  <2>. QED
    BY <1>6, <2>1, UnheardInv DEF vars, mouse
<1>. QED
  BY <1>1, <1>2, <1>3, <1>4, <1>5, <1>6 DEF Next

\* The inductive invariant holds throughout.
THEOREM AlwaysIInv == Spec => []IInv
BY InitIInv, NextInv, PTL DEF Spec

\* A host that uses Dear ImGui itself always finds the context it chose: however
\* deep draw callbacks nest, of the same view or of others, ImGui's current context
\* is the host's outside them, the drawing view's inside, and what a callback puts
\* back exists, unless its view was detached or released under one of its own
\* frames (pi_imgui_view.cpp on_idle, create_resources, destroy_resources).
THEOREM ContextAlwaysRestored == Spec => []ContextRestored
<1>1. IInv => ContextRestored
  BY DEF IInv
<1>. QED
  BY AlwaysIInv, <1>1, PTL

\* No D3D object, window, backend or reference to the plugin is lost or given
\* back twice, wherever attach, a frame or a resize gives up.
THEOREM ResourcesAlwaysBalanced == Spec => []ResourcesBalanced
<1>1. IInv => ResourcesBalanced
  BY DEF IInv
<1>. QED
  BY AlwaysIInv, <1>1, PTL

\* A frame is drawn only from buffers that exist and hold it, also after one
\* whose allocation failed with the new size noted (imgui_impl_dx11.cpp).
THEOREM FramesFitTheirBuffers == Spec => []DrawsWithinBuffers
<1>1. IInv => DrawsWithinBuffers
  BY DEF IInv
<1>. QED
  BY AlwaysIInv, <1>1, PTL

\* A window keeps the mouse only while a button is held, if the context that took
\* it has heard every button since (imgui_impl_win32.cpp).
THEOREM CaptureEndsWithTheButtons == Spec => []CapturedWhileHeard
<1>1. IInv => CapturedWhileHeard
  BY DEF IInv, CaptureInv, CapturedWhileHeard
<1>. QED
  BY AlwaysIInv, <1>1, PTL

=============================================================================
