----------------------------- MODULE QtViewProofs -----------------------------
(***************************************************************************)
(* What the Qt adapter keeps for all addresses, plugins and depths of      *)
(* nesting.                                                                *)
(*                                                                         *)
(* The difficulty is the stack: an operation that drains Qt's events is    *)
(* interrupted by posted calls, which make other operations happen, and    *)
(* goes on later in a state it did not leave.  The inductive invariant     *)
(* says what each operation on the stack may still rely on.                *)
(***************************************************************************)
EXTENDS QtView, TLAPS

-----------------------------------------------------------------------------
(* The inductive invariant                                                 *)

\* The steps each operation has.
FrameShape(f) ==
  /\ f.op = "detach" => f.on \in Addresses /\ f.step \in {"drain", "call"}
  /\ f.op = "view_destroy" => f.on \in Addresses /\ f.step # "sweep"
  /\ f.op = "on_idle" => f.step \in {"drain", "call"}
  /\ f.op = "shutdown_owner" => f.step = "sweep"
  /\ f.op = "shutdown" => f.step # "unregister"
  /\ f.step = "call" => f.calls # <<>>

\* Only a detach is ever nested, in an operation that does not drain itself.
StackShape ==
  \A i \in DOMAIN frames :
    /\ FrameShape(frames[i])
    /\ i > 1 => frames[i].op = "detach"
    /\ i < Len(frames) => frames[i].step \in {"sweep", "unregister", "call"}

\* The registry lists each view there is once; one that is released is detached.
ViewsInv ==
  /\ \A a \in Addresses : views[a].attached => views[a].state = "alive"
  /\ \A a \in Addresses : views[a].state = "alive" <=> a \in Elements(g_live_views)
  /\ \A i, j \in DOMAIN g_live_views : g_live_views[i] = g_live_views[j] => i = j
  /\ \A i \in DOMAIN frames :
       frames[i].op = "view_destroy" =>
         /\ ~views[frames[i].on].attached
         /\ frames[i].step = "unregister" => views[frames[i].on].state = "alive"

\* An operation that is about to delete the application.
Closing(f) ==
  f.op \in {"view_destroy", "shutdown"} /\ f.step \in {"drain", "call", "delete"}

\* No widget is left by then, and the end of the last view is such an operation.
AppInv ==
  /\ AppWhileAttached
  /\ \A i \in DOMAIN frames :
       Closing(frames[i]) => \A a \in Addresses : ~views[a].attached
  /\ g_live_views = <<>> /\ g_app =>
       frames # <<>> /\ frames[1].op = "view_destroy" /\ Closing(frames[1])

\* A view is being detached at most once at a time, and has no widget then.
RetainInv ==
  /\ \A a \in Addresses : views[a].attached => ~BeingDetached(a)
  /\ \A i, j \in DOMAIN frames :
       /\ frames[i].op = "detach" /\ frames[j].op = "detach"
       /\ frames[i].on = frames[j].on
       => i = j
  /\ \A a \in Addresses :
       views[a].retained = IF views[a].attached \/ BeingDetached(a) THEN 1 ELSE 0

IInv == ProgramOK /\ StackShape /\ ViewsInv /\ AppInv /\ RetainInv

-----------------------------------------------------------------------------
(* The stack                                                               *)

LEMMA Pushed ==
  ASSUME frames \in Seq(Frame), NEW f \in Frame, Push(f)
  PROVE  /\ frames' \in Seq(Frame)
         /\ Len(frames') = Len(frames) + 1
         /\ DOMAIN frames' = DOMAIN frames \cup {Len(frames) + 1}
         /\ \A i \in DOMAIN frames : frames'[i] = frames[i]
         /\ frames'[Len(frames) + 1] = f
         /\ frames' # <<>>
  BY DEF Push

LEMMA TopIsFrame ==
  ASSUME frames \in Seq(Frame), ~InHostLoop
  PROVE  /\ Len(frames) \in DOMAIN frames
         /\ Top \in Frame
         /\ Top = frames[Len(frames)]
         /\ Len(frames) \in Nat \ {0}
         /\ DOMAIN frames = 1 .. Len(frames)
  BY DEF InHostLoop, Top

LEMMA TopSet ==
  ASSUME frames \in Seq(Frame), ~InHostLoop, NEW f \in Frame, SetTop(f)
  PROVE  /\ frames' \in Seq(Frame)
         /\ Len(frames') = Len(frames)
         /\ DOMAIN frames' = DOMAIN frames
         /\ \A i \in DOMAIN frames : i # Len(frames) => frames'[i] = frames[i]
         /\ frames'[Len(frames)] = f
         /\ frames' # <<>>
  BY DEF SetTop, InHostLoop

LEMMA Returned ==
  ASSUME frames \in Seq(Frame), ~InHostLoop, Return
  PROVE  /\ frames' \in Seq(Frame)
         /\ Len(frames') = Len(frames) - 1
         /\ DOMAIN frames' = DOMAIN frames \ {Len(frames)}
         /\ \A i \in DOMAIN frames' : frames'[i] = frames[i] /\ i < Len(frames)
         /\ frames' # <<>> <=> Len(frames) > 1
<1> DEFINE n == Len(frames)
<1>1. n \in Nat /\ n > 0 /\ DOMAIN frames = 1 .. n
  BY TopIsFrame
<1>2. frames' = SubSeq(frames, 1, n - 1)
  BY DEF Return
<1>3. /\ frames' \in Seq(Frame) /\ Len(frames') = n - 1
      /\ \A i \in 1 .. n - 1 : frames'[i] = frames[i]
  BY <1>1, <1>2
<1>4. DOMAIN frames' = 1 .. n - 1
  BY <1>1, <1>3
<1>5. frames' # <<>> <=> n > 1
  BY <1>1, <1>3
<1>. QED
  BY <1>1, <1>3, <1>4, <1>5

LEMMA EmptyStack ==
  ASSUME frames \in Seq(Frame), InHostLoop
  PROVE  DOMAIN frames = {} /\ Len(frames) = 0
  BY DEF InHostLoop

\* Calling something from the stack, going on and coming back.
LEMMA Entered ==
  ASSUME NEW op \in {"on_idle", "detach", "view_destroy", "shutdown_owner", "shutdown"},
         NEW step \in {"sweep", "unregister", "drain", "call", "delete"},
         NEW on \in Addresses \cup Plugins \cup {NoView}
  PROVE  /\ Enter(op, step, on) \in Frame
         /\ Enter(op, step, on).op = op
         /\ Enter(op, step, on).step = step
         /\ Enter(op, step, on).on = on
         /\ Enter(op, step, on).calls = <<>>
  BY DEF Enter, Frame

LEMMA GoesOn ==
  ASSUME frames \in Seq(Frame), ~InHostLoop,
         NEW step \in {"sweep", "unregister", "drain", "call", "delete"}, GoOn(step)
  PROVE  LET f == [Top EXCEPT !.step = step]
         IN  /\ f \in Frame /\ f.op = Top.op /\ f.on = Top.on
             /\ f.step = step /\ f.calls = Top.calls
             /\ SetTop(f)
  BY TopIsFrame DEF Frame, GoOn

-----------------------------------------------------------------------------
(* The fields of a view                                                    *)

LEMMA EmbeddedView ==
  ASSUME NEW r \in View
  PROVE  /\ Embedded(r) \in View
         /\ Embedded(r).state = r.state /\ Embedded(r).owner = r.owner
         /\ Embedded(r).attached /\ Embedded(r).accept
         /\ Embedded(r).retained = r.retained + 1
<1>1. r.retained + 1 \in Nat
  BY DEF View
<1>2. Embedded(r) \in View
  BY <1>1 DEF Embedded, View
<1>3. /\ Embedded(r).state = r.state /\ Embedded(r).owner = r.owner
      /\ Embedded(r).retained = r.retained + 1
  BY DEF Embedded, View
<1>4. Embedded(r).attached /\ Embedded(r).accept
  BY DEF Embedded, View
<1>. QED
  BY <1>2, <1>3, <1>4

LEMMA AbandonedView ==
  ASSUME NEW r \in View
  PROVE  /\ Abandoned(r) \in View
         /\ Abandoned(r).state = r.state /\ Abandoned(r).owner = r.owner
         /\ Abandoned(r).attached = r.attached /\ Abandoned(r).accept
         /\ Abandoned(r).retained = r.retained
  BY DEF Abandoned, View

LEMMA DetachedView ==
  ASSUME NEW r \in View
  PROVE  /\ Detached(r) \in View
         /\ Detached(r).state = r.state /\ Detached(r).owner = r.owner
         /\ ~Detached(r).attached /\ ~Detached(r).accept
         /\ Detached(r).retained = r.retained
  BY DEF Detached, View

LEMMA ElementsAppended ==
  ASSUME NEW S, NEW s \in Seq(S), NEW x \in S
  PROVE  /\ Elements(Append(s, x)) = Elements(s) \cup {x}
         /\ Append(s, x) # <<>> /\ Append(s, x) \in Seq(S)
         /\ x \notin Elements(s) /\ (\A i, j \in DOMAIN s : s[i] = s[j] => i = j) =>
              \A i, j \in DOMAIN Append(s, x) : Append(s, x)[i] = Append(s, x)[j] => i = j
<1> DEFINE t == Append(s, x)
<1>1. /\ t \in Seq(S) /\ t # <<>> /\ Len(t) = Len(s) + 1 /\ Len(s) \in Nat
      /\ DOMAIN t = 1 .. Len(s) + 1 /\ DOMAIN s = 1 .. Len(s)
      /\ \A i \in 1 .. Len(s) : t[i] = s[i]
      /\ t[Len(s) + 1] = x
  OBVIOUS
<1> HIDE DEF t
<1>2. Elements(t) \subseteq Elements(s) \cup {x}
  BY <1>1 DEF Elements
<1>3. x \in Elements(t)
  BY <1>1 DEF Elements
<1>4. Elements(s) \subseteq Elements(t)
  BY <1>1 DEF Elements
<1>5. ASSUME x \notin Elements(s), \A i, j \in DOMAIN s : s[i] = s[j] => i = j,
             NEW i \in DOMAIN t, NEW j \in DOMAIN t, t[i] = t[j]
      PROVE  i = j
  <2>1. \A h \in 1 .. Len(s) : s[h] # x
    BY <1>1, <1>5 DEF Elements
  <2>. QED
    BY <1>1, <1>5, <2>1
<1>. QED
  BY <1>1, <1>2, <1>3, <1>4, <1>5 DEF t

\* Without the view that leaves, the registry lists the others as before.
LEMMA ElementsUnlisted ==
  ASSUME NEW S, NEW s \in Seq(S), NEW a \in Elements(s),
         \A i, j \in DOMAIN s : s[i] = s[j] => i = j
  PROVE  LET t == Unlisted(s, a)
         IN  /\ t \in Seq(S) /\ Elements(t) = Elements(s) \ {a}
             /\ \A i, j \in DOMAIN t : t[i] = t[j] => i = j
<1> DEFINE t == Unlisted(s, a)
<1>1. Len(s) \in Nat /\ DOMAIN s = 1 .. Len(s) /\ \A i \in 1 .. Len(s) : s[i] \in S
  OBVIOUS
<1>2. PICK k \in 1 .. Len(s) : s[k] = a
  BY <1>1 DEF Elements
<1>3. /\ DOMAIN t = 1 .. Len(s) - 1
      /\ \A i \in 1 .. Len(s) - 1 :
           t[i] = IF \E j \in 1 .. i : s[j] = a THEN s[i + 1] ELSE s[i]
  BY DEF Unlisted
<1>4. \A i \in 1 .. Len(s) - 1 : (\E j \in 1 .. i : s[j] = a) <=> k <= i
  BY <1>1, <1>2
<1>5. \A i \in 1 .. Len(s) - 1 : t[i] = IF k <= i THEN s[i + 1] ELSE s[i]
  BY <1>3, <1>4
<1>6. t \in Seq(S)
  <2>1. Len(s) - 1 \in Nat
    BY <1>1, <1>2
  <2>2. \A i \in 1 .. Len(s) - 1 : t[i] \in S
    BY <1>1, <1>5
  <2>. QED
    BY <2>1, <2>2, <1>3 DEF Unlisted
<1> HIDE DEF t
<1>7. Elements(t) \subseteq Elements(s) \ {a}
  <2>. SUFFICES ASSUME NEW i \in 1 .. Len(s) - 1
                PROVE  t[i] \in Elements(s) \ {a}
    BY <1>3 DEF Elements
  <2>1. CASE k <= i
    BY <1>1, <1>2, <1>5, <2>1 DEF Elements
  <2>2. CASE ~(k <= i)
    BY <1>1, <1>2, <1>5, <2>2 DEF Elements
  <2>. QED
    BY <2>1, <2>2
<1>8. Elements(s) \ {a} \subseteq Elements(t)
  <2>. SUFFICES ASSUME NEW j \in 1 .. Len(s), s[j] # a
                PROVE  \E i \in 1 .. Len(s) - 1 : t[i] = s[j]
    <3>1. Elements(t) = {t[i] : i \in 1 .. Len(s) - 1}
      BY <1>3 DEF Elements
    <3>2. Elements(s) = {s[j] : j \in 1 .. Len(s)}
      BY <1>1 DEF Elements
    <3>. QED
      BY <3>1, <3>2
  <2>1. CASE j < k
    BY <1>1, <1>2, <1>5, <2>1
  <2>2. CASE j > k
    <3>1. j - 1 \in 1 .. Len(s) - 1 /\ k <= j - 1 /\ (j - 1) + 1 = j
      BY <1>1, <1>2, <2>2
    <3>2. t[j - 1] = s[j]
      BY <1>5, <3>1
    <3>. QED
      BY <3>1, <3>2
  <2>. QED
    BY <1>1, <1>2, <2>1, <2>2
<1>9. ASSUME NEW i \in DOMAIN t, NEW j \in DOMAIN t, t[i] = t[j]
      PROVE  i = j
  <2> DEFINE p == IF k <= i THEN i + 1 ELSE i
             q == IF k <= j THEN j + 1 ELSE j
  <2>1. p \in DOMAIN s /\ q \in DOMAIN s /\ t[i] = s[p] /\ t[j] = s[q]
    BY <1>1, <1>2, <1>3, <1>5
  <2>2. p = q
    BY <1>9, <2>1
  <2>. QED
    BY <1>1, <1>2, <1>3, <2>2
<1>. QED
  BY <1>6, <1>7, <1>8, <1>9 DEF t

-----------------------------------------------------------------------------
(* Views come and go                                                       *)

LEMMA InitInv == Init => IInv
<1>. SUFFICES ASSUME Init PROVE IInv
  OBVIOUS
<1>1. ProgramOK
  <2>1. views \in [Addresses -> View]
    BY DEF Init, View
  <2>3. posted \in 0 .. MaxPosts /\ events \in Nat
    BY QtConstants DEF Init, QtConstants
  <2>4. g_app \in BOOLEAN /\ g_app_shutdown \in BOOLEAN /\ g_post_marshaller \in BOOLEAN
    BY DEF Init
  <2>5. posting \subseteq Plugins /\ terminated \subseteq Plugins /\ ran \subseteq 1 .. MaxPosts
    BY DEF Init
  <2>2. /\ weak \in [Plugins -> Addresses \cup {NoView}]
        /\ g_live_views \in Seq(Addresses) /\ m_queue \in Seq(Call)
        /\ frames \in Seq(Frame)
    BY DEF Init
  <2>. QED
    BY <2>1, <2>2, <2>3, <2>4, <2>5 DEF ProgramOK
<1>2. frames = <<>> /\ g_live_views = <<>> /\ DOMAIN frames = {} /\ ~g_app
  BY DEF Init
<1>3. \A a \in Addresses : ~views[a].attached /\ views[a].state = "unused"
                           /\ views[a].retained = 0 /\ ~BeingDetached(a)
  BY <1>2 DEF Init, BeingDetached
<1>4. StackShape /\ AppInv
  BY <1>2, <1>3 DEF StackShape, AppInv, AppWhileAttached
<1>5. ViewsInv
  BY <1>2, <1>3 DEF ViewsInv, Elements
<1>6. RetainInv
  BY <1>2, <1>3 DEF RetainInv
<1>. QED
  BY <1>1, <1>4, <1>5, <1>6 DEF IInv

LEMMA CreateInv ==
  ASSUME IInv, NEW p \in Plugins, NEW a \in Addresses, View_Create(p, a)
  PROVE  IInv'
<1> DEFINE new == [state |-> "alive", owner |-> p, attached |-> FALSE,
                   accept |-> FALSE, retained |-> 0]
<1>1. /\ views \in [Addresses -> View] /\ g_live_views \in Seq(Addresses)
      /\ views' = [views EXCEPT ![a] = new]
      /\ g_live_views' = Append(g_live_views, a)
      /\ frames = <<>> /\ frames' = frames /\ DOMAIN frames = {}
      /\ views[a].state # "alive"
  BY DEF IInv, ProgramOK, View_Create, InHostLoop
<1>2. /\ new \in View /\ new.state = "alive" /\ ~new.attached /\ new.retained = 0
  BY DEF View
<1>3. /\ views' \in [Addresses -> View] /\ views'[a] = new
      /\ \A b \in Addresses : b # a => views'[b] = views[b]
  BY <1>1, <1>2
<1>4. ProgramOK'
  <2>1. weak' \in [Plugins -> Addresses \cup {NoView}] /\ g_live_views' \in Seq(Addresses)
    BY <1>1 DEF IInv, ProgramOK, View_Create
  <2>2. frames' \in Seq(Frame)
    BY <1>1 DEF IInv, ProgramOK
  <2>3. UNCHANGED <<appVars, postVars, terminated, ran>>
    BY DEF View_Create
  <2>. QED
    BY <1>3, <2>1, <2>2, <2>3 DEF IInv, ProgramOK, appVars, postVars
<1>5. /\ g_live_views' # <<>> /\ Elements(g_live_views') = Elements(g_live_views) \cup {a}
      /\ \A i, j \in DOMAIN g_live_views' : g_live_views'[i] = g_live_views'[j] => i = j
  BY <1>1, ElementsAppended DEF IInv, ViewsInv
<1>6. StackShape'
  BY <1>1 DEF StackShape
<1>7. ViewsInv'
  BY <1>1, <1>2, <1>3, <1>5 DEF IInv, ViewsInv
<1>8. AppInv'
  <2>1. g_app' = g_app
    BY DEF View_Create, appVars
  <2>. QED
    BY <1>1, <1>2, <1>3, <1>5, <2>1 DEF IInv, AppInv, AppWhileAttached
<1>9. RetainInv'
  BY <1>1, <1>2, <1>3 DEF IInv, RetainInv, BeingDetached
<1>. QED
  BY <1>4, <1>6, <1>7, <1>8, <1>9 DEF IInv

\* A widget appears only in the host's loop.
LEMMA AttachInv ==
  ASSUME IInv, NEW a \in Addresses, Attach(a)
  PROVE  IInv'
<1>1. /\ views \in [Addresses -> View] /\ frames = <<>> /\ frames' = frames
      /\ DOMAIN frames = {} /\ views[a].state = "alive" /\ ~views[a].attached
      /\ g_live_views' = g_live_views /\ g_app' = TRUE
  BY DEF IInv, ProgramOK, Attach, AppCreate, InHostLoop
<1>2. views[a].retained = 0 /\ a \in Elements(g_live_views)
  BY <1>1 DEF IInv, RetainInv, ViewsInv, BeingDetached
<1>3. PICK v \in {Embedded(views[a]), Abandoned(views[a])} :
        views' = [views EXCEPT ![a] = v]
  BY DEF Attach
<1>4. /\ v \in View /\ v.state = "alive"
      /\ v.retained = IF v.attached THEN 1 ELSE 0
  <2>1. views[a] \in View
    BY <1>1
  <2>2. CASE v = Embedded(views[a])
    BY <1>2, <2>1, <2>2, EmbeddedView, <1>1
  <2>3. CASE v = Abandoned(views[a])
    BY <1>1, <1>2, <2>1, <2>3, AbandonedView
  <2>. QED
    BY <1>3, <2>2, <2>3
<1>5. /\ views' \in [Addresses -> View] /\ views'[a] = v
      /\ \A b \in Addresses : b # a => views'[b] = views[b]
  BY <1>1, <1>3, <1>4
<1>6. ProgramOK'
  BY <1>5 DEF IInv, ProgramOK, Attach, AppCreate, postVars
<1>7. g_live_views # <<>>
  BY <1>2 DEF Elements
<1>8. StackShape'
  BY <1>1 DEF StackShape
<1>9. ViewsInv'
  BY <1>1, <1>2, <1>4, <1>5 DEF IInv, ViewsInv
<1>10. AppInv'
  BY <1>1, <1>5, <1>7 DEF IInv, AppInv, AppWhileAttached
<1>11. RetainInv'
  BY <1>1, <1>4, <1>5 DEF IInv, RetainInv, BeingDetached
<1>. QED
  BY <1>6, <1>8, <1>9, <1>10, <1>11 DEF IInv

-----------------------------------------------------------------------------
(* Operations begin                                                        *)

LEMMA BeganDetach ==
  ASSUME IInv, NEW a \in Addresses, BeginDetach(a)
  PROVE  /\ views' \in [Addresses -> View]
         /\ ~views'[a].attached /\ ~views'[a].accept
         /\ \A b \in Addresses :
              /\ b # a => views'[b] = views[b]
              /\ views'[b].state = views[b].state
              /\ views'[b].owner = views[b].owner
              /\ views'[b].retained = views[b].retained
              /\ views'[b].attached => views[b].attached
<1>1. views \in [Addresses -> View] /\ views' = [views EXCEPT ![a] = Detached(views[a])]
  BY DEF IInv, ProgramOK, BeginDetach
<1>. QED
  BY <1>1, DetachedView

\* A detach joins the stack, from the host's loop, a posted call or a sweep.
LEMMA DetachPushed ==
  ASSUME IInv, NEW a \in Addresses, views[a].attached, BeginDetach(a),
         InHostLoop \/ Top.step \in {"sweep", "call"},
         Push(Enter("detach", "drain", a)),
         UNCHANGED <<g_live_views, weak, appVars, postVars, terminated, ran>>
  PROVE  IInv'
<1> DEFINE f == Enter("detach", "drain", a)  n == Len(frames)
<1>1. /\ f \in Frame /\ f.op = "detach" /\ f.step = "drain" /\ f.on = a /\ f.calls = <<>>
  BY Entered
<1>2. frames \in Seq(Frame) /\ Push(f)
  BY DEF IInv, ProgramOK
<1> HIDE DEF f
<1>3. /\ frames' \in Seq(Frame) /\ Len(frames') = n + 1 /\ n \in Nat
      /\ DOMAIN frames' = DOMAIN frames \cup {n + 1} /\ n + 1 \notin DOMAIN frames
      /\ \A i \in DOMAIN frames : frames'[i] = frames[i] /\ i \in Nat /\ i <= n
      /\ frames'[n + 1] = f /\ frames' # <<>>
  <2>1. n \in Nat /\ DOMAIN frames = 1 .. n
    BY <1>2
  <2>2. /\ frames' \in Seq(Frame) /\ Len(frames') = n + 1
        /\ DOMAIN frames' = DOMAIN frames \cup {n + 1}
        /\ \A i \in DOMAIN frames : frames'[i] = frames[i]
        /\ frames'[n + 1] = f /\ frames' # <<>>
    BY <1>1, <1>2, Pushed
  <2>. QED
    BY <2>1, <2>2
<1>4. /\ views' \in [Addresses -> View] /\ ~views'[a].attached
      /\ \A b \in Addresses :
           /\ b # a => views'[b] = views[b]
           /\ views'[b].state = views[b].state
           /\ views'[b].retained = views[b].retained
           /\ views'[b].attached => views[b].attached
  BY BeganDetach
<1>5. ProgramOK'
  BY <1>3, <1>4 DEF IInv, ProgramOK, appVars, postVars
<1>6. StackShape'
  <2>1. \A i \in DOMAIN frames : i = n => frames[i].step \in {"sweep", "unregister", "call"}
    BY <1>2, EmptyStack DEF Top
  <2>2. FrameShape(f)
    BY <1>1 DEF FrameShape
  <2>3. ASSUME NEW i \in DOMAIN frames
        PROVE  /\ FrameShape(frames'[i])
               /\ i > 1 => frames'[i].op = "detach"
               /\ frames'[i].step \in {"sweep", "unregister", "call"}
    BY <1>3, <2>1 DEF IInv, StackShape
  <2>. QED
    BY <1>1, <1>3, <2>2, <2>3 DEF StackShape
<1>7. ViewsInv'
  <2>1. UNCHANGED g_live_views
    OBVIOUS
  <2>2. ASSUME NEW i \in DOMAIN frames', frames'[i].op = "view_destroy"
        PROVE  /\ ~views'[frames'[i].on].attached
               /\ frames'[i].step = "unregister" => views'[frames'[i].on].state = "alive"
    <3>1. i \in DOMAIN frames /\ frames'[i] = frames[i]
      BY <1>1, <1>3, <2>2
    <3>2. /\ frames[i].on \in Addresses /\ ~views[frames[i].on].attached
          /\ frames[i].step = "unregister" => views[frames[i].on].state = "alive"
      BY <2>2, <3>1 DEF IInv, StackShape, FrameShape, ViewsInv
    <3>. QED
      BY <1>4, <3>1, <3>2
  <2>. QED
    BY <1>4, <2>1, <2>2 DEF IInv, ViewsInv
<1>8. AppInv'
  <2>1. g_app' = g_app /\ g_live_views' = g_live_views
    BY DEF appVars
  <2>2. ~Closing(f)
    BY <1>1 DEF Closing
  <2>3. \A i \in DOMAIN frames' : Closing(frames'[i]) => \A b \in Addresses : ~views'[b].attached
    BY <1>3, <1>4, <2>2 DEF IInv, AppInv
  <2>4. \A b \in Addresses : views'[b].attached => g_app'
    BY <1>4, <2>1 DEF IInv, AppInv, AppWhileAttached
  <2>5. frames # <<>> => frames'[1] = frames[1]
    BY <1>2, <1>3
  <2>. QED
    BY <1>3, <2>1, <2>3, <2>4, <2>5 DEF IInv, AppInv, AppWhileAttached
<1>9. RetainInv'
  <2>1. ~BeingDetached(a) /\ views[a].retained = 1
    BY DEF IInv, RetainInv
  <2>2. \A b \in Addresses : BeingDetached(b)' <=> BeingDetached(b) \/ b = a
    BY <1>1, <1>3 DEF BeingDetached
  <2>3. ASSUME NEW i \in DOMAIN frames', NEW j \in DOMAIN frames',
               frames'[i].op = "detach", frames'[j].op = "detach",
               frames'[i].on = frames'[j].on
        PROVE  i = j
    <3>1. CASE i \in DOMAIN frames /\ j \in DOMAIN frames
      BY <1>3, <2>3, <3>1 DEF IInv, RetainInv
    <3>2. CASE i = n + 1 \/ j = n + 1
      BY <1>1, <1>3, <2>1, <2>3, <3>2 DEF BeingDetached
    <3>. QED
      BY <1>3, <3>1, <3>2
  <2>. QED
    BY <1>4, <2>1, <2>2, <2>3 DEF IInv, RetainInv
<1>. QED
  BY <1>5, <1>6, <1>7, <1>8, <1>9 DEF IInv

\* An operation that leaves the views alone begins in the host's loop.
LEMMA StartsInLoop ==
  ASSUME IInv, InHostLoop, NEW f \in Frame, Push(f), FrameShape(f), ~Closing(f),
         f.op \notin {"detach", "view_destroy"},
         UNCHANGED <<viewVars, appVars, postVars, ran>>, terminated' \subseteq Plugins
  PROVE  IInv'
<1>1. frames \in Seq(Frame)
  BY DEF IInv, ProgramOK
<1>2. /\ frames' \in Seq(Frame) /\ DOMAIN frames' = {1} /\ Len(frames') = 1
      /\ frames'[1] = f /\ frames' # <<>> /\ DOMAIN frames = {}
  BY <1>1, Pushed, EmptyStack
<1>3. ProgramOK'
  BY <1>2 DEF IInv, ProgramOK, viewVars, appVars, postVars
<1>4. StackShape'
  BY <1>2 DEF StackShape
<1>5. ViewsInv'
  BY <1>2 DEF IInv, ViewsInv, viewVars
<1>6. AppInv'
  BY <1>2 DEF IInv, AppInv, AppWhileAttached, viewVars, appVars, InHostLoop
<1>7. RetainInv'
  BY <1>2 DEF IInv, RetainInv, BeingDetached, viewVars
<1>. QED
  BY <1>3, <1>4, <1>5, <1>6, <1>7 DEF IInv

\* The operation on top goes on draining, or runs a posted call.
LEMMA TopDrains ==
  ASSUME IInv, ~InHostLoop, NEW f \in Frame, SetTop(f),
         Top.step \in {"drain", "call"}, f.step \in {"drain", "call"},
         f.op = Top.op, f.on = Top.on, f.step = "call" => f.calls # <<>>,
         UNCHANGED <<viewVars, appVars, terminated>>,
         m_queue' \in Seq(Call), events' \in Nat, posting' \subseteq Plugins,
         posted' \in 0 .. MaxPosts, ran' \subseteq 1 .. MaxPosts
  PROVE  IInv'
<1> DEFINE n == Len(frames)
<1>1. frames \in Seq(Frame)
  BY DEF IInv, ProgramOK
<1>2. /\ frames' \in Seq(Frame) /\ Len(frames') = n /\ DOMAIN frames' = DOMAIN frames
      /\ frames'[n] = f /\ n \in DOMAIN frames /\ Top = frames[n] /\ n \in Nat \ {0}
      /\ \A i \in DOMAIN frames : i # n => frames'[i] = frames[i]
      /\ frames' # <<>>
  BY <1>1, TopSet, TopIsFrame
<1>3. \A i \in DOMAIN frames : /\ frames'[i].op = frames[i].op
                               /\ frames'[i].on = frames[i].on
                               /\ Closing(frames'[i]) <=> Closing(frames[i])
  BY <1>2 DEF Closing
<1>4. ProgramOK'
  BY <1>2 DEF IInv, ProgramOK, viewVars, appVars
<1>5. StackShape'
  <2>1. FrameShape(f)
    BY <1>2 DEF IInv, StackShape, FrameShape
  <2>. QED
    BY <1>2, <1>3, <2>1 DEF IInv, StackShape
<1>6. ViewsInv'
  <2>1. f.step # "unregister"
    OBVIOUS
  <2>. QED
    BY <1>2, <1>3, <2>1 DEF IInv, ViewsInv, viewVars
<1>7. AppInv'
  <2>1. 1 \in DOMAIN frames
    BY <1>1, <1>2
  <2>. QED
    BY <1>2, <1>3, <2>1 DEF IInv, AppInv, AppWhileAttached, viewVars, appVars
<1>8. RetainInv'
  BY <1>2, <1>3 DEF IInv, RetainInv, BeingDetached, viewVars
<1>. QED
  BY <1>4, <1>5, <1>6, <1>7, <1>8 DEF IInv

-----------------------------------------------------------------------------
(* The steps                                                               *)

LEMMA DetachKeeps ==
  ASSUME IInv, NEW a \in Addresses, Detach(a)
  PROVE  IInv'
<1>1. CASE views[a].attached
  <2>1. Push(Enter("detach", "drain", a))
    BY <1>1 DEF Detach
  <2>2. InHostLoop \/ Top.step \in {"sweep", "call"}
    BY DEF Detach, InCallback
  <2>. QED
    BY <1>1, <2>1, <2>2, DetachPushed DEF Detach
<1>2. CASE ~views[a].attached
  <2>1. /\ UNCHANGED <<g_live_views, weak, appVars, postVars, terminated, ran>>
        /\ UNCHANGED frames /\ BeginDetach(a)
    BY <1>2 DEF Detach
  <2>2. /\ views' \in [Addresses -> View]
        /\ \A b \in Addresses :
             /\ views'[b].attached <=> views[b].attached
             /\ views'[b].state = views[b].state
             /\ views'[b].retained = views[b].retained
    BY <1>2, <2>1, BeganDetach
  <2>3. ProgramOK'
    BY <2>1, <2>2 DEF IInv, ProgramOK, appVars, postVars
  <2>4. StackShape'
    BY <2>1 DEF IInv, StackShape
  <2>5. ViewsInv'
    BY <2>1, <2>2 DEF IInv, ViewsInv, StackShape, FrameShape
  <2>6. AppInv'
    BY <2>1, <2>2 DEF IInv, AppInv, AppWhileAttached, appVars
  <2>7. RetainInv'
    BY <2>1, <2>2 DEF IInv, RetainInv, BeingDetached
  <2>. QED
    BY <2>3, <2>4, <2>5, <2>6, <2>7 DEF IInv
<1>. QED
  BY <1>1, <1>2

LEMMA SweepNextKeeps ==
  ASSUME IInv, SweepNext
  PROVE  IInv'
<1>1. PICK i \in ToSweep :
        /\ BeginDetach(g_live_views[i])
        /\ Push(Enter("detach", "drain", g_live_views[i]))
  BY DEF SweepNext
<1>2. g_live_views[i] \in Addresses /\ views[g_live_views[i]].attached
  BY DEF ToSweep, IInv, ProgramOK
<1>. QED
  BY <1>1, <1>2, DetachPushed DEF SweepNext, At

LEMMA TerminateKeeps ==
  ASSUME IInv, NEW p \in Plugins, Terminate(p)
  PROVE  IInv'
<1> DEFINE f == Enter("shutdown_owner", "sweep", p)
<1>1. /\ f \in Frame /\ f.op = "shutdown_owner" /\ f.step = "sweep"
  BY Entered
<1>2. Push(f) /\ InHostLoop /\ terminated' \subseteq Plugins
      /\ UNCHANGED <<viewVars, appVars, postVars, ran>>
  BY DEF Terminate, IInv, ProgramOK
<1> HIDE DEF f
<1>3. FrameShape(f) /\ ~Closing(f)
  BY <1>1 DEF FrameShape, Closing
<1>. QED
  BY <1>1, <1>2, <1>3, StartsInLoop

LEMMA ShutdownKeeps ==
  ASSUME IInv, Shutdown
  PROVE  IInv'
<1> DEFINE f == Enter("shutdown", "sweep", NoView)
<1>1. /\ f \in Frame /\ f.op = "shutdown" /\ f.step = "sweep"
  BY Entered
<1>2. Push(f) /\ InHostLoop /\ terminated' \subseteq Plugins
      /\ UNCHANGED <<viewVars, appVars, postVars, ran>>
  BY DEF Shutdown, IInv, ProgramOK
<1> HIDE DEF f
<1>3. FrameShape(f) /\ ~Closing(f)
  BY <1>1 DEF FrameShape, Closing
<1>. QED
  BY <1>1, <1>2, <1>3, StartsInLoop

LEMMA OnIdleKeeps ==
  ASSUME IInv, On_Idle
  PROVE  IInv'
<1> DEFINE f == Enter("on_idle", "drain", NoView)
<1>1. /\ f \in Frame /\ f.op = "on_idle" /\ f.step = "drain"
  BY Entered
<1>2. Push(f) /\ InHostLoop /\ terminated' \subseteq Plugins
      /\ UNCHANGED <<viewVars, appVars, postVars, ran>>
  BY DEF On_Idle, IInv, ProgramOK
<1> HIDE DEF f
<1>3. FrameShape(f) /\ ~Closing(f)
  BY <1>1 DEF FrameShape, Closing
<1>. QED
  BY <1>1, <1>2, <1>3, StartsInLoop

LEMMA WithCalls ==
  ASSUME NEW r \in Frame, NEW calls \in Seq(Call)
  PROVE  LET f == [r EXCEPT !.calls = calls]
         IN  /\ f \in Frame /\ f.op = r.op /\ f.on = r.on /\ f.step = r.step
             /\ f.calls = calls
  BY DEF Frame

LEMMA HandleEventKeeps ==
  ASSUME IInv, HandleEvent
  PROVE  IInv'
<1> DEFINE f == [Top EXCEPT !.calls = m_queue]
<1>1. /\ ~InHostLoop /\ Top.step = "drain" /\ SetTop(f)
      /\ m_queue' = <<>> /\ events' = events - 1 /\ events > 0
      /\ UNCHANGED <<viewVars, appVars, posting, posted, terminated, ran>>
  BY DEF HandleEvent, At, QueueLeft
<1>2. f \in Frame /\ f.op = Top.op /\ f.on = Top.on /\ f.step = "drain"
  BY <1>1, TopIsFrame, WithCalls DEF IInv, ProgramOK
<1> HIDE DEF f
<1>3. /\ m_queue' \in Seq(Call) /\ events' \in Nat /\ posting' \subseteq Plugins
      /\ posted' \in 0 .. MaxPosts /\ ran' \subseteq 1 .. MaxPosts
  BY <1>1 DEF IInv, ProgramOK
<1>. QED
  BY <1>1, <1>2, <1>3, TopDrains

LEMMA RunCallKeeps ==
  ASSUME IInv, RunCall
  PROVE  IInv'
<1>1. /\ ~InHostLoop /\ Top.step = "drain" /\ Top.calls # <<>> /\ Top \in Frame
      /\ UNCHANGED <<viewVars, appVars, postVars, terminated>>
      /\ frames \in Seq(Frame)
  BY TopIsFrame DEF RunCall, At, IInv, ProgramOK
<1>2. /\ m_queue' \in Seq(Call) /\ events' \in Nat /\ posting' \subseteq Plugins
      /\ posted' \in 0 .. MaxPosts
  BY <1>1 DEF IInv, ProgramOK, postVars
<1>3. Head(Top.calls) \in Call /\ Tail(Top.calls) \in Seq(Call)
  BY <1>1 DEF Frame
<1>4. CASE GoOn("call") /\ ran' = ran \cup {Head(Top.calls).id}
  <2> DEFINE f == [Top EXCEPT !.step = "call"]
  <2>1. f \in Frame /\ f.op = Top.op /\ f.on = Top.on /\ f.step = "call"
        /\ f.calls = Top.calls /\ SetTop(f)
    BY <1>1, <1>4, GoesOn
  <2>2. ran' \subseteq 1 .. MaxPosts
    BY <1>3, <1>4 DEF IInv, ProgramOK, Call
  <2> HIDE DEF f
  <2>. QED
    BY <1>1, <1>2, <2>1, <2>2, TopDrains
<1>5. CASE SetTop([Top EXCEPT !.calls = Tail(@)]) /\ UNCHANGED ran
  <2> DEFINE f == [Top EXCEPT !.calls = Tail(Top.calls)]
  <2>1. f \in Frame /\ f.op = Top.op /\ f.on = Top.on /\ f.step = "drain"
    BY <1>1, <1>3, WithCalls
  <2>2. SetTop(f)
    BY <1>5
  <2>3. ran' \subseteq 1 .. MaxPosts
    BY <1>5 DEF IInv, ProgramOK
  <2> HIDE DEF f
  <2>. QED
    BY <1>1, <1>2, <2>1, <2>2, <2>3, TopDrains
<1>. QED
  BY <1>4, <1>5 DEF RunCall

LEMMA CallReturnsKeeps ==
  ASSUME IInv, CallReturns
  PROVE  IInv'
<1> DEFINE f == [Top EXCEPT !.step = "drain", !.calls = Tail(Top.calls)]
<1>1. /\ ~InHostLoop /\ Top.step = "call" /\ Top \in Frame /\ SetTop(f)
      /\ UNCHANGED <<viewVars, appVars, postVars, terminated, ran>>
      /\ frames \in Seq(Frame)
  BY TopIsFrame DEF CallReturns, InCallback, IInv, ProgramOK
<1>2. Top.calls # <<>> /\ Top.calls \in Seq(Call)
  BY <1>1, TopIsFrame DEF IInv, StackShape, FrameShape, Frame
<1>3. Tail(Top.calls) \in Seq(Call)
  BY <1>2
<1>4. f \in Frame /\ f.op = Top.op /\ f.on = Top.on /\ f.step = "drain"
  BY <1>1, <1>3 DEF Frame
<1> HIDE DEF f
<1>5. /\ m_queue' \in Seq(Call) /\ events' \in Nat /\ posting' \subseteq Plugins
      /\ posted' \in 0 .. MaxPosts /\ ran' \subseteq 1 .. MaxPosts
  BY <1>1 DEF IInv, ProgramOK, postVars
<1>. QED
  BY <1>1, <1>4, <1>5, TopDrains

LEMMA WorkerKeeps ==
  ASSUME IInv, NEW p \in Plugins, Post(p) \/ PostEvent(p)
  PROVE  IInv'
<1>1. UNCHANGED <<viewVars, appVars, frames, terminated, ran>>
  BY DEF Post, PostEvent
<1>2. /\ m_queue' \in Seq(Call) /\ events' \in Nat /\ posting' \subseteq Plugins
      /\ posted' \in 0 .. MaxPosts
  <2>1. CASE Post(p)
    <3> DEFINE call == [id |-> posted + 1, by |-> p, view |-> weak[p]]
    <3>1. posted + 1 \in 1 .. MaxPosts /\ weak[p] \in Addresses
      BY <2>1, QtConstants DEF Post, IInv, ProgramOK, QtConstants
    <3>2. call \in Call /\ m_queue' = Append(m_queue, call) /\ m_queue \in Seq(Call)
      BY <2>1, <3>1 DEF Call, Post, IInv, ProgramOK
    <3> HIDE DEF call
    <3>3. m_queue' \in Seq(Call)
      BY <3>2
    <3>. QED
      BY <2>1, <3>1, <3>3, QtConstants DEF Post, IInv, ProgramOK, QtConstants
  <2>2. CASE PostEvent(p)
    BY <2>2 DEF PostEvent, WakeUp, IInv, ProgramOK
  <2>. QED
    BY <2>1, <2>2
<1>3. ProgramOK'
  BY <1>1, <1>2 DEF IInv, ProgramOK, viewVars, appVars
<1>4. StackShape' /\ ViewsInv'
  BY <1>1 DEF IInv, StackShape, ViewsInv, viewVars
<1>5. AppInv' /\ RetainInv'
  BY <1>1 DEF IInv, AppInv, AppWhileAttached, RetainInv, BeingDetached, viewVars, appVars
<1>. QED
  BY <1>3, <1>4, <1>5 DEF IInv

\* The last reference to a view: its own frame at the bottom, and on it the
\* detach of a view that is still attached.
LEMMA ReleaseKeeps ==
  ASSUME IInv, NEW a \in Addresses, Release(a)
  PROVE  IInv'
<1> DEFINE d == Enter("view_destroy", "unregister", a)
           f == Enter("detach", "drain", a)
<1>1. /\ InHostLoop /\ BeginDetach(a) /\ views[a].state = "alive"
      /\ UNCHANGED <<g_live_views, weak, appVars, postVars, terminated, ran>>
      /\ frames \in Seq(Frame) /\ DOMAIN frames = {}
  BY EmptyStack DEF Release, IInv, ProgramOK
<1>2. /\ d \in Frame /\ d.op = "view_destroy" /\ d.step = "unregister" /\ d.on = a
      /\ f \in Frame /\ f.op = "detach" /\ f.step = "drain" /\ f.on = a
  BY Entered
<1> HIDE DEF d, f
<1>3. /\ frames' \in Seq(Frame) /\ frames' # <<>> /\ frames'[1] = d
      /\ \/ views[a].attached /\ Len(frames') = 2 /\ DOMAIN frames' = {1, 2} /\ frames'[2] = f
         \/ ~views[a].attached /\ Len(frames') = 1 /\ DOMAIN frames' = {1}
  <2>1. CASE views[a].attached
    <3>1. frames' = <<d>> \o <<f>>
      BY <2>1 DEF Release, d, f
    <3>2. /\ frames' \in Seq(Frame) /\ Len(frames') = 2
          /\ frames'[1] = d /\ frames'[2] = f
      BY <3>1, <1>2
    <3>. QED
      BY <2>1, <3>2
  <2>2. CASE ~views[a].attached
    <3>1. frames' = <<d>> \o <<>>
      BY <2>2 DEF Release, d, f
    <3>2. frames' = <<d>>
      BY <3>1, <1>2
    <3>. QED
      BY <1>2, <2>2, <3>2
  <2>. QED
    BY <2>1, <2>2
<1>4. /\ views' \in [Addresses -> View] /\ ~views'[a].attached
      /\ \A b \in Addresses :
           /\ b # a => views'[b] = views[b]
           /\ views'[b].state = views[b].state
           /\ views'[b].retained = views[b].retained
           /\ views'[b].attached => views[b].attached
  BY <1>1, BeganDetach
<1>5. ProgramOK'
  BY <1>1, <1>3, <1>4 DEF IInv, ProgramOK, appVars, postVars
<1>6. FrameShape(d) /\ FrameShape(f) /\ ~Closing(d) /\ ~Closing(f)
  BY <1>2 DEF FrameShape, Closing
<1>7. StackShape'
  <2>1. CASE DOMAIN frames' = {1, 2} /\ Len(frames') = 2 /\ frames'[2] = f
    BY <1>2, <1>3, <1>6, <2>1 DEF StackShape
  <2>2. CASE DOMAIN frames' = {1} /\ Len(frames') = 1
    BY <1>2, <1>3, <1>6, <2>2 DEF StackShape
  <2>. QED
    BY <1>3, <2>1, <2>2
<1>8. ViewsInv'
  BY <1>1, <1>2, <1>3, <1>4 DEF IInv, ViewsInv
<1>9. AppInv'
  <2>1. g_live_views' # <<>>
    BY <1>1 DEF IInv, ViewsInv, Elements
  <2>. QED
    BY <1>1, <1>3, <1>4, <1>6, <2>1 DEF IInv, AppInv, AppWhileAttached, appVars
<1>10. RetainInv'
  <2>1. \A b \in Addresses : ~BeingDetached(b)
    BY <1>1 DEF BeingDetached
  <2>2. \A b \in Addresses : BeingDetached(b)' <=> b = a /\ views[a].attached
    BY <1>2, <1>3 DEF BeingDetached
  <2>3. \A i, j \in DOMAIN frames' : frames'[i].op = "detach" /\ frames'[j].op = "detach" => i = j
    BY <1>2, <1>3
  <2>. QED
    BY <1>4, <2>1, <2>2, <2>3 DEF IInv, RetainInv
<1>. QED
  BY <1>5, <1>7, <1>8, <1>9, <1>10 DEF IInv

\* A frame on whose step only operations at the bottom are is alone.
LEMMA AloneAtBottom ==
  ASSUME IInv, ~InHostLoop, Top.op # "detach"
  PROVE  /\ Len(frames) = 1 /\ DOMAIN frames = {1} /\ Top = frames[1]
         /\ Top \in Frame /\ FrameShape(Top)
<1>1. /\ frames \in Seq(Frame) /\ Len(frames) \in Nat \ {0} /\ Top = frames[Len(frames)]
      /\ DOMAIN frames = 1 .. Len(frames) /\ Top \in Frame
  BY TopIsFrame DEF IInv, ProgramOK
<1>2. Len(frames) = 1
  BY <1>1 DEF IInv, StackShape
<1>. QED
  BY <1>1, <1>2 DEF IInv, StackShape

LEMMA AloneReturns ==
  ASSUME IInv, ~InHostLoop, Top.op # "detach", Return
  PROVE  frames' = <<>> /\ frames' \in Seq(Frame) /\ DOMAIN frames' = {}
<1>1. frames \in Seq(Frame) /\ Len(frames) = 1
  BY AloneAtBottom DEF IInv, ProgramOK
<1>2. frames' \in Seq(Frame) /\ frames' = <<>>
  BY <1>1, Returned
<1>. QED
  BY <1>2

LEMMA AloneGoesOn ==
  ASSUME IInv, ~InHostLoop, Top.op # "detach",
         NEW step \in {"drain", "delete"}, GoOn(step), Top.op \in {"view_destroy", "shutdown"}
  PROVE  LET f == frames'[1]
         IN  /\ frames' \in Seq(Frame) /\ Len(frames') = 1 /\ DOMAIN frames' = {1}
             /\ frames' # <<>>
             /\ f \in Frame /\ f.op = Top.op /\ f.on = Top.on /\ f.step = step
             /\ FrameShape(f) /\ Closing(f)
<1> DEFINE f == [Top EXCEPT !.step = step]
<1>1. frames \in Seq(Frame) /\ Len(frames) = 1 /\ DOMAIN frames = {1} /\ FrameShape(Top)
  BY AloneAtBottom DEF IInv, ProgramOK
<1>2. f \in Frame /\ f.op = Top.op /\ f.on = Top.on /\ f.step = step /\ SetTop(f)
  BY <1>1, GoesOn
<1> HIDE DEF f
<1>3. /\ frames' \in Seq(Frame) /\ Len(frames') = 1 /\ DOMAIN frames' = {1}
      /\ frames' # <<>> /\ frames'[1] = f
  BY <1>1, <1>2, TopSet
<1>4. FrameShape(f) /\ Closing(f)
  BY <1>1, <1>2 DEF FrameShape, Closing
<1>. QED
  BY <1>2, <1>3, <1>4

LEMMA UnregisterKeeps ==
  ASSUME IInv, Unregister
  PROVE  IInv'
<1> DEFINE a == Top.on  gone == [views[a] EXCEPT !.state = "freed"]
<1>1. /\ ~InHostLoop /\ Top.step = "unregister"
      /\ UNCHANGED <<weak, g_app, g_post_marshaller, postVars, terminated, ran>>
      /\ views' = [views EXCEPT ![a].state = "freed"]
      /\ g_live_views' = Unlisted(g_live_views, a)
      /\ frames \in Seq(Frame) /\ views \in [Addresses -> View]
      /\ g_live_views \in Seq(Addresses)
  BY DEF Unregister, At, IInv, ProgramOK
<1>2. FrameShape(Top) /\ Top \in Frame
  BY <1>1, TopIsFrame DEF IInv, StackShape, ProgramOK
<1>3. Top.op = "view_destroy" /\ a \in Addresses
  BY <1>1, <1>2 DEF FrameShape, Frame
<1>4. /\ Len(frames) = 1 /\ DOMAIN frames = {1} /\ Top = frames[1]
  BY <1>1, <1>3, AloneAtBottom
<1>5. ~views[a].attached /\ views[a].retained = 0
  <2>1. ~BeingDetached(a)
    BY <1>3, <1>4 DEF BeingDetached
  <2>. QED
    BY <1>3, <1>4, <2>1 DEF IInv, ViewsInv, RetainInv
<1>6. gone \in View /\ gone.state = "freed" /\ ~gone.attached /\ gone.retained = 0
  <2>1. views[a] \in View
    BY <1>1, <1>3
  <2>2. gone \in View /\ gone.state = "freed" /\ gone.attached = views[a].attached
        /\ gone.retained = views[a].retained
    BY <2>1 DEF View
  <2>. QED
    BY <1>5, <2>2
<1>7. /\ views' \in [Addresses -> View] /\ views'[a] = gone
      /\ \A b \in Addresses : b # a => views'[b] = views[b]
  BY <1>1, <1>3, <1>6
<1>8. /\ a \in Elements(g_live_views) /\ views[a].state = "alive"
      /\ g_live_views' \in Seq(Addresses)
      /\ Elements(g_live_views') = Elements(g_live_views) \ {a}
      /\ \A i, j \in DOMAIN g_live_views' : g_live_views'[i] = g_live_views'[j] => i = j
  <2>1. a \in Elements(g_live_views) /\ views[a].state = "alive"
    BY <1>1, <1>3, <1>4 DEF IInv, ViewsInv
  <2>. QED
    BY <1>1, <2>1, ElementsUnlisted DEF IInv, ViewsInv
<1>9. /\ \A b \in Addresses : views'[b].attached => views'[b].state = "alive"
      /\ \A b \in Addresses : views'[b].state = "alive" <=> b \in Elements(g_live_views')
  BY <1>6, <1>7, <1>8 DEF IInv, ViewsInv
<1>10. \A b \in Addresses :
         /\ views'[b].attached <=> views[b].attached
         /\ views'[b].retained = views[b].retained
  BY <1>5, <1>6, <1>7
<1>11. CASE /\ LastView(a) /\ g_app
            /\ g_app_shutdown' = TRUE
            /\ GoOn("drain")
  <2> DEFINE f == frames'[1]
  <2>1. /\ frames' \in Seq(Frame) /\ Len(frames') = 1 /\ DOMAIN frames' = {1}
        /\ frames' # <<>> /\ f \in Frame /\ f.op = "view_destroy" /\ f.on = a
        /\ f.step = "drain" /\ FrameShape(f) /\ Closing(f)
    BY <1>1, <1>3, <1>11, AloneGoesOn
  <2> HIDE DEF f
  <2>2. \A b \in Addresses : ~views[b].attached
    BY <1>3, <1>5, <1>11 DEF LastView, IInv, ViewsInv
  <2>3. ProgramOK'
    BY <1>1, <1>7, <1>8, <1>11, <2>1 DEF IInv, ProgramOK, postVars
  <2>4. StackShape'
    BY <2>1 DEF StackShape, f
  <2>5. ViewsInv'
    BY <1>5, <1>6, <1>7, <1>8, <1>9, <2>1 DEF ViewsInv, f
  <2>6. AppInv'
    BY <1>1, <1>10, <2>1, <2>2 DEF IInv, AppInv, AppWhileAttached, f
  <2>7. RetainInv'
    BY <1>3, <1>4, <1>10, <2>1 DEF IInv, RetainInv, BeingDetached, f
  <2>. QED
    BY <2>3, <2>4, <2>5, <2>6, <2>7 DEF IInv
<1>12. CASE /\ ~(LastView(a) /\ g_app)
            /\ Return
            /\ UNCHANGED g_app_shutdown
  <2>1. frames' = <<>> /\ frames' \in Seq(Frame) /\ DOMAIN frames' = {}
    BY <1>1, <1>3, <1>12, AloneReturns
  <2>2. g_app => g_live_views' # <<>>
    <3>1. g_app => \E b \in Elements(g_live_views') : TRUE
      BY <1>8, <1>12 DEF LastView
    <3>. QED
      BY <3>1 DEF Elements
  <2>3. ProgramOK'
    BY <1>1, <1>7, <1>8, <1>12, <2>1 DEF IInv, ProgramOK, postVars
  <2>4. StackShape'
    BY <2>1 DEF StackShape
  <2>5. ViewsInv'
    BY <1>8, <1>9, <2>1 DEF ViewsInv
  <2>6. AppInv'
    BY <1>1, <1>10, <2>1, <2>2 DEF IInv, AppInv, AppWhileAttached
  <2>7. RetainInv'
    BY <1>3, <1>4, <1>10, <2>1 DEF IInv, RetainInv, BeingDetached
  <2>. QED
    BY <2>3, <2>4, <2>5, <2>6, <2>7 DEF IInv
<1>. QED
  BY <1>11, <1>12 DEF Unregister

\* What EndSweep, EndDrain and DeleteApp do to an operation at the bottom: it
\* goes on, with no widget left, or ends.
LEMMA BottomGoesOn ==
  ASSUME IInv, ~InHostLoop, Top.op \in {"view_destroy", "shutdown"},
         NEW step \in {"drain", "delete"}, GoOn(step),
         \A a \in Addresses : ~views[a].attached,
         UNCHANGED <<viewVars, g_app, g_post_marshaller, postVars, terminated, ran>>,
         g_app_shutdown' \in BOOLEAN
  PROVE  IInv'
<1> DEFINE f == frames'[1]
<1>1. /\ frames' \in Seq(Frame) /\ Len(frames') = 1 /\ DOMAIN frames' = {1}
      /\ frames' # <<>> /\ f \in Frame /\ f.op = Top.op /\ f.on = Top.on
      /\ f.step = step /\ FrameShape(f) /\ Closing(f)
  BY AloneGoesOn
<1>2. /\ Len(frames) = 1 /\ DOMAIN frames = {1} /\ Top = frames[1]
  BY AloneAtBottom
<1> HIDE DEF f
<1>3. ProgramOK'
  BY <1>1 DEF IInv, ProgramOK, viewVars, postVars
<1>4. StackShape'
  BY <1>1 DEF StackShape, f
<1>5. ViewsInv'
  BY <1>1, <1>2 DEF IInv, ViewsInv, viewVars, f
<1>6. AppInv'
  BY <1>1, <1>2 DEF IInv, AppInv, AppWhileAttached, viewVars, f
<1>7. RetainInv'
  BY <1>1, <1>2 DEF IInv, RetainInv, BeingDetached, viewVars, f
<1>. QED
  BY <1>3, <1>4, <1>5, <1>6, <1>7 DEF IInv

LEMMA BottomReturns ==
  ASSUME IInv, ~InHostLoop, Top.op # "detach", Return,
         g_app' => g_app /\ Top.op # "view_destroy",
         g_app' \in BOOLEAN, g_app' # g_app => \A a \in Addresses : ~views[a].attached,
         events' \in Nat,
         UNCHANGED <<viewVars, g_app_shutdown, g_post_marshaller, m_queue, posting, posted,
                     terminated, ran>>
  PROVE  IInv'
<1>1. /\ frames' = <<>> /\ frames' \in Seq(Frame) /\ DOMAIN frames' = {}
      /\ Len(frames) = 1 /\ DOMAIN frames = {1} /\ Top = frames[1]
  BY AloneReturns, AloneAtBottom
<1>2. ProgramOK'
  BY <1>1 DEF IInv, ProgramOK, viewVars
<1>3. StackShape' /\ ViewsInv'
  BY <1>1 DEF IInv, StackShape, ViewsInv, viewVars
<1>4. AppInv'
  BY <1>1 DEF IInv, AppInv, AppWhileAttached, viewVars, ProgramOK
<1>5. RetainInv'
  BY <1>1 DEF IInv, RetainInv, BeingDetached, viewVars
<1>. QED
  BY <1>2, <1>3, <1>4, <1>5 DEF IInv

LEMMA DeleteAppKeeps ==
  ASSUME IInv, DeleteApp
  PROVE  IInv'
<1>1. /\ ~InHostLoop /\ Top.step = "delete" /\ Return /\ g_app' = FALSE /\ events' = 0
      /\ UNCHANGED <<viewVars, g_app_shutdown, g_post_marshaller, m_queue, posting, posted,
                     terminated, ran>>
  BY DEF DeleteApp, At
<1>2. FrameShape(Top) /\ Top \in Frame /\ Len(frames) \in DOMAIN frames /\ Top = frames[Len(frames)]
  BY <1>1, TopIsFrame DEF IInv, StackShape, ProgramOK
<1>3. Closing(Top) /\ Top.op # "detach"
  BY <1>1, <1>2 DEF FrameShape, Frame, Closing
<1>4. \A a \in Addresses : ~views[a].attached
  BY <1>2, <1>3 DEF IInv, AppInv
<1>. QED
  BY <1>1, <1>3, <1>4, BottomReturns

LEMMA EndSweepKeeps ==
  ASSUME IInv, EndSweep
  PROVE  IInv'
<1>1. /\ ~InHostLoop /\ Top.step = "sweep" /\ ToSweep = {}
      /\ UNCHANGED <<viewVars, g_app, g_post_marshaller, postVars, terminated, ran>>
  BY DEF EndSweep, At
<1>2. CASE Top.op = "shutdown_owner" /\ Return /\ UNCHANGED g_app_shutdown
  <2>1. events' \in Nat /\ g_app' \in BOOLEAN /\ UNCHANGED <<m_queue, posting, posted>>
        /\ g_app' = g_app
    BY <1>1 DEF IInv, ProgramOK, postVars
  <2>. QED
    BY <1>1, <1>2, <2>1, BottomReturns
<1>3. CASE Top.op = "shutdown" /\ g_app_shutdown' = TRUE /\ GoOn("drain")
  <2>1. \A a \in Addresses : ~views[a].attached
    <3>. SUFFICES ASSUME NEW a \in Addresses, views[a].attached
                  PROVE  FALSE
      OBVIOUS
    <3>1. PICK i \in DOMAIN g_live_views : g_live_views[i] = a
      BY DEF IInv, ViewsInv, Elements
    <3>. QED
      BY <1>1, <1>3, <3>1 DEF ToSweep, Sweeps
  <2>. QED
    BY <1>1, <1>3, <2>1, BottomGoesOn
<1>. QED
  BY <1>2, <1>3 DEF EndSweep

LEMMA GivenBackView ==
  ASSUME NEW r \in View, r.retained = 1
  PROVE  /\ GivenBack(r) \in View
         /\ GivenBack(r).state = r.state /\ GivenBack(r).owner = r.owner
         /\ GivenBack(r).attached = r.attached /\ GivenBack(r).accept = r.accept
         /\ GivenBack(r).retained = 0
<1>1. r.retained - 1 = 0 /\ r.retained - 1 \in Nat
  OBVIOUS
<1>. QED
  BY <1>1 DEF GivenBack, View

\* The innermost operation leaves the stack; the one below goes on as it was.
LEMMA DetachReturns ==
  ASSUME IInv, ~InHostLoop, Top.op = "detach", Return,
         views' = [views EXCEPT ![Top.on] = GivenBack(views[Top.on])],
         UNCHANGED <<g_live_views, weak, appVars, postVars, terminated, ran>>
  PROVE  IInv'
<1> DEFINE a == Top.on  n == Len(frames)
<1>1. /\ frames \in Seq(Frame) /\ views \in [Addresses -> View]
      /\ n \in DOMAIN frames /\ Top = frames[n] /\ FrameShape(Top) /\ n \in Nat \ {0}
      /\ DOMAIN frames = 1 .. n
  BY TopIsFrame DEF IInv, ProgramOK, StackShape
<1>2. a \in Addresses /\ BeingDetached(a)
  BY <1>1 DEF FrameShape, BeingDetached
<1>3. ~views[a].attached /\ views[a].retained = 1
  BY <1>2 DEF IInv, RetainInv
<1>4. /\ frames' \in Seq(Frame) /\ Len(frames') = n - 1
      /\ DOMAIN frames' = DOMAIN frames \ {n}
      /\ \A i \in DOMAIN frames' : frames'[i] = frames[i] /\ i < n
      /\ frames' # <<>> <=> n > 1
  BY <1>1, Returned
<1>5. /\ views' \in [Addresses -> View] /\ views'[a].retained = 0
      /\ \A b \in Addresses :
           /\ b # a => views'[b] = views[b]
           /\ views'[b].state = views[b].state
           /\ views'[b].attached <=> views[b].attached
  <2>1. views[a] \in View
    BY <1>1, <1>2
  <2>2. /\ GivenBack(views[a]) \in View
        /\ GivenBack(views[a]).state = views[a].state
        /\ GivenBack(views[a]).attached = views[a].attached
        /\ GivenBack(views[a]).retained = 0
    BY <1>3, <2>1, GivenBackView
  <2> DEFINE v == GivenBack(views[a])
  <2>3. views' = [views EXCEPT ![a] = v]
    OBVIOUS
  <2> HIDE DEF v
  <2>4. v \in View /\ v.state = views[a].state /\ v.attached = views[a].attached
        /\ v.retained = 0
    BY <2>2 DEF v
  <2>5. /\ views' \in [Addresses -> View] /\ views'[a] = v
        /\ \A b \in Addresses : b # a => views'[b] = views[b]
    BY <1>1, <1>2, <2>3, <2>4
  <2>. QED
    BY <2>4, <2>5
<1>6. ProgramOK'
  BY <1>4, <1>5 DEF IInv, ProgramOK, appVars, postVars
<1>7. StackShape'
  BY <1>1, <1>4 DEF IInv, StackShape
<1>8. ViewsInv'
  <2>1. UNCHANGED g_live_views
    OBVIOUS
  <2>2. ASSUME NEW i \in DOMAIN frames', frames'[i].op = "view_destroy"
        PROVE  /\ ~views'[frames'[i].on].attached
               /\ frames'[i].step = "unregister" => views'[frames'[i].on].state = "alive"
    <3>1. i \in DOMAIN frames /\ frames'[i] = frames[i]
      BY <1>4
    <3>2. /\ frames[i].on \in Addresses /\ ~views[frames[i].on].attached
          /\ frames[i].step = "unregister" => views[frames[i].on].state = "alive"
      BY <2>2, <3>1 DEF IInv, StackShape, FrameShape, ViewsInv
    <3>. QED
      BY <1>5, <3>1, <3>2
  <2>. QED
    BY <1>5, <2>1, <2>2 DEF IInv, ViewsInv
<1>9. AppInv'
  <2>1. g_app' = g_app /\ g_live_views' = g_live_views
    BY DEF appVars
  <2>2. \A i \in DOMAIN frames' : Closing(frames'[i]) => \A b \in Addresses : ~views'[b].attached
    BY <1>4, <1>5 DEF IInv, AppInv
  <2>3. AppWhileAttached'
    BY <1>5, <2>1 DEF IInv, AppInv, AppWhileAttached
  <2>4. ASSUME g_live_views = <<>>, g_app
        PROVE  frames' # <<>> /\ frames'[1].op = "view_destroy" /\ Closing(frames'[1])
    <3>1. frames[1].op = "view_destroy" /\ Closing(frames[1])
      BY <2>4 DEF IInv, AppInv
    <3>2. n > 1
      BY <1>1, <3>1
    <3>. QED
      BY <1>1, <1>4, <3>1, <3>2
  <2>. QED
    BY <2>1, <2>2, <2>3, <2>4 DEF AppInv
<1>10. RetainInv'
  <2>1. \A b \in Addresses : BeingDetached(b)' <=> BeingDetached(b) /\ b # a
    <3>. SUFFICES ASSUME NEW b \in Addresses
                  PROVE  BeingDetached(b)' <=> BeingDetached(b) /\ b # a
      OBVIOUS
    <3>1. ASSUME BeingDetached(b)'
          PROVE  BeingDetached(b) /\ b # a
      <4>1. PICK i \in DOMAIN frames' : frames'[i].op = "detach" /\ frames'[i].on = b
        BY <3>1 DEF BeingDetached
      <4>2. i \in DOMAIN frames /\ frames[i] = frames'[i] /\ i < n
        BY <1>4
      <4>. QED
        BY <1>1, <4>1, <4>2 DEF BeingDetached, IInv, RetainInv
    <3>2. ASSUME BeingDetached(b), b # a
          PROVE  BeingDetached(b)'
      <4>1. PICK i \in DOMAIN frames : frames[i].op = "detach" /\ frames[i].on = b
        BY <3>2 DEF BeingDetached
      <4>2. i # n
        BY <1>1, <3>2, <4>1
      <4>. QED
        BY <1>4, <4>1, <4>2 DEF BeingDetached
    <3>. QED
      BY <3>1, <3>2
  <2>2. \A b \in Addresses : views'[b].attached => ~BeingDetached(b)'
    BY <1>5, <2>1 DEF IInv, RetainInv
  <2>3. \A b \in Addresses :
          views'[b].retained = IF views'[b].attached \/ BeingDetached(b)' THEN 1 ELSE 0
    BY <1>3, <1>5, <2>1 DEF IInv, RetainInv
  <2>4. ASSUME NEW i \in DOMAIN frames', NEW j \in DOMAIN frames',
               frames'[i].op = "detach", frames'[j].op = "detach",
               frames'[i].on = frames'[j].on
        PROVE  i = j
    BY <1>4, <2>4 DEF IInv, RetainInv
  <2>. QED
    BY <2>2, <2>3, <2>4 DEF RetainInv
<1>. QED
  BY <1>6, <1>7, <1>8, <1>9, <1>10 DEF IInv

LEMMA EndDrainKeeps ==
  ASSUME IInv, EndDrain
  PROVE  IInv'
<1>1. /\ ~InHostLoop /\ Top.step = "drain" /\ Len(frames) \in DOMAIN frames
      /\ Top = frames[Len(frames)]
      /\ UNCHANGED <<g_live_views, weak, appVars, postVars, terminated, ran>>
  BY TopIsFrame DEF EndDrain, At, IInv, ProgramOK
<1>2. CASE Top.op = "on_idle" /\ Return /\ UNCHANGED views
  <2>1. /\ events' \in Nat /\ g_app' \in BOOLEAN /\ g_app' = g_app
        /\ UNCHANGED <<viewVars, g_app_shutdown, g_post_marshaller, m_queue, posting, posted,
                       terminated, ran>>
    BY <1>1, <1>2 DEF IInv, ProgramOK, postVars, appVars, viewVars
  <2>. QED
    BY <1>1, <1>2, <2>1, BottomReturns
<1>3. CASE Top.op = "detach" /\ Return /\ views' = [views EXCEPT ![Top.on] = GivenBack(@)]
  BY <1>1, <1>3, DetachReturns
<1>4. CASE Top.op \in {"view_destroy", "shutdown"} /\ GoOn("delete") /\ UNCHANGED views
  <2>1. Closing(Top)
    BY <1>1, <1>4 DEF Closing
  <2>2. \A a \in Addresses : ~views[a].attached
    BY <1>1, <2>1 DEF IInv, AppInv
  <2>3. /\ UNCHANGED <<viewVars, g_app, g_post_marshaller, postVars, terminated, ran>>
        /\ g_app_shutdown' \in BOOLEAN
    BY <1>1, <1>4 DEF IInv, ProgramOK, appVars, viewVars
  <2>. QED
    BY <1>1, <1>4, <2>2, <2>3, BottomGoesOn
<1>. QED
  BY <1>2, <1>3, <1>4 DEF EndDrain

LEMMA NextInv == IInv /\ [Next]_vars => IInv'
<1>. SUFFICES ASSUME IInv, [Next]_vars PROVE IInv'
  OBVIOUS
<1>1. CASE UNCHANGED vars
  <2>1. UNCHANGED <<viewVars, appVars, postVars, frames, terminated, ran>>
    BY <1>1 DEF vars
  <2>2. ProgramOK'
    BY <2>1 DEF IInv, ProgramOK, viewVars, appVars, postVars
  <2>3. StackShape' /\ ViewsInv'
    BY <2>1 DEF IInv, StackShape, ViewsInv, viewVars
  <2>4. AppInv' /\ RetainInv'
    BY <2>1 DEF IInv, AppInv, AppWhileAttached, RetainInv, BeingDetached, viewVars, appVars
  <2>. QED
    BY <2>2, <2>3, <2>4 DEF IInv
<1>2. CASE GuiStep
  BY <1>2, UnregisterKeeps, DeleteAppKeeps, SweepNextKeeps, EndSweepKeeps, HandleEventKeeps,
     RunCallKeeps, CallReturnsKeeps, EndDrainKeeps DEF GuiStep
<1>3. CASE \E p \in Plugins, a \in Addresses : View_Create(p, a)
  BY <1>3, CreateInv
<1>4. CASE \E a \in Addresses : Attach(a) \/ Detach(a) \/ Release(a)
  BY <1>4, AttachInv, DetachKeeps, ReleaseKeeps
<1>5. CASE \E p \in Plugins : Terminate(p) \/ Post(p) \/ PostEvent(p)
  BY <1>5, TerminateKeeps, WorkerKeeps
<1>6. CASE Shutdown \/ On_Idle
  BY <1>6, ShutdownKeeps, OnIdleKeeps
<1>. QED
  BY <1>1, <1>2, <1>3, <1>4, <1>5, <1>6 DEF Next

\* The type of what is noted of the calls.
SinceOK == since \in [1 .. MaxPosts -> SUBSET Event]

\* A step notes something of the calls that wait, forgets one or leaves it.
Notes ==
  \/ since' = since
  \/ \E a \in Addresses : NoteAttached(a) \/ NoteDetached(a) \/ NoteDestroyed(a)
  \/ \E c \in Call : Forget(c)

LEMMA StepNotes ==
  ASSUME IInv, [Next]_vars
  PROVE  Notes
<1>1. CASE \E a \in Addresses : Attach(a) \/ Detach(a) \/ Release(a)
  BY <1>1 DEF Attach, Detach, Release, BeginDetach, Notes
<1>2. CASE SweepNext
  <2>1. PICK i \in ToSweep : BeginDetach(g_live_views[i])
    BY <1>2 DEF SweepNext
  <2>2. g_live_views[i] \in Addresses
    BY DEF ToSweep, IInv, ProgramOK
  <2>. QED
    BY <2>1, <2>2 DEF BeginDetach, Notes
<1>3. CASE Unregister
  <2>1. ~InHostLoop /\ Top.step = "unregister" /\ NoteDestroyed(Top.on)
    BY <1>3 DEF Unregister, At
  <2>2. Top.on \in Addresses
    BY <2>1, TopIsFrame DEF IInv, StackShape, FrameShape, ProgramOK, Frame
  <2>. QED
    BY <2>1, <2>2 DEF Notes
<1>4. CASE RunCall \/ CallReturns
  <2>1. since' = since \/ Forget(Head(Top.calls))
    BY <1>4 DEF RunCall, CallReturns
  <2>2. ~InHostLoop /\ Top \in Frame /\ FrameShape(Top) /\ Top.calls # <<>>
    BY <1>4, TopIsFrame DEF RunCall, CallReturns, At, InCallback, IInv, StackShape,
                            FrameShape, ProgramOK
  <2>3. Head(Top.calls) \in Call
    BY <2>2 DEF Frame
  <2>. QED
    BY <2>1, <2>3 DEF Notes
<1>5. CASE \/ UNCHANGED vars \/ Shutdown \/ On_Idle
           \/ \E p \in Plugins : \/ Terminate(p) \/ Post(p) \/ PostEvent(p)
                                 \/ \E a \in Addresses : View_Create(p, a)
           \/ DeleteApp \/ EndSweep \/ HandleEvent \/ EndDrain
  BY <1>5 DEF vars, Shutdown, On_Idle, Terminate, Post, PostEvent, View_Create,
              DeleteApp, EndSweep, HandleEvent, EndDrain, Notes
<1>. QED
  BY <1>1, <1>2, <1>3, <1>4, <1>5 DEF Next, GuiStep

LEMMA SinceOKNext ==
  ASSUME SinceOK, Notes
  PROVE  SinceOK'
<1>1. ASSUME NEW a, NEW add \in SUBSET Event, NEW drop, Note(a, add, drop)
      PROVE  SinceOK'
  <2>1. \A k \in 1 .. MaxPosts :
          (IF Waits(k, a) THEN (since[k] \ drop) \cup add ELSE since[k]) \in SUBSET Event
    BY DEF SinceOK
  <2>. QED
    BY <1>1, <2>1 DEF Note, SinceOK
<1>2. \A a \in Addresses : NoteAttached(a) \/ NoteDetached(a) \/ NoteDestroyed(a) => SinceOK'
  BY <1>1 DEF NoteAttached, NoteDetached, NoteDestroyed, Event
<1>3. \A c \in Call : Forget(c) => SinceOK'
  BY DEF Forget, SinceOK
<1>. QED
  BY <1>2, <1>3 DEF Notes, SinceOK

\* Whatever calls run inside each other's drains, each operation of the adapter
\* finds the views, the application and the retains as it left them.
THEOREM AlwaysIInv == Spec => []IInv
<1>. QED
  BY InitInv, NextInv, PTL DEF Spec

-----------------------------------------------------------------------------
(* What follows                                                            *)

\* The kit holds a plugin's user_data exactly while a view of it has a widget or
\* is losing it, however detaches nest: retains and releases pair up.
THEOREM RetainAlwaysBalanced == Spec => []RetainBalanced
<1>1. IInv /\ SinceOK => RetainBalanced
  BY DEF IInv, RetainInv, RetainBalanced, TypeOK, SinceOK
<1>2. Init => IInv /\ SinceOK
  BY InitInv DEF Init, SinceOK
<1>3. IInv /\ SinceOK /\ [Next]_vars => (IInv /\ SinceOK)'
  BY NextInv, StepNotes, SinceOKNext
<1>. QED
  BY <1>1, <1>2, <1>3, PTL DEF Spec

\* No widget outlives the QApplication, whichever plugin's it is.
THEOREM AppLivesWhileAttached == Spec => []AppWhileAttached
<1>1. IInv => AppWhileAttached
  BY DEF IInv, AppInv
<1>. QED
  BY <1>1, AlwaysIInv, PTL

\* Once the release of the last view of the process has returned, the
\* QApplication is gone.
THEOREM AppGoesWithLast == Spec => []AppGoesWithLastView
<1>1. IInv => AppGoesWithLastView
  BY DEF IInv, AppInv, AppGoesWithLastView, InHostLoop
<1>. QED
  BY <1>1, AlwaysIInv, PTL

-----------------------------------------------------------------------------
(* A host that detaches a plugin's views before it terminates the plugin   *)

NoSweep == \A i \in DOMAIN frames : frames[i].step # "sweep"

\* A sweep then finds nothing to detach, so nothing is nested in it, and no
\* view outlives its plugin's terminate().
DetachInv ==
  /\ \A i \in DOMAIN frames :
       frames[i].step = "sweep" =>
         /\ i = Len(frames)
         /\ \A a \in Addresses :
              views[a].attached =>
                frames[i].op # "shutdown" /\ views[a].owner # frames[i].on
  /\ \A a \in Addresses : views[a].state = "alive" => views[a].owner \notin terminated

LEMMA NotInSweep ==
  ASSUME IInv, DetachInv, ~InHostLoop => Top.step # "sweep"
  PROVE  NoSweep
<1>1. CASE InHostLoop
  BY <1>1, EmptyStack DEF NoSweep, IInv, ProgramOK
<1>2. CASE ~InHostLoop
  BY <1>2, TopIsFrame DEF NoSweep, IInv, ProgramOK, DetachInv
<1>. QED
  BY <1>1, <1>2

\* A step that begins no sweep and brings no view to life.
LEMMA NoSweepKeeps ==
  ASSUME DetachInv, NoSweep', UNCHANGED terminated,
         \A a \in Addresses : views'[a].state = "alive" =>
           views[a].state = "alive" /\ views'[a].owner = views[a].owner
  PROVE  DetachInv'
  BY DEF DetachInv, NoSweep

LEMMA NoSweepPushed ==
  ASSUME IInv, NoSweep, NEW f \in Frame, Push(f), f.step # "sweep"
  PROVE  NoSweep'
<1>1. /\ DOMAIN frames' = DOMAIN frames \cup {Len(frames) + 1}
      /\ \A i \in DOMAIN frames : frames'[i] = frames[i]
      /\ frames'[Len(frames) + 1] = f
  BY Pushed DEF IInv, ProgramOK
<1>. QED
  BY <1>1 DEF NoSweep

LEMMA NoSweepTop ==
  ASSUME IInv, ~InHostLoop, \A i \in DOMAIN frames : i # Len(frames) => frames[i].step # "sweep",
         NEW f \in Frame, SetTop(f), f.step # "sweep"
  PROVE  NoSweep'
<1>1. /\ DOMAIN frames' = DOMAIN frames /\ frames'[Len(frames)] = f
      /\ \A i \in DOMAIN frames : i # Len(frames) => frames'[i] = frames[i]
  BY TopSet DEF IInv, ProgramOK
<1>. QED
  BY <1>1 DEF NoSweep

LEMMA NoSweepReturned ==
  ASSUME IInv, ~InHostLoop, \A i \in DOMAIN frames : i # Len(frames) => frames[i].step # "sweep",
         Return
  PROVE  NoSweep'
<1>1. /\ DOMAIN frames' = DOMAIN frames \ {Len(frames)}
      /\ \A i \in DOMAIN frames' : frames'[i] = frames[i]
  BY Returned DEF IInv, ProgramOK
<1>. QED
  BY <1>1 DEF NoSweep

LEMMA OnlyTopSweeps ==
  ASSUME IInv, DetachInv
  PROVE  \A i \in DOMAIN frames : i # Len(frames) => frames[i].step # "sweep"
  BY DEF DetachInv

\* What becomes of the frame on top while it drains: it takes the queue, starts
\* its next call, or is done with it.
Takes(f) ==
  /\ Top.step = "drain" /\ f.step = "drain"
  /\ Top.calls = <<>> /\ f.calls = m_queue /\ m_queue' = <<>> /\ ran' = ran

Starts(f) ==
  /\ Top.step = "drain" /\ f.step = "call"
  /\ Top.calls # <<>> /\ f.calls = Top.calls /\ m_queue' = m_queue
  /\ PostTargetAlive(Head(Top.calls).view)
  /\ ran' = ran \cup {Head(Top.calls).id}

IsDone(f) ==
  /\ Top.step \in {"drain", "call"} /\ f.step = "drain"
  /\ Top.calls # <<>> /\ f.calls = Tail(Top.calls) /\ m_queue' = m_queue /\ ran' = ran

LEMMA TopSteps ==
  ASSUME IInv, HandleEvent \/ RunCall \/ CallReturns
  PROVE  /\ ~InHostLoop /\ Top.step \in {"drain", "call"} /\ Top \in Frame
         /\ \E f \in Frame : /\ SetTop(f) /\ f.op = Top.op /\ f.on = Top.on
                             /\ Takes(f) \/ Starts(f) \/ IsDone(f)
         /\ UNCHANGED <<viewVars, appVars, terminated, posted>>
<1>1. ~InHostLoop /\ Top.step \in {"drain", "call"}
      /\ UNCHANGED <<viewVars, appVars, terminated, posted>>
  BY DEF HandleEvent, RunCall, CallReturns, At, InCallback, postVars
<1>2. Top \in Frame /\ frames \in Seq(Frame) /\ m_queue \in Seq(Call)
  BY <1>1, TopIsFrame DEF IInv, ProgramOK
<1>3. CASE HandleEvent
  <2> DEFINE f == [Top EXCEPT !.calls = m_queue]
  <2>1. f \in Frame /\ f.op = Top.op /\ f.on = Top.on /\ f.step = "drain" /\ f.calls = m_queue
    BY <1>2, <1>3, WithCalls DEF HandleEvent, At
  <2>2. SetTop(f) /\ Top.step = "drain" /\ Top.calls = <<>> /\ m_queue' = <<>> /\ ran' = ran
    BY <1>3 DEF HandleEvent, At, QueueLeft
  <2> HIDE DEF f
  <2>3. Takes(f)
    BY <2>1, <2>2 DEF Takes
  <2>. QED
    BY <1>1, <1>2, <2>1, <2>2, <2>3
<1>4. CASE RunCall
  <2>1. /\ Top.step = "drain" /\ Top.calls # <<>> /\ Tail(Top.calls) \in Seq(Call)
        /\ m_queue' = m_queue
    BY <1>2, <1>4 DEF RunCall, At, Frame, postVars
  <2>2. CASE /\ PostTargetAlive(Head(Top.calls).view)
             /\ GoOn("call")
             /\ ran' = ran \cup {Head(Top.calls).id}
    <3> DEFINE f == [Top EXCEPT !.step = "call"]
    <3>1. f \in Frame /\ f.op = Top.op /\ f.on = Top.on /\ f.step = "call" /\ f.calls = Top.calls
          /\ SetTop(f)
      BY <1>1, <1>2, <2>2, GoesOn
    <3> HIDE DEF f
    <3>2. Starts(f)
      BY <2>1, <2>2, <3>1 DEF Starts
    <3>. QED
      BY <1>1, <1>2, <3>1, <3>2
  <2>3. CASE SetTop([Top EXCEPT !.calls = Tail(@)]) /\ UNCHANGED ran
    <3> DEFINE f == [Top EXCEPT !.calls = Tail(Top.calls)]
    <3>1. f \in Frame /\ f.op = Top.op /\ f.on = Top.on /\ f.step = "drain"
          /\ f.calls = Tail(Top.calls)
      BY <1>2, <2>1, WithCalls
    <3>2. SetTop(f)
      BY <2>3
    <3> HIDE DEF f
    <3>3. IsDone(f)
      BY <2>1, <2>3, <3>1 DEF IsDone
    <3>. QED
      BY <1>1, <1>2, <3>1, <3>2, <3>3
  <2>. QED
    BY <1>4, <2>2, <2>3 DEF RunCall
<1>5. CASE CallReturns
  <2> DEFINE f == [Top EXCEPT !.step = "drain", !.calls = Tail(Top.calls)]
  <2>1. Top.calls # <<>> /\ Top.calls \in Seq(Call)
    BY <1>1, <1>2, <1>5, TopIsFrame DEF CallReturns, InCallback, IInv, StackShape, FrameShape, Frame
  <2>2. Tail(Top.calls) \in Seq(Call)
    BY <2>1
  <2>3. f \in Frame /\ f.op = Top.op /\ f.on = Top.on /\ f.step = "drain"
        /\ f.calls = Tail(Top.calls)
    BY <1>2, <2>2 DEF Frame
  <2>4. SetTop(f) /\ m_queue' = m_queue /\ ran' = ran
    BY <1>5 DEF CallReturns, postVars
  <2> HIDE DEF f
  <2>5. IsDone(f)
    BY <1>1, <2>1, <2>3, <2>4 DEF IsDone
  <2>. QED
    BY <1>1, <1>2, <2>3, <2>4, <2>5
<1>. QED
  BY <1>1, <1>3, <1>4, <1>5

\* Which fields of which views a step changes.
LEMMA ViewsFollow ==
  ASSUME IInv, GuiStep \/ (\E a \in Addresses : Attach(a) \/ Detach(a) \/ Release(a))
  PROVE  \A b \in Addresses :
           /\ views'[b].owner = views[b].owner
           /\ views'[b].state = "alive" => views[b].state = "alive"
           /\ views[b].state # "unused" => views'[b].state # "unused"
<1>0. views \in [Addresses -> View]
  BY DEF IInv, ProgramOK
<1>1. ASSUME NEW a \in Addresses, NEW v \in View, views' = [views EXCEPT ![a] = v],
             v.owner = views[a].owner, v.state = views[a].state \/ v.state = "freed"
      PROVE  \A b \in Addresses :
           /\ views'[b].owner = views[b].owner
           /\ views'[b].state = "alive" => views[b].state = "alive"
           /\ views[b].state # "unused" => views'[b].state # "unused"
  BY <1>0, <1>1
<1>2. ASSUME NEW a \in Addresses, BeginDetach(a)
      PROVE  \A b \in Addresses :
               views'[b].owner = views[b].owner /\ views'[b].state = views[b].state
  BY <1>2, BeganDetach
<1>3. CASE \E a \in Addresses : Detach(a) \/ Release(a)
  BY <1>2, <1>3 DEF Detach, Release
<1>4. CASE \E a \in Addresses : Attach(a)
  <2>1. PICK a \in Addresses : Attach(a)
    BY <1>4
  <2>2. views[a] \in View
    BY <1>0
  <2>3. PICK v \in {Embedded(views[a]), Abandoned(views[a])} : views' = [views EXCEPT ![a] = v]
    BY <2>1 DEF Attach
  <2>4. v \in View /\ v.owner = views[a].owner /\ v.state = views[a].state
    BY <2>2, <2>3, EmbeddedView, AbandonedView
  <2>. QED
    BY <1>1, <2>3, <2>4
<1>5. CASE SweepNext
  <2>1. PICK i \in ToSweep : BeginDetach(g_live_views[i])
    BY <1>5 DEF SweepNext
  <2>2. g_live_views[i] \in Addresses
    BY DEF ToSweep, IInv, ProgramOK
  <2>. QED
    BY <1>2, <2>1, <2>2
<1>6. CASE Unregister
  <2> DEFINE a == Top.on  v == [views[a] EXCEPT !.state = "freed"]
  <2>1. /\ ~InHostLoop /\ Top.step = "unregister" /\ views' = [views EXCEPT ![a] = v]
    BY <1>6 DEF Unregister, At
  <2>2. a \in Addresses
    BY <2>1, TopIsFrame DEF IInv, StackShape, FrameShape, ProgramOK, Frame
  <2>3. views[a] \in View
    BY <1>0, <2>2
  <2>4. v \in View /\ v.owner = views[a].owner /\ v.state = "freed"
    BY <2>3 DEF View
  <2> HIDE DEF v
  <2>. QED
    BY <1>1, <2>1, <2>2, <2>4
<1>7. CASE EndDrain
  <2>1. CASE UNCHANGED views
    BY <2>1
  <2>2. CASE Top.op = "detach" /\ views' = [views EXCEPT ![Top.on] = GivenBack(@)]
    <3> DEFINE a == Top.on  v == GivenBack(views[a])
    <3>1. ~InHostLoop /\ FrameShape(Top) /\ Len(frames) \in DOMAIN frames /\ Top = frames[Len(frames)]
      BY <1>7, TopIsFrame DEF EndDrain, At, IInv, StackShape, ProgramOK
    <3>2. a \in Addresses /\ BeingDetached(a)
      BY <2>2, <3>1 DEF FrameShape, BeingDetached
    <3>3. views[a] \in View /\ views[a].retained = 1
      BY <1>0, <3>2 DEF IInv, RetainInv
    <3>4. v \in View /\ v.owner = views[a].owner /\ v.state = views[a].state
      BY <3>3, GivenBackView
    <3>5. views' = [views EXCEPT ![a] = v]
      BY <2>2
    <3> HIDE DEF v
    <3>. QED
      BY <1>1, <3>2, <3>4, <3>5
  <2>. QED
    BY <1>7, <2>1, <2>2 DEF EndDrain
<1>8. CASE DeleteApp \/ EndSweep \/ HandleEvent \/ RunCall \/ CallReturns
  BY <1>8 DEF DeleteApp, EndSweep, HandleEvent, RunCall, CallReturns, viewVars
<1>. QED
  BY <1>3, <1>4, <1>5, <1>6, <1>7, <1>8 DEF GuiStep

LEMMA DetachInvNext ==
  ASSUME DetachesFirst, IInv, DetachInv, [Next]_vars
  PROVE  DetachInv'
<1>0. frames \in Seq(Frame)
  BY DEF IInv, ProgramOK
<1>1. CASE \E a \in Addresses : Attach(a) \/ Detach(a) \/ Release(a)
  <2>1. PICK a \in Addresses : Attach(a) \/ Detach(a) \/ Release(a)
    BY <1>1
  <2>2. NoSweep /\ UNCHANGED terminated
    BY <2>1, NotInSweep DEF Attach, Detach, Release, InCallback
  <2>3. CASE UNCHANGED frames
    <3>1. NoSweep'
      BY <2>2, <2>3 DEF NoSweep
    <3>. QED
      BY <1>1, <2>2, <3>1, ViewsFollow, NoSweepKeeps
  <2>4. CASE Push(Enter("detach", "drain", a))
    <3>1. Enter("detach", "drain", a) \in Frame /\ Enter("detach", "drain", a).step = "drain"
      BY Entered
    <3>2. NoSweep'
      BY <2>2, <2>4, <3>1, NoSweepPushed
    <3>. QED
      BY <1>1, <2>2, <3>2, ViewsFollow, NoSweepKeeps
  <2>5. CASE Release(a)
    <3> DEFINE d == Enter("view_destroy", "unregister", a)
               f == Enter("detach", "drain", a)
    <3>1. d \in Frame /\ d.step = "unregister" /\ f \in Frame /\ f.step = "drain"
      BY Entered
    <3>2. frames' \in {<<d>> \o <<f>>, <<d>> \o <<>>}
      BY <2>5 DEF Release
    <3> HIDE DEF d, f
    <3>3. \A i \in DOMAIN frames' : frames'[i] \in {d, f}
      <4>1. CASE frames' = <<d>> \o <<f>>
        BY <4>1
      <4>2. CASE frames' = <<d>> \o <<>>
        BY <4>2
      <4>. QED
        BY <3>2, <4>1, <4>2
    <3>4. NoSweep'
      BY <3>1, <3>3 DEF NoSweep
    <3>. QED
      BY <1>1, <2>2, <3>4, ViewsFollow, NoSweepKeeps
  <2>. QED
    BY <2>1, <2>3, <2>4, <2>5 DEF Attach, Detach
<1>2. CASE HandleEvent \/ RunCall \/ CallReturns
  <2>1. PICK f \in Frame : SetTop(f) /\ f.step \in {"drain", "call"}
    BY <1>2, TopSteps DEF Takes, Starts, IsDone
  <2>2. ~InHostLoop /\ UNCHANGED <<viewVars, terminated>>
    BY <1>2, TopSteps
  <2>3. NoSweep'
    BY <2>1, <2>2, NoSweepTop, OnlyTopSweeps
  <2>. QED
    BY <2>2, <2>3, NoSweepKeeps DEF viewVars
<1>3. CASE Unregister \/ EndDrain \/ EndSweep \/ DeleteApp
  <2>1. ~InHostLoop /\ UNCHANGED terminated
    BY <1>3 DEF Unregister, EndDrain, EndSweep, DeleteApp, At
  <2>2. Return \/ GoOn("drain") \/ GoOn("delete")
    BY <1>3 DEF Unregister, EndDrain, EndSweep, DeleteApp
  <2>3. NoSweep'
    <3>1. CASE Return
      BY <2>1, <3>1, NoSweepReturned, OnlyTopSweeps
    <3>2. ASSUME NEW step \in {"drain", "delete"}, GoOn(step)
          PROVE  NoSweep'
      <4> DEFINE f == [Top EXCEPT !.step = step]
      <4>1. f \in Frame /\ f.step = step /\ SetTop(f)
        BY <1>0, <2>1, <3>2, GoesOn
      <4> HIDE DEF f
      <4>. QED
        BY <2>1, <4>1, NoSweepTop, OnlyTopSweeps
    <3>. QED
      BY <2>2, <3>1, <3>2
  <2>. QED
    BY <1>3, <2>1, <2>3, ViewsFollow, NoSweepKeeps DEF GuiStep
<1>4. ASSUME SweepNext
      PROVE  FALSE
  <2>1. /\ ~InHostLoop /\ Top.step = "sweep" /\ Top = frames[Len(frames)]
        /\ Len(frames) \in DOMAIN frames
    BY <1>0, <1>4, TopIsFrame DEF SweepNext, At
  <2>2. PICK i \in ToSweep : TRUE
    BY <1>4 DEF SweepNext
  <2>3. /\ g_live_views[i] \in Addresses /\ views[g_live_views[i]].attached
        /\ Sweeps(g_live_views[i])
    BY DEF ToSweep, IInv, ProgramOK
  <2>. QED
    BY <2>1, <2>3 DEF DetachInv, Sweeps
<1>5. CASE \E p \in Plugins, a \in Addresses : View_Create(p, a)
  <2>1. PICK p \in Plugins, a \in Addresses : View_Create(p, a)
    BY <1>5
  <2>2. /\ DOMAIN frames' = {} /\ UNCHANGED terminated /\ p \notin terminated
        /\ views' = [views EXCEPT ![a] =
             [state |-> "alive", owner |-> p, attached |-> FALSE, accept |-> FALSE,
              retained |-> 0]]
        /\ views \in [Addresses -> View]
    BY <2>1, EmptyStack DEF View_Create, IInv, ProgramOK
  <2>3. \A b \in Addresses : b # a => views'[b] = views[b]
    BY <2>2
  <2>4. views'[a].owner = p
    BY <2>2
  <2>. QED
    BY <2>2, <2>3, <2>4 DEF DetachInv
<1>6. CASE \E p \in Plugins : Terminate(p)
  <2>1. PICK p \in Plugins : Terminate(p)
    BY <1>6
  <2> DEFINE f == Enter("shutdown_owner", "sweep", p)
  <2>2. f \in Frame /\ f.op = "shutdown_owner" /\ f.step = "sweep" /\ f.on = p
    BY Entered
  <2>3. /\ InHostLoop /\ Push(f) /\ terminated' = terminated \cup {p} /\ views' = views
        /\ \A a \in Addresses : views[a].state = "alive" => views[a].owner # p
    BY <2>1 DEF Terminate, viewVars
  <2> HIDE DEF f
  <2>4. DOMAIN frames' = {1} /\ frames'[1] = f /\ Len(frames') = 1
    BY <1>0, <2>2, <2>3, EmptyStack, Pushed
  <2>. QED
    BY <2>2, <2>3, <2>4 DEF DetachInv, IInv, ViewsInv
<1>7. CASE Shutdown
  <2> DEFINE f == Enter("shutdown", "sweep", NoView)
  <2>2. f \in Frame
    BY Entered
  <2>3. /\ InHostLoop /\ Push(f) /\ terminated' = terminated /\ views' = views
        /\ \A a \in Addresses : ~views[a].attached
    BY <1>7 DEF Shutdown, viewVars
  <2> HIDE DEF f
  <2>4. DOMAIN frames' = {1} /\ frames'[1] = f /\ Len(frames') = 1
    BY <1>0, <2>2, <2>3, EmptyStack, Pushed
  <2>. QED
    BY <2>2, <2>3, <2>4 DEF DetachInv
<1>8. CASE On_Idle
  <2> DEFINE f == Enter("on_idle", "drain", NoView)
  <2>2. f \in Frame /\ f.step = "drain"
    BY Entered
  <2>3. InHostLoop /\ Push(f) /\ UNCHANGED terminated /\ views' = views
    BY <1>8 DEF On_Idle, viewVars
  <2> HIDE DEF f
  <2>4. NoSweep'
    BY <2>2, <2>3, NotInSweep, NoSweepPushed
  <2>. QED
    BY <2>3, <2>4, NoSweepKeeps
<1>9. CASE UNCHANGED vars \/ \E p \in Plugins : Post(p) \/ PostEvent(p)
  <2>1. UNCHANGED <<views, frames, terminated>>
    BY <1>9 DEF vars, Post, PostEvent, viewVars
  <2>. QED
    BY <2>1 DEF DetachInv
<1>. QED
  BY <1>1, <1>2, <1>3, <1>4, <1>5, <1>6, <1>7, <1>8, <1>9 DEF Next, GuiStep

LEMMA DetachInvInit == Init => DetachInv
  BY DEF Init, DetachInv

LEMMA AlwaysDetachInv ==
  ASSUME DetachesFirst
  PROVE  Spec => [](IInv /\ DetachInv)
<1>1. Init => IInv /\ DetachInv
  BY InitInv, DetachInvInit
<1>2. IInv /\ DetachInv /\ [Next]_vars => (IInv /\ DetachInv)'
  BY NextInv, DetachInvNext
<1>. QED
  BY <1>1, <1>2, PTL DEF Spec

\* With such a host the GUI thread never waits for g_views_mutex while it holds
\* it: a sweep finds no widget, so it drains nothing and no call comes up.
THEOREM HostThatDetachesNeverBlocks ==
  ASSUME DetachesFirst
  PROVE  Spec => []GuiNeverBlocks
<1>1. IInv /\ DetachInv => GuiNeverBlocks
  <2>. SUFFICES ASSUME IInv, DetachInv, At("drain") PROVE ~ViewsLocked
    BY DEF GuiNeverBlocks
  <2>. QED
    BY NotInSweep DEF At, NoSweep, ViewsLocked
<1>. QED
  BY <1>1, AlwaysDetachInv, PTL

-----------------------------------------------------------------------------
(* Where posted calls are                                                  *)

LEMMA ElementsOfTail ==
  ASSUME NEW S, NEW s \in Seq(S), s # <<>>
  PROVE  /\ Elements(Tail(s)) \subseteq Elements(s)
         /\ Head(s) \in Elements(s) /\ Head(s) \in S /\ Tail(s) \in Seq(S)
         /\ Len(Tail(s)) = Len(s) - 1
         /\ \A i \in DOMAIN Tail(s) : i \in 1 .. Len(s) - 1 /\ Tail(s)[i] = s[i + 1]
  BY DEF Elements

LEMMA PendingWithin ==
  ASSUME Elements(m_queue') \subseteq Pending,
         \A i \in DOMAIN frames' : Elements(frames'[i].calls) \subseteq Pending
  PROVE  Pending' \subseteq Pending
<1>1. Pending' = Elements(m_queue') \cup UNION {Elements(frames'[i].calls) : i \in DOMAIN frames'}
  BY DEF Pending, Elements
<1>. QED
  BY <1>1

LEMMA PendingIs ==
  /\ Elements(m_queue) \subseteq Pending
  /\ \A i \in DOMAIN frames : Elements(frames[i].calls) \subseteq Pending
  BY DEF Pending

\* What the frames of a step are: those there were, and one on top.
LEMMA PendingOfFrames ==
  ASSUME m_queue' = m_queue,
         \A i \in DOMAIN frames' : \/ i \in DOMAIN frames /\ frames'[i] = frames[i]
                                   \/ Elements(frames'[i].calls) \subseteq Pending
  PROVE  Pending' \subseteq Pending
<1>1. \A i \in DOMAIN frames' : Elements(frames'[i].calls) \subseteq Pending
  BY PendingIs
<1>2. Elements(m_queue') \subseteq Pending
  BY PendingIs
<1>. QED
  BY <1>1, <1>2, PendingWithin

\* Calls come from post only.
LEMMA PendingMoves ==
  ASSUME IInv, [Next]_vars, ~ \E p \in Plugins : Post(p)
  PROVE  Pending' \subseteq Pending
<1>0. frames \in Seq(Frame) /\ m_queue \in Seq(Call)
  BY DEF IInv, ProgramOK
<1>1. CASE HandleEvent \/ RunCall \/ CallReturns
  <2>1. PICK f \in Frame : SetTop(f) /\ (Takes(f) \/ Starts(f) \/ IsDone(f))
    BY <1>1, TopSteps
  <2>2. ~InHostLoop /\ Top \in Frame
    BY <1>1, TopSteps
  <2>3. /\ DOMAIN frames' = DOMAIN frames /\ frames'[Len(frames)] = f
        /\ \A i \in DOMAIN frames : i # Len(frames) => frames'[i] = frames[i]
        /\ Len(frames) \in DOMAIN frames /\ Top = frames[Len(frames)]
    BY <1>0, <2>1, <2>2, TopSet, TopIsFrame
  <2>4. Elements(Top.calls) \subseteq Pending /\ Elements(m_queue) \subseteq Pending
    BY <2>3, PendingIs
  <2>5. Elements(<<>>) = {}
    BY DEF Elements
  <2>6. Elements(f.calls) \subseteq Pending /\ Elements(m_queue') \subseteq Pending
    <3>1. CASE Takes(f)
      BY <2>4, <2>5, <3>1 DEF Takes
    <3>2. CASE Starts(f)
      BY <2>4, <3>2 DEF Starts
    <3>3. CASE IsDone(f)
      <4>1. Top.calls \in Seq(Call) /\ Top.calls # <<>>
        BY <2>2, <3>3 DEF Frame, IsDone
      <4>2. Elements(Tail(Top.calls)) \subseteq Elements(Top.calls)
        BY <4>1, ElementsOfTail
      <4>. QED
        BY <2>4, <3>3, <4>2 DEF IsDone
    <3>. QED
      BY <2>1, <3>1, <3>2, <3>3
  <2>7. \A i \in DOMAIN frames' : Elements(frames'[i].calls) \subseteq Pending
    BY <2>3, <2>6, PendingIs
  <2>. QED
    BY <2>6, <2>7, PendingWithin
<1>2. ASSUME ~InHostLoop, Return \/ (\E step \in {"drain", "delete"} : GoOn(step)),
             m_queue' = m_queue
      PROVE  Pending' \subseteq Pending
  <2>1. CASE Return
    <3>1. \A i \in DOMAIN frames' : i \in DOMAIN frames /\ frames'[i] = frames[i]
      BY <1>0, <1>2, <2>1, Returned
    <3>. QED
      BY <1>2, <3>1, PendingOfFrames
  <2>2. ASSUME NEW step \in {"drain", "delete"}, GoOn(step)
        PROVE  Pending' \subseteq Pending
    <3> DEFINE f == [Top EXCEPT !.step = step]
    <3>1. f \in Frame /\ f.calls = Top.calls /\ SetTop(f)
      BY <1>0, <1>2, <2>2, GoesOn
    <3> HIDE DEF f
    <3>2. /\ DOMAIN frames' = DOMAIN frames /\ frames'[Len(frames)] = f
          /\ \A i \in DOMAIN frames : i # Len(frames) => frames'[i] = frames[i]
          /\ Len(frames) \in DOMAIN frames /\ Top = frames[Len(frames)]
      BY <1>0, <1>2, <3>1, TopSet, TopIsFrame
    <3>3. Elements(f.calls) \subseteq Pending
      BY <3>1, <3>2, PendingIs
    <3>. QED
      BY <1>2, <3>2, <3>3, PendingOfFrames
  <2>. QED
    BY <1>2, <2>1, <2>2
<1>3. CASE Unregister \/ EndDrain \/ EndSweep \/ DeleteApp
  BY <1>2, <1>3 DEF Unregister, EndDrain, EndSweep, DeleteApp, At, postVars
<1>4. ASSUME NEW f \in Frame, Push(f), f.calls = <<>>, m_queue' = m_queue
      PROVE  Pending' \subseteq Pending
  <2>1. /\ DOMAIN frames' = DOMAIN frames \cup {Len(frames) + 1}
        /\ \A i \in DOMAIN frames : frames'[i] = frames[i]
        /\ frames'[Len(frames) + 1] = f
    BY <1>0, <1>4, Pushed
  <2>2. Elements(f.calls) \subseteq Pending
    BY <1>4 DEF Elements
  <2>. QED
    BY <1>4, <2>1, <2>2, PendingOfFrames
<1>5. CASE SweepNext
  <2>1. PICK i \in ToSweep : Push(Enter("detach", "drain", g_live_views[i]))
    BY <1>5 DEF SweepNext
  <2>2. g_live_views[i] \in Addresses /\ m_queue' = m_queue
    BY <1>5 DEF ToSweep, IInv, ProgramOK, SweepNext, postVars
  <2>. QED
    BY <1>4, <2>1, <2>2, Entered
<1>6. CASE Shutdown \/ On_Idle \/ \E p \in Plugins : Terminate(p)
  <2>1. m_queue' = m_queue
    BY <1>6 DEF Shutdown, On_Idle, Terminate, postVars
  <2>2. PICK f \in Frame : Push(f) /\ f.calls = <<>>
    BY <1>6, Entered DEF Shutdown, On_Idle, Terminate
  <2>. QED
    BY <1>4, <2>1, <2>2
<1>7. CASE \E a \in Addresses : Detach(a) \/ Release(a)
  <2>1. PICK a \in Addresses : Detach(a) \/ Release(a)
    BY <1>7
  <2> DEFINE d == Enter("view_destroy", "unregister", a)
             f == Enter("detach", "drain", a)
  <2>2. /\ m_queue' = m_queue
        /\ UNCHANGED frames \/ Push(f) \/ frames' \in {<<d>> \o <<f>>, <<d>> \o <<>>}
    BY <2>1 DEF Detach, Release, postVars
  <2>3. d \in Frame /\ d.calls = <<>> /\ f \in Frame /\ f.calls = <<>>
    BY Entered
  <2> HIDE DEF d, f
  <2>4. CASE UNCHANGED frames
    BY <2>2, <2>4, PendingOfFrames
  <2>5. CASE Push(f)
    BY <1>4, <2>2, <2>3, <2>5
  <2>6. CASE frames' \in {<<d>> \o <<f>>, <<d>> \o <<>>}
    <3>1. \A i \in DOMAIN frames' : frames'[i] \in {d, f}
      <4>1. CASE frames' = <<d>> \o <<f>>
        BY <4>1
      <4>2. CASE frames' = <<d>> \o <<>>
        BY <4>2
      <4>. QED
        BY <2>6, <4>1, <4>2
    <3>2. \A i \in DOMAIN frames' : Elements(frames'[i].calls) = {}
      BY <2>3, <3>1 DEF Elements
    <3>. QED
      BY <2>2, <3>2, PendingOfFrames
  <2>. QED
    BY <2>2, <2>4, <2>5, <2>6
<1>8. CASE \/ UNCHANGED vars
           \/ \E p \in Plugins, a \in Addresses : View_Create(p, a)
           \/ \E a \in Addresses : Attach(a)
           \/ \E p \in Plugins : PostEvent(p)
  <2>1. UNCHANGED <<frames, m_queue>>
    BY <1>8 DEF vars, postVars, View_Create, Attach, PostEvent
  <2>. QED
    BY <2>1, PendingOfFrames
<1>. QED
  BY <1>1, <1>3, <1>5, <1>6, <1>7, <1>8 DEF Next, GuiStep

-----------------------------------------------------------------------------
(* A posted call starts                                                    *)

\* Only the handler starts one, and it has just looked at the view.
LEMMA StartingCall ==
  ASSUME IInv, [Next]_vars, CallStarts
  PROVE  /\ ~InHostLoop /\ Top \in Frame /\ Top.step = "drain" /\ Top.calls # <<>>
         /\ Starting \in Pending /\ Starting \in Call
         /\ PostTargetAlive(Starting.view)
<1>0. /\ frames \in Seq(Frame) /\ ~InHostLoop /\ frames' # frames
      /\ Len(frames') = Len(frames) /\ frames'[Len(frames')].step = "call"
  BY DEF CallStarts, Top, IInv, ProgramOK
<1>1. ~ \E f \in Frame : Push(f)
  <2>. SUFFICES ASSUME NEW f \in Frame, Push(f) PROVE FALSE
    OBVIOUS
  <2>1. Len(frames') = Len(frames) + 1
    BY <1>0, Pushed
  <2>. QED
    BY <1>0, <2>1
<1>2. ~Return
  <2>. SUFFICES ASSUME Return PROVE FALSE
    OBVIOUS
  <2>1. Len(frames') = Len(frames) - 1 /\ Len(frames) \in Nat
    BY <1>0, Returned
  <2>. QED
    BY <1>0, <2>1
<1>3. \A f \in Frame : SetTop(f) => f.step = "call"
  BY <1>0, TopSet
<1>4. ~ \E step \in {"drain", "delete"} : GoOn(step)
  BY <1>0, <1>3, GoesOn
<1>5. HandleEvent \/ RunCall \/ CallReturns
  <2>1. ~(Unregister \/ EndDrain \/ EndSweep \/ DeleteApp)
    BY <1>2, <1>4 DEF Unregister, EndDrain, EndSweep, DeleteApp
  <2>2. ~SweepNext
    <3>1. \A i \in ToSweep : g_live_views[i] \in Addresses
      BY DEF ToSweep, IInv, ProgramOK
    <3>2. \A a \in Addresses : Enter("detach", "drain", a) \in Frame
      BY Entered
    <3>. QED
      BY <1>1, <3>1, <3>2 DEF SweepNext
  <2>3. ~ \E a \in Addresses : Attach(a) \/ Detach(a) \/ Release(a)
    <3>1. \A a \in Addresses : Enter("detach", "drain", a) \in Frame
      BY Entered
    <3>2. \A a \in Addresses : ~Attach(a) /\ ~Release(a)
      BY <1>0 DEF Attach, Release
    <3>3. \A a \in Addresses : ~Detach(a)
      BY <1>0, <1>1, <3>1 DEF Detach
    <3>. QED
      BY <3>2, <3>3
  <2>4. ~ \E p \in Plugins : \/ Terminate(p) \/ Post(p) \/ PostEvent(p)
                             \/ \E a \in Addresses : View_Create(p, a)
    BY <1>0 DEF Terminate, Post, PostEvent, View_Create
  <2>5. ~Shutdown /\ ~On_Idle /\ ~UNCHANGED vars
    BY <1>0 DEF Shutdown, On_Idle, vars
  <2>. QED
    BY <2>1, <2>2, <2>3, <2>4, <2>5 DEF Next, GuiStep
<1>6. PICK f \in Frame : SetTop(f) /\ (Takes(f) \/ Starts(f) \/ IsDone(f))
  BY <1>5, TopSteps
<1>7. Starts(f)
  BY <1>3, <1>6 DEF Takes, IsDone
<1>8. Top \in Frame /\ Len(frames) \in DOMAIN frames /\ Top = frames[Len(frames)]
  BY <1>0, TopIsFrame
<1>9. Top.calls \in Seq(Call) /\ Top.calls # <<>> /\ Elements(Top.calls) \subseteq Pending
  BY <1>7, <1>8, PendingIs DEF Starts, Frame
<1>10. Starting \in Elements(Top.calls) /\ Starting \in Call
  BY <1>9, ElementsOfTail DEF Starting
<1>. QED
  BY <1>0, <1>7, <1>8, <1>9, <1>10 DEF Starts, Starting

\* No call of a plugin starts after its terminate(), if the host detaches and
\* releases the plugin's views first, unless another plugin's view lets it through:
\* the view that does is alive, and no view outlives its plugin's terminate().
THEOREM NothingAfterTerminate ==
  ASSUME DetachesFirst
  PROVE  Spec => NoCallAfterTerminate
<1> DEFINE Inv == IInv /\ DetachInv
           Exempt == \/ Starting.by \notin terminated
                     \/ views[Starting.view].owner # Starting.by
<1>1. Inv /\ [Next]_vars => [CallStarts => Exempt]_vars
  <2>. SUFFICES ASSUME Inv, [Next]_vars, CallStarts
                PROVE  Exempt
    OBVIOUS
  <2>1. PostTargetAlive(Starting.view) /\ Starting \in Call
    BY StartingCall
  <2>2. Starting.view \in Addresses /\ views[Starting.view].state = "alive"
    BY <2>1 DEF PostTargetAlive, Call, IInv, ViewsInv
  <2>. QED
    BY <2>2 DEF DetachInv
<1>2. Spec => []Inv
  BY AlwaysDetachInv
<1>. QED
  BY <1>1, <1>2, PTL DEF Spec, NoCallAfterTerminate

-----------------------------------------------------------------------------
(* A call is taken and run once                                            *)

\* No id twice in a sequence of calls, nor in two of them.
Distinct(s) == \A j, k \in DOMAIN s : s[j].id = s[k].id => j = k
Apart(s, t) == \A j \in DOMAIN s, k \in DOMAIN t : s[j].id # t[k].id

\* Of the calls a handler has taken, only the one it is running has been run.
OnceFrame(f, n, started) ==
  /\ Distinct(f.calls)
  /\ \A j \in DOMAIN f.calls :
       /\ f.calls[j].id <= n
       /\ f.calls[j].id \in started => j = 1 /\ f.step = "call"

OnceQueue(q, n, started) ==
  /\ Distinct(q)
  /\ \A j \in DOMAIN q : q[j].id <= n /\ q[j].id \notin started

\* Each posted call is in one place, the queue or a handler on the stack.
OnceInv ==
  /\ ran \subseteq 1 .. posted
  /\ OnceQueue(m_queue, posted, ran)
  /\ \A i \in DOMAIN frames :
       OnceFrame(frames[i], posted, ran) /\ Apart(frames[i].calls, m_queue)
  /\ \A i, h \in DOMAIN frames : i # h => Apart(frames[i].calls, frames[h].calls)

\* A step that takes and runs no call.
LEMMA OnceKept ==
  ASSUME OnceInv, UNCHANGED <<m_queue, posted, ran>>,
         \A i \in DOMAIN frames' :
           \/ frames'[i].calls = <<>>
           \/ /\ i \in DOMAIN frames /\ frames'[i].calls = frames[i].calls
              /\ frames[i].step = "call" => frames'[i].step = "call"
  PROVE  OnceInv'
<1>1. ASSUME NEW i \in DOMAIN frames'
      PROVE  OnceFrame(frames'[i], posted, ran) /\ Apart(frames'[i].calls, m_queue)
  <2>1. CASE frames'[i].calls = <<>>
    BY <2>1 DEF OnceFrame, Apart, Distinct
  <2>2. CASE /\ i \in DOMAIN frames /\ frames'[i].calls = frames[i].calls
             /\ frames[i].step = "call" => frames'[i].step = "call"
    BY <2>2 DEF OnceInv, OnceFrame, Apart
  <2>. QED
    BY <2>1, <2>2
<1>2. ASSUME NEW i \in DOMAIN frames', NEW h \in DOMAIN frames', i # h
      PROVE  Apart(frames'[i].calls, frames'[h].calls)
  <2>1. CASE frames'[i].calls = <<>> \/ frames'[h].calls = <<>>
    BY <2>1 DEF Apart
  <2>2. CASE /\ i \in DOMAIN frames /\ frames'[i].calls = frames[i].calls
             /\ h \in DOMAIN frames /\ frames'[h].calls = frames[h].calls
    BY <1>2, <2>2 DEF OnceInv
  <2>. QED
    BY <2>1, <2>2
<1>. QED
  BY <1>1, <1>2 DEF OnceInv

\* The frame on top takes the queue, starts a call or is done with one.
LEMMA OnceTop ==
  ASSUME IInv, OnceInv, ~InHostLoop, NEW f \in Frame, SetTop(f),
         Takes(f) \/ Starts(f) \/ IsDone(f), posted' = posted
  PROVE  OnceInv'
<1> DEFINE n == Len(frames)
<1>1. /\ DOMAIN frames' = DOMAIN frames /\ frames'[n] = f
      /\ \A i \in DOMAIN frames : i # n => frames'[i] = frames[i]
      /\ n \in DOMAIN frames /\ Top = frames[n] /\ Top \in Frame
  BY TopSet, TopIsFrame DEF IInv, ProgramOK
<1>2. /\ OnceFrame(Top, posted, ran) /\ Apart(Top.calls, m_queue) /\ Top.calls \in Seq(Call)
      /\ \A i \in DOMAIN frames : i # n => /\ Apart(frames[i].calls, Top.calls)
                                           /\ Apart(Top.calls, frames[i].calls)
  BY <1>1 DEF OnceInv, Frame
<1>3. /\ ran \subseteq 1 .. posted /\ OnceQueue(m_queue, posted, ran)
      /\ \A i \in DOMAIN frames :
           OnceFrame(frames[i], posted, ran) /\ Apart(frames[i].calls, m_queue)
      /\ \A i, h \in DOMAIN frames : i # h => Apart(frames[i].calls, frames[h].calls)
  BY DEF OnceInv
<1> HIDE DEF n
\* What is to be shown of the frame on top, of the queue, and of the others.
<1>4. ASSUME ran' \subseteq 1 .. posted, OnceQueue(m_queue', posted, ran'),
             OnceFrame(f, posted, ran'), Apart(f.calls, m_queue'),
             \A i \in DOMAIN frames : i # n =>
               /\ OnceFrame(frames[i], posted, ran') /\ Apart(frames[i].calls, m_queue')
               /\ Apart(frames[i].calls, f.calls) /\ Apart(f.calls, frames[i].calls)
      PROVE  OnceInv'
  <2>1. \A i \in DOMAIN frames' :
          OnceFrame(frames'[i], posted', ran') /\ Apart(frames'[i].calls, m_queue')
    BY <1>1, <1>4
  <2>2. \A i, h \in DOMAIN frames' : i # h => Apart(frames'[i].calls, frames'[h].calls)
    BY <1>1, <1>3, <1>4
  <2>. QED
    BY <1>4, <2>1, <2>2 DEF OnceInv
<1>5. CASE Takes(f)
  <2>1. f.calls = m_queue /\ m_queue' = <<>> /\ ran' = ran /\ f.step = "drain"
    BY <1>5 DEF Takes
  <2>2. OnceQueue(m_queue', posted, ran')
    BY <2>1 DEF OnceQueue, Distinct
  <2>3. OnceFrame(f, posted, ran')
    BY <1>3, <2>1 DEF OnceQueue, OnceFrame
  <2>4. \A s : Apart(s, m_queue') /\ (Apart(s, m_queue) => Apart(m_queue, s))
    BY <2>1 DEF Apart
  <2>. QED
    BY <1>3, <1>4, <2>1, <2>2, <2>3, <2>4
<1>6. CASE Starts(f)
  <2> DEFINE id == Head(Top.calls).id
  <2>1. /\ f.calls = Top.calls /\ m_queue' = m_queue /\ ran' = ran \cup {id}
        /\ f.step = "call" /\ Top.calls # <<>>
    BY <1>6 DEF Starts
  <2>2. 1 \in DOMAIN Top.calls /\ id = Top.calls[1].id /\ id \in 1 .. MaxPosts
    <3>1. 1 \in DOMAIN Top.calls /\ Head(Top.calls) = Top.calls[1] /\ Top.calls[1] \in Call
      BY <1>2, <2>1
    <3>. QED
      BY <3>1 DEF Call
  <2> HIDE DEF id
  <2>3. id \in 1 .. posted
    BY <1>2, <2>2 DEF OnceFrame, IInv, ProgramOK
  <2>4. OnceQueue(m_queue', posted, ran')
    BY <1>2, <1>3, <2>1, <2>2 DEF OnceQueue, Apart
  <2>5. OnceFrame(f, posted, ran')
    BY <1>2, <2>1, <2>2 DEF OnceFrame, Distinct
  <2>6. \A i \in DOMAIN frames : i # n => OnceFrame(frames[i], posted, ran')
    BY <1>2, <1>3, <2>1, <2>2 DEF OnceFrame, Apart
  <2>. QED
    BY <1>2, <1>3, <1>4, <2>1, <2>3, <2>4, <2>5, <2>6
<1>7. CASE IsDone(f)
  <2>1. /\ f.calls = Tail(Top.calls) /\ m_queue' = m_queue /\ ran' = ran
        /\ f.step = "drain" /\ Top.calls # <<>>
    BY <1>7 DEF IsDone
  <2>2. \A j \in DOMAIN f.calls :
          /\ j \in Nat \ {0} /\ j + 1 \in DOMAIN Top.calls
          /\ f.calls[j] = Top.calls[j + 1]
    <3>1. Len(Top.calls) \in Nat /\ DOMAIN Top.calls = 1 .. Len(Top.calls)
      BY <1>2
    <3>2. \A j \in DOMAIN Tail(Top.calls) :
            j \in 1 .. Len(Top.calls) - 1 /\ Tail(Top.calls)[j] = Top.calls[j + 1]
      BY <1>2, <2>1, ElementsOfTail
    <3>. QED
      BY <2>1, <3>1, <3>2
  <2>3. OnceFrame(f, posted, ran')
    BY <1>2, <2>1, <2>2 DEF OnceFrame, Distinct
  <2>4. \A s : /\ Apart(Top.calls, s) => Apart(f.calls, s)
               /\ Apart(s, Top.calls) => Apart(s, f.calls)
    BY <2>2 DEF Apart
  <2>. QED
    BY <1>2, <1>3, <1>4, <2>1, <2>3, <2>4
<1>. QED
  BY <1>5, <1>6, <1>7

LEMMA OncePosted ==
  ASSUME IInv, OnceInv, NEW p \in Plugins, Post(p)
  PROVE  OnceInv'
<1> DEFINE call == [id |-> posted + 1, by |-> p, view |-> weak[p]]
<1>1. /\ m_queue' = Append(m_queue, call) /\ posted' = posted + 1
      /\ frames' = frames /\ ran' = ran /\ posted \in Nat /\ m_queue \in Seq(Call)
      /\ frames \in Seq(Frame) /\ call.id = posted + 1
  BY QtConstants DEF Post, IInv, ProgramOK, QtConstants
<1>2. call \in Call
  <2>1. posted + 1 \in 1 .. MaxPosts /\ weak[p] \in Addresses
    BY QtConstants DEF Post, IInv, ProgramOK, QtConstants
  <2>. QED
    BY <2>1 DEF Call
<1> HIDE DEF call
<1>3. /\ DOMAIN m_queue' = DOMAIN m_queue \cup {Len(m_queue) + 1}
      /\ \A j \in DOMAIN m_queue : m_queue'[j] = m_queue[j] /\ m_queue[j] \in Call
      /\ m_queue'[Len(m_queue) + 1] = call
  BY <1>1, <1>2
<1>4. \A c \in Call : c.id \in Nat /\ (c.id <= posted => c.id <= posted + 1 /\ c.id # posted + 1)
  BY <1>1 DEF Call
<1>5. OnceQueue(m_queue', posted', ran')
  <2>1. posted + 1 \notin ran /\ posted + 1 <= posted + 1
    BY <1>1 DEF OnceInv
  <2>2. \A j \in DOMAIN m_queue' : m_queue'[j].id <= posted + 1 /\ m_queue'[j].id \notin ran
    BY <1>1, <1>3, <1>4, <2>1 DEF OnceInv, OnceQueue
  <2>3. ASSUME NEW j \in DOMAIN m_queue', NEW k \in DOMAIN m_queue', m_queue'[j].id = m_queue'[k].id
        PROVE  j = k
    <3>1. \A i \in DOMAIN m_queue : m_queue'[i].id # posted + 1
      BY <1>3, <1>4 DEF OnceInv, OnceQueue
    <3>2. CASE j \in DOMAIN m_queue /\ k \in DOMAIN m_queue
      BY <1>3, <2>3, <3>2 DEF OnceInv, OnceQueue, Distinct
    <3>. QED
      BY <1>1, <1>3, <2>3, <3>1, <3>2
  <2>. QED
    BY <1>1, <2>2, <2>3 DEF OnceQueue, Distinct
<1>6. ASSUME NEW i \in DOMAIN frames
      PROVE  OnceFrame(frames[i], posted', ran') /\ Apart(frames[i].calls, m_queue')
  <2>1. OnceFrame(frames[i], posted, ran) /\ Apart(frames[i].calls, m_queue)
    BY DEF OnceInv
  <2>2. frames[i].calls \in Seq(Call)
    <3>1. frames[i] \in Frame
      BY <1>1
    <3>2. \A f \in Frame : f.calls \in Seq(Call)
      BY DEF Frame
    <3>. QED
      BY <3>1, <3>2
  <2>3. \A j \in DOMAIN frames[i].calls :
          /\ frames[i].calls[j].id <= posted + 1
          /\ frames[i].calls[j].id # posted + 1
    <3>1. \A j \in DOMAIN frames[i].calls : frames[i].calls[j] \in Call
      BY <2>2
    <3>. QED
      BY <1>4, <2>1, <3>1 DEF OnceFrame
  <2>4. OnceFrame(frames[i], posted', ran')
    BY <1>1, <2>1, <2>3 DEF OnceFrame
  <2>5. Apart(frames[i].calls, m_queue')
    BY <1>1, <1>3, <2>1, <2>3 DEF Apart
  <2>. QED
    BY <2>4, <2>5
<1>7. ran' \subseteq 1 .. posted'
  <2>1. 1 .. posted \subseteq 1 .. posted + 1
    BY <1>1
  <2>. QED
    BY <1>1, <2>1 DEF OnceInv
<1>. QED
  BY <1>1, <1>5, <1>6, <1>7 DEF OnceInv

LEMMA OnceInvNext ==
  ASSUME IInv, OnceInv, [Next]_vars
  PROVE  OnceInv'
<1>0. frames \in Seq(Frame)
  BY DEF IInv, ProgramOK
<1>1. CASE HandleEvent \/ RunCall \/ CallReturns
  BY <1>1, TopSteps, OnceTop
<1>2. CASE \E p \in Plugins : Post(p)
  BY <1>2, OncePosted
<1>3. ASSUME NEW f \in Frame, Push(f), f.calls = <<>>, UNCHANGED <<m_queue, posted, ran>>
      PROVE  OnceInv'
  <2>1. /\ DOMAIN frames' = DOMAIN frames \cup {Len(frames) + 1}
        /\ \A i \in DOMAIN frames : frames'[i] = frames[i]
        /\ frames'[Len(frames) + 1] = f
    BY <1>0, <1>3, Pushed
  <2>. QED
    BY <1>3, <2>1, OnceKept
<1>4. CASE Unregister \/ EndDrain \/ EndSweep \/ DeleteApp
  <2>1. /\ ~InHostLoop /\ Top.step # "call" /\ UNCHANGED <<m_queue, posted, ran>>
        /\ Return \/ (\E step \in {"drain", "delete"} : GoOn(step))
    BY <1>4 DEF Unregister, EndDrain, EndSweep, DeleteApp, At, postVars
  <2>2. CASE Return
    <3>1. \A i \in DOMAIN frames' : i \in DOMAIN frames /\ frames'[i] = frames[i]
      BY <1>0, <2>1, <2>2, Returned
    <3>. QED
      BY <2>1, <3>1, OnceKept
  <2>3. ASSUME NEW step \in {"drain", "delete"}, GoOn(step)
        PROVE  OnceInv'
    <3> DEFINE f == [Top EXCEPT !.step = step]
    <3>1. f \in Frame /\ f.calls = Top.calls /\ SetTop(f)
      BY <1>0, <2>1, <2>3, GoesOn
    <3> HIDE DEF f
    <3>2. /\ DOMAIN frames' = DOMAIN frames /\ frames'[Len(frames)] = f
          /\ \A i \in DOMAIN frames : i # Len(frames) => frames'[i] = frames[i]
          /\ Len(frames) \in DOMAIN frames /\ Top = frames[Len(frames)]
      BY <1>0, <2>1, <3>1, TopSet, TopIsFrame
    <3>. QED
      BY <2>1, <3>1, <3>2, OnceKept
  <2>. QED
    BY <2>1, <2>2, <2>3
<1>5. CASE SweepNext
  <2>1. PICK i \in ToSweep : Push(Enter("detach", "drain", g_live_views[i]))
    BY <1>5 DEF SweepNext
  <2>2. g_live_views[i] \in Addresses /\ UNCHANGED <<m_queue, posted, ran>>
    BY <1>5 DEF ToSweep, IInv, ProgramOK, SweepNext, postVars
  <2>. QED
    BY <1>3, <2>1, <2>2, Entered
<1>6. CASE Shutdown \/ On_Idle \/ \E p \in Plugins : Terminate(p)
  <2>1. UNCHANGED <<m_queue, posted, ran>>
    BY <1>6 DEF Shutdown, On_Idle, Terminate, postVars
  <2>2. PICK f \in Frame : Push(f) /\ f.calls = <<>>
    BY <1>6, Entered DEF Shutdown, On_Idle, Terminate
  <2>. QED
    BY <1>3, <2>1, <2>2
<1>7. CASE \E a \in Addresses : Detach(a) \/ Release(a)
  <2>1. PICK a \in Addresses : Detach(a) \/ Release(a)
    BY <1>7
  <2> DEFINE d == Enter("view_destroy", "unregister", a)
             f == Enter("detach", "drain", a)
  <2>2. /\ UNCHANGED <<m_queue, posted, ran>>
        /\ UNCHANGED frames \/ Push(f) \/ frames' \in {<<d>> \o <<f>>, <<d>> \o <<>>}
    BY <2>1 DEF Detach, Release, postVars
  <2>3. d \in Frame /\ d.calls = <<>> /\ f \in Frame /\ f.calls = <<>>
    BY Entered
  <2> HIDE DEF d, f
  <2>4. CASE UNCHANGED frames
    BY <2>2, <2>4, OnceKept
  <2>5. CASE Push(f)
    BY <1>3, <2>2, <2>3, <2>5
  <2>6. CASE frames' \in {<<d>> \o <<f>>, <<d>> \o <<>>}
    <3>1. \A i \in DOMAIN frames' : frames'[i] \in {d, f}
      <4>1. CASE frames' = <<d>> \o <<f>>
        BY <4>1
      <4>2. CASE frames' = <<d>> \o <<>>
        BY <4>2
      <4>. QED
        BY <2>6, <4>1, <4>2
    <3>. QED
      BY <2>2, <2>3, <3>1, OnceKept
  <2>. QED
    BY <2>2, <2>4, <2>5, <2>6
<1>8. CASE \/ UNCHANGED vars
           \/ \E p \in Plugins, a \in Addresses : View_Create(p, a)
           \/ \E a \in Addresses : Attach(a)
           \/ \E p \in Plugins : PostEvent(p)
  <2>1. UNCHANGED <<frames, m_queue, posted, ran>>
    BY <1>8 DEF vars, postVars, View_Create, Attach, PostEvent
  <2>. QED
    BY <2>1, OnceKept
<1>. QED
  BY <1>1, <1>2, <1>4, <1>5, <1>6, <1>7, <1>8 DEF Next, GuiStep

\* A posted call is run at most once, whatever the host does, although drains
\* nest and each takes the queue.
THEOREM CallsRunOnce == Spec => RunsAtMostOnce
<1> DEFINE Inv == IInv /\ OnceInv
<1>1. Init => Inv
  BY InitInv DEF Init, OnceInv, OnceQueue, Distinct
<1>2. Inv /\ [Next]_vars => Inv'
  BY NextInv, OnceInvNext
<1>3. Inv /\ [Next]_vars => [CallStarts => Starting.id \notin ran]_vars
  <2>. SUFFICES ASSUME Inv, [Next]_vars, CallStarts
                PROVE  Starting.id \notin ran
    OBVIOUS
  <2>1. /\ ~InHostLoop /\ Top \in Frame /\ Top.step = "drain" /\ Top.calls # <<>>
        /\ Top = frames[Len(frames)] /\ Len(frames) \in DOMAIN frames
    BY StartingCall, TopIsFrame DEF IInv, ProgramOK
  <2>2. OnceFrame(Top, posted, ran)
    BY <2>1 DEF OnceInv
  <2>3. 1 \in DOMAIN Top.calls /\ Starting = Top.calls[1]
    BY <2>1 DEF Frame, Starting
  <2>. QED
    BY <2>1, <2>2, <2>3 DEF OnceFrame
<1>4. Spec => []Inv
  BY <1>1, <1>2, PTL DEF Spec
<1>. QED
  BY <1>3, <1>4, PTL DEF Spec, RunsAtMostOnce

-----------------------------------------------------------------------------
(* A call whose view is detached while it waits                            *)

\* Where the gate is open although the view was detached while a call waited, attach()
\* was called since.  Nothing is noted yet of a call that is still to be posted.
SinceInv ==
  /\ SinceOK
  /\ \A k \in 1 .. MaxPosts : k > posted => since[k] = {}
  /\ \A c \in Pending :
       "detached" \in since[c.id] /\ views[c.view].accept => "attached" \in since[c.id]

\* A call that waits is in one place only, and was posted.
LEMMA PendingOnce ==
  ASSUME IInv, OnceInv
  PROVE  /\ \A c \in Pending : c \in Call /\ c.id \in 1 .. posted
         /\ \A c, d \in Pending : c.id = d.id => c = d
<1>1. /\ frames \in Seq(Frame) /\ m_queue \in Seq(Call)
      /\ \A i \in DOMAIN frames : frames[i].calls \in Seq(Call)
  <2>1. frames \in Seq(Frame) /\ m_queue \in Seq(Call)
    BY DEF IInv, ProgramOK
  <2>2. \A f \in Frame : f.calls \in Seq(Call)
    BY DEF Frame
  <2>3. \A i \in DOMAIN frames : frames[i] \in Frame
    BY <2>1
  <2>. QED
    BY <2>1, <2>2, <2>3
\* What waits, by where it waits.
<1>2. ASSUME NEW c \in Pending
      PROVE  \/ \E j \in DOMAIN m_queue : c = m_queue[j]
             \/ \E i \in DOMAIN frames : \E j \in DOMAIN frames[i].calls :
                  c = frames[i].calls[j]
  BY DEF Pending, Elements
<1>3. /\ \A j \in DOMAIN m_queue : m_queue[j] \in Call /\ m_queue[j].id <= posted
      /\ \A i \in DOMAIN frames : \A j \in DOMAIN frames[i].calls :
           frames[i].calls[j] \in Call /\ frames[i].calls[j].id <= posted
  BY <1>1 DEF OnceInv, OnceQueue, OnceFrame
<1>4. \A c \in Pending : c \in Call /\ c.id <= posted
  BY <1>2, <1>3
<1>5. \A c \in Pending : c.id \in 1 .. posted
  <2>1. \A c \in Call : c.id \in 1 .. MaxPosts
    BY DEF Call
  <2>2. posted \in Nat /\ MaxPosts \in Nat
    BY QtConstants DEF IInv, ProgramOK, QtConstants
  <2>. QED
    BY <1>4, <2>1, <2>2
<1>6. ASSUME NEW c \in Pending, NEW d \in Pending, c.id = d.id
      PROVE  c = d
  <2>1. CASE (\E j \in DOMAIN m_queue : c = m_queue[j]) /\ (\E k \in DOMAIN m_queue : d = m_queue[k])
    BY <1>6, <2>1 DEF OnceInv, OnceQueue, Distinct
  <2>2. ASSUME NEW i \in DOMAIN frames, NEW j \in DOMAIN frames[i].calls,
               NEW k \in DOMAIN m_queue,
               \/ c = frames[i].calls[j] /\ d = m_queue[k]
               \/ d = frames[i].calls[j] /\ c = m_queue[k]
        PROVE  FALSE
    BY <1>6, <2>2 DEF OnceInv, Apart
  <2>3. ASSUME NEW i \in DOMAIN frames, NEW j \in DOMAIN frames[i].calls,
               NEW h \in DOMAIN frames, NEW k \in DOMAIN frames[h].calls,
               c = frames[i].calls[j], d = frames[h].calls[k]
        PROVE  c = d
    <3>1. CASE i # h
      BY <1>6, <2>3, <3>1 DEF OnceInv, Apart
    <3>2. CASE i = h
      BY <1>6, <2>3, <3>2 DEF OnceInv, OnceFrame, Distinct
    <3>. QED
      BY <3>1, <3>2
  <2>. QED
    BY <1>2, <2>1, <2>2, <2>3
<1>. QED
  BY <1>4, <1>5, <1>6

\* A step that notes nothing and opens no gate.
LEMMA SinceKept ==
  ASSUME SinceInv, UNCHANGED <<since, posted>>, Pending' \subseteq Pending,
         \A c \in Pending : views'[c.view].accept => views[c.view].accept
  PROVE  SinceInv'
  BY DEF SinceInv, SinceOK

LEMMA SinceForgotten ==
  ASSUME SinceInv, NEW call \in Call, Forget(call), UNCHANGED <<views, posted>>,
         Pending' \subseteq Pending, \A c \in Pending : c \in Call
  PROVE  SinceInv'
<1>1. /\ since \in [1 .. MaxPosts -> SUBSET Event] /\ call.id \in 1 .. MaxPosts
      /\ since' = [since EXCEPT ![call.id] = {}]
  BY DEF SinceInv, SinceOK, Forget, Call
<1>2. /\ since' \in [1 .. MaxPosts -> SUBSET Event]
      /\ \A k \in 1 .. MaxPosts : since'[k] = IF k = call.id THEN {} ELSE since[k]
  BY <1>1
<1>3. \A c \in Pending' : c.id \in 1 .. MaxPosts /\ c \in Pending
  BY DEF Call
<1>4. \A c \in Pending' :
        "detached" \in since'[c.id] /\ views'[c.view].accept => "attached" \in since'[c.id]
  BY <1>2, <1>3 DEF SinceInv
<1>5. \A k \in 1 .. MaxPosts : k > posted' => since'[k] = {}
  BY <1>2 DEF SinceInv
<1>. QED
  BY <1>2, <1>4, <1>5 DEF SinceInv, SinceOK

\* What a note adds to the calls on a view, and that the others are left alone.
LEMMA Noted ==
  ASSUME IInv, OnceInv, SinceInv, NEW a \in Addresses, NEW add, NEW drop, Note(a, add, drop)
  PROVE  /\ \A k \in 1 .. MaxPosts : k > posted => since'[k] = {}
         /\ \A c \in Pending :
              since'[c.id] = IF c.view = a THEN (since[c.id] \ drop) \cup add ELSE since[c.id]
<1>1. \A k \in 1 .. MaxPosts :
        since'[k] = IF Waits(k, a) THEN (since[k] \ drop) \cup add ELSE since[k]
  BY DEF Note
<1>2. posted \in Nat /\ MaxPosts \in Nat /\ posted <= MaxPosts
  BY QtConstants DEF IInv, ProgramOK, QtConstants
<1>3. ASSUME NEW k \in 1 .. MaxPosts, k > posted
      PROVE  since'[k] = {}
  <2>1. ~Waits(k, a)
    BY <1>2, <1>3, PendingOnce DEF Waits
  <2>. QED
    BY <1>1, <1>3, <2>1 DEF SinceInv
<1>4. ASSUME NEW c \in Pending
      PROVE  since'[c.id] = IF c.view = a THEN (since[c.id] \ drop) \cup add ELSE since[c.id]
  <2>1. c.id \in 1 .. MaxPosts
    BY PendingOnce, <1>2
  <2>2. Waits(c.id, a) <=> c.view = a
    BY PendingOnce DEF Waits
  <2>. QED
    BY <1>1, <2>1, <2>2
<1>. QED
  BY <1>3, <1>4

LEMMA SinceInvNext ==
  ASSUME IInv, OnceInv, SinceInv, [Next]_vars
  PROVE  SinceInv'
<1>0. /\ SinceOK' /\ views \in [Addresses -> View]
      /\ \A c \in Pending : c \in Call /\ c.view \in Addresses
  <2>1. SinceOK'
    BY StepNotes, SinceOKNext DEF SinceInv
  <2>2. \A c \in Call : c.view \in Addresses
    BY DEF Call
  <2>. QED
    BY <2>1, <2>2, PendingOnce DEF IInv, ProgramOK
<1>1. CASE \E p \in Plugins : Post(p)
  <2>1. PICK p \in Plugins : Post(p)
    BY <1>1
  <2> DEFINE call == [id |-> posted + 1, by |-> p, view |-> weak[p]]
  <2>2. /\ m_queue' = Append(m_queue, call) /\ frames' = frames /\ since' = since
        /\ views' = views /\ posted' = posted + 1 /\ weak[p] \in Addresses
        /\ posted \in Nat /\ posted + 1 \in 1 .. MaxPosts /\ m_queue \in Seq(Call)
    BY <2>1, QtConstants DEF Post, IInv, ProgramOK, QtConstants, viewVars
  <2>3. call \in Call /\ call.id = posted + 1
    BY <2>2 DEF Call
  <2> HIDE DEF call
  <2>4. Elements(m_queue') = Elements(m_queue) \cup {call}
    BY <2>2, <2>3, ElementsAppended
  <2>5. /\ Pending' = Elements(m_queue') \cup UNION {Elements(frames'[i].calls) : i \in DOMAIN frames'}
        /\ Pending = Elements(m_queue) \cup UNION {Elements(frames[i].calls) : i \in DOMAIN frames}
    BY DEF Pending, Elements
  <2>6. Pending' = Pending \cup {call}
    BY <2>2, <2>4, <2>5
  <2>7. since[call.id] = {}
    BY <2>2, <2>3 DEF SinceInv
  <2>8. \A c \in Pending' :
          "detached" \in since'[c.id] /\ views'[c.view].accept => "attached" \in since'[c.id]
    BY <2>2, <2>6, <2>7 DEF SinceInv
  <2>9. \A k \in 1 .. MaxPosts : k > posted' => since'[k] = {}
    BY <2>2 DEF SinceInv
  <2>. QED
    BY <1>0, <2>8, <2>9 DEF SinceInv
\* The other steps take calls away only.
<1>2. CASE ~ \E p \in Plugins : Post(p)
  <2>1. Pending' \subseteq Pending
    BY <1>2, PendingMoves
  <2>2. ASSUME NEW a \in Addresses,
               (NoteDetached(a) /\ ~views'[a].accept) \/ NoteAttached(a),
               \A b \in Addresses : b # a => views'[b] = views[b], posted' = posted
        PROVE  SinceInv'
    <3>1. ASSUME NEW c \in Pending, "detached" \in since'[c.id], views'[c.view].accept
          PROVE  "attached" \in since'[c.id]
      <4>1. CASE NoteAttached(a)
        <5>1. since'[c.id] = IF c.view = a THEN (since[c.id] \ {}) \cup {"attached"}
                                           ELSE since[c.id]
          BY <4>1, Noted DEF NoteAttached
        <5>2. CASE c.view = a
          BY <5>1, <5>2
        <5>3. CASE c.view # a
          BY <1>0, <2>2, <3>1, <5>1, <5>3 DEF SinceInv
        <5>. QED
          BY <5>2, <5>3
      <4>2. CASE NoteDetached(a) /\ ~views'[a].accept
        <5>1. since'[c.id] = IF c.view = a THEN (since[c.id] \ {"attached"}) \cup {"detached"}
                                           ELSE since[c.id]
          BY <4>2, Noted DEF NoteDetached
        <5>2. c.view # a
          BY <3>1, <4>2
        <5>. QED
          BY <1>0, <2>2, <3>1, <5>1, <5>2 DEF SinceInv
      <4>. QED
        BY <2>2, <4>1, <4>2
    <3>2. \A k \in 1 .. MaxPosts : k > posted => since'[k] = {}
      BY <2>2, Noted DEF NoteAttached, NoteDetached
    <3>. QED
      BY <1>0, <2>1, <2>2, <3>1, <3>2 DEF SinceInv
  <2>3. ASSUME NEW a \in Addresses, BeginDetach(a), posted' = posted
        PROVE  SinceInv'
    <3>1. ~views'[a].accept /\ \A b \in Addresses : b # a => views'[b] = views[b]
      BY <2>3, BeganDetach
    <3>. QED
      BY <2>2, <2>3, <3>1 DEF BeginDetach
  <2>4. CASE \E a \in Addresses : Detach(a) \/ Release(a)
    BY <2>3, <2>4 DEF Detach, Release, postVars
  <2>5. CASE SweepNext
    <3>1. PICK i \in ToSweep : BeginDetach(g_live_views[i])
      BY <2>5 DEF SweepNext
    <3>2. g_live_views[i] \in Addresses /\ posted' = posted
      BY <2>5 DEF ToSweep, IInv, ProgramOK, SweepNext, postVars
    <3>. QED
      BY <2>3, <3>1, <3>2
  <2>6. CASE \E a \in Addresses : Attach(a)
    <3>1. PICK a \in Addresses : Attach(a)
      BY <2>6
    <3>2. /\ NoteAttached(a) /\ posted' = posted
          /\ \A b \in Addresses : b # a => views'[b] = views[b]
      BY <1>0, <3>1 DEF Attach, postVars
    <3>. QED
      BY <2>2, <3>2
  <2>7. CASE Unregister
    <3> DEFINE a == Top.on  v == [views[a] EXCEPT !.state = "freed"]
    <3>1. /\ ~InHostLoop /\ Top.step = "unregister" /\ views' = [views EXCEPT ![a] = v]
          /\ NoteDestroyed(a) /\ posted' = posted
      BY <2>7 DEF Unregister, At, postVars
    <3>2. a \in Addresses
      BY <3>1, TopIsFrame DEF IInv, StackShape, FrameShape, ProgramOK, Frame
    <3>3. v.accept = views[a].accept
      BY <1>0, <3>2 DEF View
    <3> HIDE DEF v, a
    <3>4. \A b \in Addresses : views'[b].accept = views[b].accept
      BY <1>0, <3>1, <3>2, <3>3
    <3>5. \A c \in Pending : since'[c.id] = IF c.view = a THEN (since[c.id] \ {}) \cup {"destroyed"}
                                                          ELSE since[c.id]
      BY <3>1, <3>2, Noted DEF NoteDestroyed
    <3>6. \A k \in 1 .. MaxPosts : k > posted => since'[k] = {}
      BY <3>1, <3>2, Noted DEF NoteDestroyed
    <3>7. \A c \in Pending :
            "detached" \in since'[c.id] /\ views'[c.view].accept => "attached" \in since'[c.id]
      <4>1. \A s : /\ "detached" \in (s \ {}) \cup {"destroyed"} => "detached" \in s
                   /\ "attached" \in s => "attached" \in (s \ {}) \cup {"destroyed"}
        OBVIOUS
      <4>2. \A c \in Pending : /\ "detached" \in since'[c.id] => "detached" \in since[c.id]
                               /\ "attached" \in since[c.id] => "attached" \in since'[c.id]
        BY <3>5, <4>1
      <4>. QED
        BY <1>0, <3>4, <4>2 DEF SinceInv
    <3>. QED
      BY <1>0, <2>1, <3>1, <3>6, <3>7 DEF SinceInv
  <2>8. CASE RunCall \/ CallReturns
    <3>1. since' = since \/ Forget(Head(Top.calls))
      BY <2>8 DEF RunCall, CallReturns
    <3>2. /\ UNCHANGED <<viewVars, posted>> /\ Top \in Frame /\ ~InHostLoop
      BY <2>8, TopSteps
    <3>3. FrameShape(Top) /\ Top.calls # <<>>
      BY <2>8, <3>2, TopIsFrame DEF RunCall, CallReturns, At, InCallback, IInv, StackShape,
                                    FrameShape, ProgramOK
    <3>4. Head(Top.calls) \in Call
      BY <3>2, <3>3 DEF Frame
    <3>. QED
      BY <1>0, <2>1, <3>1, <3>2, <3>4, SinceKept, SinceForgotten DEF viewVars
  <2>9. CASE EndDrain
    <3>1. CASE UNCHANGED views
      BY <2>1, <2>9, <3>1, SinceKept DEF EndDrain, postVars
    <3>2. CASE Top.op = "detach" /\ views' = [views EXCEPT ![Top.on] = GivenBack(@)]
      <4> DEFINE a == Top.on  v == GivenBack(views[a])
      <4>1. ~InHostLoop /\ FrameShape(Top) /\ Len(frames) \in DOMAIN frames /\ Top = frames[Len(frames)]
        BY <2>9, TopIsFrame DEF EndDrain, At, IInv, StackShape, ProgramOK
      <4>2. a \in Addresses /\ BeingDetached(a)
        BY <3>2, <4>1 DEF FrameShape, BeingDetached
      <4>3. views[a] \in View /\ views[a].retained = 1
        BY <1>0, <4>2 DEF IInv, RetainInv
      <4>4. v.accept = views[a].accept /\ views' = [views EXCEPT ![a] = v]
        BY <3>2, <4>3, GivenBackView
      <4> HIDE DEF v, a
      <4>5. \A b \in Addresses : views'[b].accept = views[b].accept
        BY <1>0, <4>2, <4>4
      <4>. QED
        BY <1>0, <2>1, <2>9, <4>5, SinceKept DEF EndDrain, postVars
    <3>. QED
      BY <2>9, <3>1, <3>2 DEF EndDrain
  <2>10. CASE \E p \in Plugins, a \in Addresses : View_Create(p, a)
    <3>1. PICK p \in Plugins, a \in Addresses : View_Create(p, a)
      BY <2>10
    <3> DEFINE v == [state |-> "alive", owner |-> p, attached |-> FALSE, accept |-> FALSE,
                     retained |-> 0]
    <3>2. ~v.accept /\ views' = [views EXCEPT ![a] = v] /\ UNCHANGED <<since, posted>>
      BY <3>1 DEF View_Create, postVars
    <3> HIDE DEF v
    <3>3. \A b \in Addresses : views'[b].accept => views[b].accept
      BY <1>0, <3>2
    <3>. QED
      BY <1>0, <2>1, <3>2, <3>3, SinceKept
  <2>11. CASE \/ UNCHANGED vars \/ Shutdown \/ On_Idle
              \/ \E p \in Plugins : Terminate(p) \/ PostEvent(p)
              \/ DeleteApp \/ EndSweep \/ HandleEvent
    <3>1. UNCHANGED <<views, since, posted>>
      BY <2>11 DEF vars, Shutdown, On_Idle, Terminate, PostEvent, viewVars, postVars,
                   DeleteApp, EndSweep, HandleEvent
    <3>. QED
      BY <2>1, <3>1, SinceKept
  <2>. QED
    BY <1>2, <2>4, <2>5, <2>6, <2>7, <2>8, <2>9, <2>10, <2>11 DEF Next, GuiStep
<1>. QED
  BY <1>1, <1>2

\* A call whose view is detached while it waits is not run before attach() opens the
\* gate at the view's address again: whatever the factories and the allocator do, and
\* wherever the call is by then, in the queue or in a handler that took it.
THEOREM DetachedCallsDropped == Spec => DroppedWhileDetached
<1> DEFINE Inv == IInv /\ OnceInv /\ SinceInv
           Reopened == "attached" \in since[Starting.id]
<1>1. Init => Inv
  <2>. SUFFICES ASSUME Init PROVE Inv
    OBVIOUS
  <2>1. Pending = {}
    BY DEF Init, Pending, Elements
  <2>2. OnceInv
    BY DEF Init, OnceInv, OnceQueue, Distinct
  <2>3. SinceInv
    BY <2>1 DEF Init, SinceInv, SinceOK
  <2>. QED
    BY <2>2, <2>3, InitInv
<1>2. Inv /\ [Next]_vars => Inv'
  BY NextInv, OnceInvNext, SinceInvNext
<1>3. Inv /\ [Next]_vars =>
        [CallStarts /\ "detached" \in since[Starting.id] => Reopened]_vars
  <2>. SUFFICES ASSUME Inv, [Next]_vars, CallStarts, "detached" \in since[Starting.id]
                PROVE  Reopened
    OBVIOUS
  <2>1. Starting \in Pending /\ views[Starting.view].accept
    BY StartingCall DEF PostTargetAlive
  <2>. QED
    BY <2>1 DEF SinceInv
<1>4. Spec => []Inv
  BY <1>1, <1>2, PTL DEF Spec
<1>. QED
  BY <1>3, <1>4, PTL DEF Spec, DroppedWhileDetached

=============================================================================
