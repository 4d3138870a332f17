------------------------------- MODULE QtView -------------------------------
(***************************************************************************)
(* The Qt adapter (adapters/qt/pi_qt_view.cpp): views shared by all the Qt *)
(* plugins of a process, their single QApplication, and the queue through  *)
(* which a plugin's worker threads post calls to the host's GUI thread.    *)
(*                                                                         *)
(* All of Qt runs on the GUI thread.  Its stack is `frames`, innermost     *)
(* last: draining Qt's events inside one operation runs posted calls, and  *)
(* a posted call may make the host detach another view, which drains       *)
(* again.  A worker's post is two steps, the append to the queue and the   *)
(* event that wakes the GUI thread.  A view is named by its address, which *)
(* the allocator may give to a later view.                                 *)
(***************************************************************************)
EXTENDS Integers, Sequences, FiniteSets

CONSTANTS
  Addresses,          \* where views are allocated
  Plugins,            \* the plugin instances: owners (user_data) of views
  NoView,             \* a plugin that has not created a view yet
  ReuseAddresses,     \* whether the allocator reuses a freed view's address
  FactoryMayFail,     \* whether create_widget may return NULL
  DetachesFirst,      \* whether the host detaches and releases a plugin's
                      \* views before it terminates the plugin
  UsesShutdown,       \* whether the host calls shutdown() as a last resort
  CallbacksDetach,    \* whether a posted call may make the host detach a view
  MaxDepth,           \* bound on nested operations
  MaxPosts            \* bound on posted calls

ASSUME QtConstants ==
  /\ NoView \notin Addresses
  /\ ReuseAddresses \in BOOLEAN
  /\ FactoryMayFail \in BOOLEAN
  /\ DetachesFirst \in BOOLEAN
  /\ UsesShutdown \in BOOLEAN
  /\ CallbacksDetach \in BOOLEAN
  /\ MaxDepth \in Nat \ {0}
  /\ MaxPosts \in Nat

VARIABLES
  views,              \* the view objects
  g_live_views,       \* the registry: addresses in the order of creation
  g_app,              \* whether the QApplication exists
  g_app_shutdown,     \* set when the QApplication is torn down
  g_post_marshaller,  \* whether the marshaller exists
  m_queue,            \* posted calls
  events,             \* wake-up events Qt has yet to deliver to the marshaller
  frames,             \* the GUI thread's stack of operations
  weak,               \* each plugin's pointer to its newest view, never cleared
  posting,            \* plugins whose worker has queued a call, no event yet
  terminated,         \* plugins whose terminate() was called
  posted,             \* how many calls were posted
  ran,                \* history: calls that were run
  since               \* history: what was done since a call was posted, until
                      \* it is run or dropped, with the view it was posted on

viewVars == <<views, g_live_views, weak>>
appVars  == <<g_app, g_app_shutdown, g_post_marshaller>>
postVars == <<m_queue, events, posting, posted>>
vars == <<viewVars, appVars, postVars, frames, terminated, ran, since>>

\* attached  it has a widget in the host's window
\* accept    m_accept_post
\* retained  how often the kit holds user_data
View ==
  [state : {"unused", "alive", "freed"}, owner : Plugins \cup {NoView},
   attached : BOOLEAN, accept : BOOLEAN, retained : Nat]

Call == [id : 1 .. MaxPosts, by : Plugins, view : Addresses]

\* calls  what the event handler of this drain has taken and not finished
Frame ==
  [op : {"on_idle", "detach", "view_destroy", "shutdown_owner", "shutdown"},
   step : {"sweep", "unregister", "drain", "call", "delete"},
   on : Addresses \cup Plugins \cup {NoView}, calls : Seq(Call)]

\* attached   attach() was called at the view's address
\* detached   the view was detached; an attach() since then is noted anew
\* destroyed  the view was freed; what is at its address now is another one
Event == {"attached", "detached", "destroyed"}

ProgramOK ==
  /\ views \in [Addresses -> View]
  /\ g_live_views \in Seq(Addresses)
  /\ g_app \in BOOLEAN
  /\ g_app_shutdown \in BOOLEAN
  /\ g_post_marshaller \in BOOLEAN
  /\ m_queue \in Seq(Call)
  /\ events \in Nat
  /\ frames \in Seq(Frame)
  /\ weak \in [Plugins -> Addresses \cup {NoView}]
  /\ posting \subseteq Plugins
  /\ terminated \subseteq Plugins
  /\ posted \in 0 .. MaxPosts
  /\ ran \subseteq 1 .. MaxPosts

TypeOK == ProgramOK /\ since \in [1 .. MaxPosts -> SUBSET Event]

Init ==
  /\ views = [a \in Addresses |->
       [state |-> "unused", owner |-> NoView, attached |-> FALSE,
        accept |-> FALSE, retained |-> 0]]
  /\ g_live_views = <<>>
  /\ g_app = FALSE
  /\ g_app_shutdown = FALSE
  /\ g_post_marshaller = FALSE
  /\ m_queue = <<>>
  /\ events = 0
  /\ frames = <<>>
  /\ weak = [p \in Plugins |-> NoView]
  /\ posting = {}
  /\ terminated = {}
  /\ posted = 0
  /\ ran = {}
  /\ since = [k \in 1 .. MaxPosts |-> {}]

-----------------------------------------------------------------------------
(* The GUI thread                                                          *)

Top == frames[Len(frames)]
InHostLoop == frames = <<>>
InCallback == ~InHostLoop /\ Top.step = "call"
At(step) == ~InHostLoop /\ Top.step = step

Enter(op, step, on) == [op |-> op, step |-> step, on |-> on, calls |-> <<>>]
Push(frame) == frames' = Append(frames, frame)
SetTop(frame) == frames' = [frames EXCEPT ![Len(frames)] = frame]
GoOn(step) == SetTop([Top EXCEPT !.step = step])
Return == frames' = SubSeq(frames, 1, Len(frames) - 1)

\* A sweep holds g_views_mutex, which is not recursive, from its first look at
\* the registry to its last.
ViewsLocked == \E i \in DOMAIN frames : frames[i].step = "sweep"

Elements(s) == {s[i] : i \in DOMAIN s}

\* Calls that were posted and neither run nor dropped.
Pending ==
  Elements(m_queue) \cup UNION {Elements(frames[i].calls) : i \in DOMAIN frames}

\* What becomes of view a is noted for the calls that wait for it.
Waits(k, a) == \E c \in Pending : c.id = k /\ c.view = a
Note(a, add, drop) ==
  since' = [k \in 1 .. MaxPosts |->
              IF Waits(k, a) THEN (since[k] \ drop) \cup add ELSE since[k]]
NoteAttached(a) == Note(a, {"attached"}, {})
NoteDetached(a) == Note(a, {"detached"}, {"attached"})
NoteDestroyed(a) == Note(a, {"destroyed"}, {})

\* Nothing is noted of a call that is over.
Forget(call) == since' = [since EXCEPT ![call.id] = {}]

-----------------------------------------------------------------------------
(* Views                                                                   *)

View_Create(p, a) ==
  /\ InHostLoop
  /\ p \notin terminated
  /\ views[a].state = "unused" \/ (ReuseAddresses /\ views[a].state = "freed")
  /\ views' = [views EXCEPT ![a] =
       [state |-> "alive", owner |-> p, attached |-> FALSE, accept |-> FALSE,
        retained |-> 0]]
  /\ g_live_views' = Append(g_live_views, a)
  /\ weak' = [weak EXCEPT ![p] = a]
  /\ UNCHANGED <<appVars, postVars, frames, terminated, ran, since>>

\* The view with a widget in the host's window; and the view whose factory
\* failed, with user_data retained and released.
Embedded(view) ==
  [view EXCEPT !.attached = TRUE, !.accept = TRUE, !.retained = @ + 1]
AbandonedRetained(view) ==
  [view EXCEPT !.accept = TRUE, !.retained = @ + 1]
Abandoned(view) == [view EXCEPT !.accept = TRUE]

\* The application exists, or the kit was never shut down and creates it,
\* together with the marshaller.
AppCreate ==
  /\ g_app \/ ~g_app_shutdown
  /\ g_app' = TRUE
  /\ g_post_marshaller' = TRUE
  /\ UNCHANGED g_app_shutdown

Attach(a) ==
  /\ InHostLoop
  /\ views[a].state = "alive"
  /\ views[a].owner \notin terminated
  /\ ~views[a].attached
  /\ AppCreate
  /\ \/ views' = [views EXCEPT ![a] = Embedded(@)]
     \/ FactoryMayFail /\ views' = [views EXCEPT ![a] = Abandoned(@)]
  /\ NoteAttached(a)
  /\ UNCHANGED <<g_live_views, weak, postVars, frames, terminated, ran>>

\* The gate for posted calls closes before the widget is destroyed.
GateLeftOpen(view) == [view EXCEPT !.attached = FALSE]
Detached(view) == [view EXCEPT !.attached = FALSE, !.accept = FALSE]

\* What detach() of view a does up to the drain that follows the widget's end.
BeginDetach(a) ==
  /\ views' = [views EXCEPT ![a] = Detached(@)]
  /\ NoteDetached(a)

InDestruction(a) ==
  \E i \in DOMAIN frames : frames[i].op = "view_destroy" /\ frames[i].on = a

\* Without a widget detach() only closes the gate.
Detach(a) ==
  /\ InHostLoop \/ (CallbacksDetach /\ InCallback)
  /\ views[a].state = "alive"
  /\ ~InDestruction(a)
  /\ BeginDetach(a)
  /\ \/ /\ views[a].attached
        /\ Len(frames) < MaxDepth
        /\ Push(Enter("detach", "drain", a))
     \/ /\ ~views[a].attached
        /\ views[a].accept
        /\ UNCHANGED frames
  /\ UNCHANGED <<g_live_views, weak, appVars, postVars, terminated, ran>>

\* user_data is given back once the widget is gone.
GivenBack(view) == [view EXCEPT !.retained = @ - 1]

\* The host drops the last reference: a view still attached is detached first.
Release(a) ==
  /\ InHostLoop
  /\ views[a].state = "alive"
  /\ BeginDetach(a)
  /\ frames' = <<Enter("view_destroy", "unregister", a)>> \o
                 (IF views[a].attached
                    THEN <<Enter("detach", "drain", a)>> ELSE <<>>)
  /\ UNCHANGED <<g_live_views, weak, appVars, postVars, terminated, ran>>

\* Each view is registered once; the entries after it close up.
Unlisted(s, a) ==
  [i \in 1 .. Len(s) - 1 |-> IF \E j \in 1 .. i : s[j] = a THEN s[i + 1] ELSE s[i]]

\* Whether no view is left once a is unregistered.
AnyView(a) == TRUE
NoneRegistered(a) == g_live_views = <<>>
LastView(a) == \A b \in Elements(g_live_views) : b = a

\* The view leaves the registry and is freed; the last one takes the
\* application with it.
Unregister ==
  /\ At("unregister")
  /\ LET a == Top.on
     IN  /\ g_live_views' = Unlisted(g_live_views, a)
         /\ views' = [views EXCEPT ![a].state = "freed"]
         /\ \/ /\ LastView(a) /\ g_app
               /\ g_app_shutdown' = TRUE
               /\ GoOn("drain")
            \/ /\ ~(LastView(a) /\ g_app)
               /\ Return
               /\ UNCHANGED g_app_shutdown
         /\ NoteDestroyed(a)
  /\ UNCHANGED <<weak, g_app, g_post_marshaller, postVars, terminated, ran>>

\* Qt drops the events nobody received with the application.
DeleteApp ==
  /\ At("delete")
  /\ g_app' = FALSE
  /\ events' = 0
  /\ Return
  /\ UNCHANGED <<viewVars, g_app_shutdown, g_post_marshaller, m_queue, posting,
                 posted, terminated, ran, since>>

-----------------------------------------------------------------------------
(* shutdown_owner(), called by a plugin's terminate(), and shutdown()      *)

\* terminate() joins the plugin's worker first.
Terminate(p) ==
  /\ InHostLoop
  /\ p \notin terminated
  /\ p \notin posting
  /\ DetachesFirst =>
       \A a \in Addresses : views[a].state = "alive" => views[a].owner # p
  /\ terminated' = terminated \cup {p}
  /\ Push(Enter("shutdown_owner", "sweep", p))
  /\ UNCHANGED <<viewVars, appVars, postVars, ran, since>>

Shutdown ==
  /\ UsesShutdown
  /\ InHostLoop
  /\ g_app
  /\ DetachesFirst => \A a \in Addresses : ~views[a].attached
  /\ Push(Enter("shutdown", "sweep", NoView))
  /\ UNCHANGED <<viewVars, appVars, postVars, terminated, ran, since>>

Sweeps(a) == Top.op = "shutdown" \/ views[a].owner = Top.on

ToSweep == {i \in DOMAIN g_live_views :
              Sweeps(g_live_views[i]) /\ views[g_live_views[i]].attached}

SweepNext ==
  /\ At("sweep")
  /\ \E i \in ToSweep :
       /\ \A j \in ToSweep : i <= j
       /\ BeginDetach(g_live_views[i])
       /\ Push(Enter("detach", "drain", g_live_views[i]))
  /\ UNCHANGED <<g_live_views, weak, appVars, postVars, terminated, ran>>

\* shutdown() goes on to the application, shutdown_owner() leaves it alone.
EndSweep ==
  /\ At("sweep")
  /\ ToSweep = {}
  /\ \/ /\ Top.op = "shutdown_owner"
        /\ Return
        /\ UNCHANGED g_app_shutdown
     \/ /\ Top.op = "shutdown"
        /\ g_app_shutdown' = TRUE
        /\ GoOn("drain")
  /\ UNCHANGED <<viewVars, g_app, g_post_marshaller, postVars, terminated, ran, since>>

-----------------------------------------------------------------------------
(* Draining Qt's events                                                    *)

On_Idle ==
  /\ InHostLoop
  /\ g_app
  /\ Push(Enter("on_idle", "drain", NoView))
  /\ UNCHANGED <<viewVars, appVars, postVars, terminated, ran, since>>

\* The handler of a wake-up takes the whole queue.
QueueKept == m_queue
QueueLeft == <<>>

HandleEvent ==
  /\ At("drain")
  /\ Top.calls = <<>>
  /\ events > 0
  /\ events' = events - 1
  /\ SetTop([Top EXCEPT !.calls = m_queue])
  /\ m_queue' = QueueLeft
  /\ UNCHANGED <<viewVars, appVars, posting, posted, terminated, ran, since>>

\* The view is registered and accepts posted calls.
Unchecked(a) == TRUE
PostTargetAlive(a) == a \in Elements(g_live_views) /\ views[a].accept

\* Each taken call is checked just before its turn, under g_views_mutex.
RunCall ==
  /\ At("drain")
  /\ Top.calls # <<>>
  /\ ~ViewsLocked
  /\ LET call == Head(Top.calls)
     IN  \/ /\ PostTargetAlive(call.view)
            /\ GoOn("call")
            /\ ran' = ran \cup {call.id}
            /\ UNCHANGED since
         \/ /\ ~PostTargetAlive(call.view)
            /\ SetTop([Top EXCEPT !.calls = Tail(@)])
            /\ Forget(call)
            /\ UNCHANGED ran
  /\ UNCHANGED <<viewVars, appVars, postVars, terminated>>

CallReturns ==
  /\ InCallback
  /\ SetTop([Top EXCEPT !.step = "drain", !.calls = Tail(@)])
  /\ Forget(Head(Top.calls))
  /\ UNCHANGED <<viewVars, appVars, postVars, terminated, ran>>

\* Nothing is left to deliver: the operation that drained goes on.
EndDrain ==
  /\ At("drain")
  /\ Top.calls = <<>>
  /\ events = 0
  /\ \/ /\ Top.op = "on_idle"
        /\ Return
        /\ UNCHANGED views
     \/ /\ Top.op = "detach"
        /\ views' = [views EXCEPT ![Top.on] = GivenBack(@)]
        /\ Return
     \/ /\ Top.op \in {"view_destroy", "shutdown"}
        /\ GoOn("delete")
        /\ UNCHANGED views
  /\ UNCHANGED <<g_live_views, weak, appVars, postVars, terminated, ran, since>>

-----------------------------------------------------------------------------
(* view_post() from a plugin's worker                                      *)

\* The worker's pointer may be to a view that is gone: it is only compared.
Post(p) ==
  /\ weak[p] # NoView
  /\ p \notin terminated
  /\ p \notin posting
  /\ g_post_marshaller
  /\ posted < MaxPosts
  /\ m_queue' = Append(m_queue, [id |-> posted + 1, by |-> p, view |-> weak[p]])
  /\ posted' = posted + 1
  /\ posting' = posting \cup {p}
  /\ UNCHANGED <<viewVars, appVars, events, frames, terminated, ran, since>>

\* Without an application nobody would receive the event.
NoWakeUp == events
WakeUp == IF g_app THEN events + 1 ELSE events

PostEvent(p) ==
  /\ p \in posting
  /\ events' = WakeUp
  /\ posting' = posting \ {p}
  /\ UNCHANGED <<viewVars, appVars, m_queue, posted, frames, terminated, ran, since>>

-----------------------------------------------------------------------------
GuiStep ==
  \/ Unregister
  \/ DeleteApp
  \/ SweepNext
  \/ EndSweep
  \/ HandleEvent
  \/ RunCall
  \/ CallReturns
  \/ EndDrain

Next ==
  \/ GuiStep
  \/ \E p \in Plugins, a \in Addresses : View_Create(p, a)
  \/ \E a \in Addresses : Attach(a)
  \/ \E a \in Addresses : Detach(a)
  \/ \E a \in Addresses : Release(a)
  \/ \E p \in Plugins : Terminate(p)
  \/ Shutdown
  \/ On_Idle
  \/ \E p \in Plugins : Post(p)
  \/ \E p \in Plugins : PostEvent(p)

Spec == Init /\ [][Next]_vars

\* The host calls on_idle once per frame, operations go on, and workers are
\* not stopped in the middle of a post.
FairSpec ==
  /\ Spec
  /\ WF_vars(GuiStep)
  /\ SF_vars(On_Idle)
  /\ \A p \in Plugins : WF_vars(PostEvent(p))

-----------------------------------------------------------------------------
(* Properties                                                              *)

\* A posted call starts.
CallStarts == ~InHostLoop /\ Top.step = "drain" /\ frames' # frames
                /\ Len(frames') = Len(frames) /\ Top'.step = "call"
Starting == Head(Top.calls)

\* A call that waits while its view is detached is not run until an attach() opens
\* the gate at that address again, whatever the factory does and whichever view is
\* there by then: taken from the queue before the detach, behind a call that makes
\* the host detach, or woken in a drain of the detach itself.
DroppedWhileDetached ==
  [][CallStarts /\ "detached" \in since[Starting.id]
       => "attached" \in since[Starting.id]]_vars

\* A posted call is run at most once, although nested drains take the queue.
RunsAtMostOnce == [][CallStarts => Starting.id \notin ran]_vars

\* No posted call of a plugin starts once the plugin's terminate() was called: what
\* the call uses is gone, and soon its code.  The one call that does is let through by
\* another plugin's view, which has the address of the one it was posted on.
NoCallAfterTerminate ==
  [][CallStarts => \/ Starting.by \notin terminated
                   \/ views[Starting.view].owner # Starting.by]_vars

\* The header on the queue: "a call that has not run yet is dropped when the view is
\* detached"; the code drops it only if it comes up before the next attach().
\* (The code does not keep it: README.md, section 3.)
DroppedByDetach ==
  [][CallStarts => "detached" \notin since[Starting.id]]_vars

\* "... or destroyed": the code looks for the view's address on the registry, where a
\* new view may be.
\* (The code does not keep it: README.md, section 3.)
DroppedByDestruction ==
  [][CallStarts => "destroyed" \notin since[Starting.id]]_vars

\* "The plugin must not be called back after its widget is gone": a call whose view
\* was detached starts only if the view has a widget again; the code leaves the gate
\* open when create_widget fails.
\* (The code does not keep it: README.md, section 3.)
NotWithoutWidget ==
  [][CallStarts => \/ "detached" \notin since[Starting.id]
                   \/ views[Starting.view].attached]_vars

BeingDetached(a) ==
  \E i \in DOMAIN frames : frames[i].op = "detach" /\ frames[i].on = a

\* The plugin is held exactly while its view has a widget or is losing it: every
\* retain is matched by one release, after a failed attach too.
RetainBalanced ==
  /\ TypeOK
  /\ \A a \in Addresses :
       views[a].retained = IF views[a].attached \/ BeingDetached(a) THEN 1 ELSE 0

\* A view of any plugin has an application as long as it has a widget.
AppWhileAttached == \A a \in Addresses : views[a].attached => g_app

\* "When release returns, the widget and the QApplication are gone", with the
\* last view of the process, whichever plugin it belonged to.
AppGoesWithLastView == InHostLoop /\ g_live_views = <<>> => ~g_app

\* The GUI thread never waits for the mutex it holds: no call comes up for
\* its check while a sweep is detaching.
GuiNeverBlocks == ~(At("drain") /\ Top.calls # <<>> /\ ViewsLocked)

\* A posted call is run or dropped, as long as the application exists.
PostedCallServed ==
  \A k \in 1 .. MaxPosts :
    (\E c \in Pending : c.id = k) /\ g_app
      ~> (~ \E c \in Pending : c.id = k) \/ ~g_app

=============================================================================
