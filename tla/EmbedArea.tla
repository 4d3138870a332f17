------------------------------ MODULE EmbedArea ------------------------------
(***************************************************************************)
(* A Qt embedding area (host_kits/qt/pi_host_embed_area.cpp) in a host     *)
(* that keeps its plugins in a session.  The area remembers a session and  *)
(* a slot, not a view: it asks the session for the slot's view whenever it *)
(* forwards a resize or an idle call.                                      *)
(*                                                                         *)
(* A slot is given out again after an unload, so the same number may come  *)
(* to mean another plugin.  Nothing keeps the host from unloading a slot   *)
(* the area is bound to; it only stops pumping an area whose session it    *)
(* has destroyed.                                                          *)
(***************************************************************************)
EXTENDS HostSession

VARIABLES
  m_slot,             \* the slot the area is bound to, or 0
  embedded            \* history: the instance it embedded there

area == <<m_slot, embedded>>
areaVars == <<vars, area>>

AreaInit ==
  /\ Init
  /\ m_slot = 0
  /\ embedded = 0

-----------------------------------------------------------------------------
Unbound == m_slot' = 0

\* A slot that is empty, has no view, or whose view is embedded somewhere is
\* refused, and a plugin may fail to attach; the area is unbound by then.
BoundAnyway(s) == m_slot' = s
NotBound(s) == Unbound

EmbedFails(s) ==
  /\ Ready
  /\ NotBound(s)
  /\ UNCHANGED vars \/ AttachFails(s)
  /\ UNCHANGED embedded

\* The session does the embedding; only then is the area bound.
Embed(s) ==
  /\ AttachView(s)
  /\ m_slot' = s
  /\ embedded' = slots[s].plugin

DetachBinding ==
  /\ Ready
  /\ m_slot # 0
  /\ Unbound
  /\ UNCHANGED <<vars, embedded>>

\* The slot's view as it is now, if the slot still has one.
CachedView == IF m_slot # 0 THEN embedded ELSE 0
AreaView == IF m_slot # 0 /\ slots[m_slot].in_use /\ slots[m_slot].view
              THEN slots[m_slot].plugin ELSE 0

\* driveIdle(), by hand or by the area's timer, and resizeEvent().
DriveView ==
  /\ Ready
  /\ AreaView # 0
  /\ Runs(objects[AreaView].dll)
  /\ MaySubscribe(AreaView, "idle")
  /\ UNCHANGED <<sessionVars, thread, objects, mapped, factory_refs, lost, area>>

\* Everything else the host does; the session tells the area nothing of it.
HostStep ==
  /\ Next
  /\ UNCHANGED area

AreaNext ==
  \/ HostStep
  \/ DetachBinding
  \/ DriveView
  \/ \E s \in Slots : Embed(s) \/ EmbedFails(s)

AreaSpec == AreaInit /\ [][AreaNext]_areaVars

-----------------------------------------------------------------------------
(* Properties                                                              *)

\* Whatever the host unloads behind the area's back, the view the area would
\* drive now is one the session holds, of a plugin it has not terminated, in a
\* module that is mapped: asking the session each time leaves no dangling view.
DrivesLiveView ==
  AreaView # 0 =>
    /\ objects[AreaView].state # "terminated"
    /\ objects[AreaView].refs["view"] > 0
    /\ mapped[objects[AreaView].dll] > 0

\* A bound area has embedded something: it never ends up with a view it was
\* refused.  As long as the view it embedded is not given back, the area drives
\* that view, and the session has it attached.
DrivesWhatItEmbedded ==
  m_slot # 0 =>
    /\ embedded \in DOMAIN objects
    /\ objects[embedded].refs["view"] > 0 =>
         AreaView = embedded /\ slots[m_slot].view_attached

\* What the area's header says: once the plugin is unloaded the session answers
\* NULL, so the area forgets the view by itself.
\* (The code does not keep it: README.md, section 3.)
ForgetsUnloaded == AreaView \in {0, embedded}

=============================================================================
