---------------------------- MODULE MCHostSession ----------------------------
(* Instances of HostSession for TLC. *)
EXTENDS HostSession, TLC

CONSTANTS
  good,     \* a module that passes every gate
  plain,    \* a module whose descriptor lists nothing
  bare,     \* a module without a descriptor
  gui,      \* a module that requires what a headless host lacks
  twice,    \* a module that lists a capability twice
  newer,    \* a module built for a newer host
  ui, codec

TwoModules   == {good, plain}
AllModules   == {good, bare, gui, twice, newer}
TwoCaps      == {ui, codec}
NoCaps       == {}

Host5 == [major |-> 0, minor |-> 5]
Entry(c, flags) ==
  IF c \in Capabilities THEN <<[iid |-> c, flags |-> flags]>> ELSE <<>>

DescribesItself == Dlls \ {bare}
Says == [d \in DescribesItself |->
  [api_version |-> [Host5 EXCEPT !.minor = IF d = newer THEN 6 ELSE 5],
   capabilities |->
     CASE d = good  -> Entry(codec, {"PROVIDES"})
       [] d = gui   -> Entry(codec, {"PROVIDES"}) \o Entry(ui, {"REQUIRED"})
       [] d = twice -> Entry(codec, {"OPTIONAL"}) \o Entry(codec, {"PROVIDES"})
       [] OTHER     -> <<>>]]

WhileInitialized == {"initialize", "attach", "idle", "deliver"}
AnyCall == WhileInitialized \cup {"stop", "detach", "terminate"}

=============================================================================
