------------------------------ MODULE HostDx11 ------------------------------
(***************************************************************************)
(* The DX11 host kit (host_kits/dx11/pi_host_dx11.cpp): the device, the    *)
(* swap chain a host embeds child windows over, and how its buffers follow *)
(* the window.                                                             *)
(*                                                                         *)
(* One thread uses the kit.  Direct3D and DXGI are external: every call    *)
(* may fail (a removed device), and ResizeBuffers fails by rule while a    *)
(* view of the buffers is held, or with other flags than the chain was     *)
(* made with.  `com` counts the references and handles the system has      *)
(* given out and not got back; the rest are fields of the device.          *)
(***************************************************************************)
EXTENDS Integers

CONSTANTS
  Lengths,            \* widths and heights a window may have
  MaxFailures         \* bound on resize_failures between two resets

ASSUME LengthsArePositive ==
  /\ Lengths \subseteq Nat \ {0}
  /\ MaxFailures \in Nat

VARIABLES
  stage,              \* how far create() has come
  device, context, waitable, chain,   \* which fields are set
  render_target,      \* "live", or "null"
  swap_chain_flags,   \* the flags ResizeBuffers is given
  scaling_none,
  swap,               \* swap_w and swap_h: the size the kit believes in
  resize_failures,
  com,                \* what the system has given out
  system,             \* the chain as DXGI knows it: its flags and its size
  asked,              \* history: the size prepare_size() was last given
  failed,             \* history: whether it tried to resize twice in vain
  go_on,              \* history: what it returned: the host draws the frame
  largest,            \* history: the hull of the sizes it did not fail for
  faults              \* history: whether the system has failed a call

parts == <<device, context, waitable, chain>>
policy == <<swap_chain_flags, scaling_none>>
answer == <<asked, failed, go_on, largest>>
vars == <<stage, parts, policy, render_target, swap, resize_failures, com,
          system, answer, faults>>

Size == [w : Lengths \cup {0}, h : Lengths \cup {0}]
WindowSize == [w : Lengths, h : Lengths]
NoSize == [w |-> 0, h |-> 0]
Fits(a, b) == a.w <= b.w /\ a.h <= b.h
Larger(a, b) == IF a < b THEN b ELSE a
Hull(a, b) == [w |-> Larger(a.w, b.w), h |-> Larger(a.h, b.h)]

Flags == {"none", "waitable", "mode_switch"}
Held == [device : Nat, context : Nat, waitable : Nat, chain : Nat, target : Nat]
Nothing ==
  [device |-> 0, context |-> 0, waitable |-> 0, chain |-> 0, target |-> 0]
NoChain == [flags |-> "none", size |-> NoSize]
One(field) == IF field THEN 1 ELSE 0

TypeOK ==
  /\ stage \in {"none", "device", "flip", "bitblt", "target", "open"}
  /\ device \in BOOLEAN /\ context \in BOOLEAN
  /\ waitable \in BOOLEAN /\ chain \in BOOLEAN
  /\ render_target \in {"null", "live"}
  /\ swap_chain_flags \in Flags
  /\ scaling_none \in BOOLEAN
  /\ swap \in Size
  /\ resize_failures \in 0 .. MaxFailures
  /\ com \in Held
  /\ system \in [flags : Flags, size : Size]
  /\ asked \in Size /\ largest \in Size
  /\ failed \in BOOLEAN /\ go_on \in BOOLEAN
  /\ faults \in BOOLEAN

Init ==
  /\ stage = "none"
  /\ device = FALSE /\ context = FALSE /\ waitable = FALSE /\ chain = FALSE
  /\ render_target = "null"
  /\ swap_chain_flags = "none"
  /\ scaling_none = FALSE
  /\ swap = NoSize
  /\ resize_failures = 0
  /\ com = Nothing
  /\ system = NoChain
  /\ asked = NoSize /\ largest = NoSize
  /\ failed = FALSE /\ go_on = FALSE
  /\ faults = FALSE

-----------------------------------------------------------------------------
(* The render target                                                       *)

\* The target's reference is given back ...
KeepsView(held) == held
Cleaned(held) == [held EXCEPT !.target = @ - One(render_target = "live")]

\* ... and a new one made; GetBuffer or CreateRenderTargetView may fail.
CreateRenderTarget(held) ==
  /\ render_target' \in {"live", "null"}
  /\ com' = [held EXCEPT !.target = @ + One(render_target' = "live")]

-----------------------------------------------------------------------------
(* create() and destroy()                                                  *)

\* The fields as calloc leaves them.
Create ==
  /\ stage = "none"
  /\ stage' = "device"
  /\ UNCHANGED <<parts, policy, render_target, swap, resize_failures, com,
                 system, answer, faults>>

\* What destroy() gives back: whatever a field is set to.
LeaksWaitable ==
  [com EXCEPT !.target = @ - One(render_target = "live"),
              !.chain = @ - One(chain),
              !.context = @ - One(context),
              !.device = @ - One(device)]
Released ==
  [com EXCEPT !.target = @ - One(render_target = "live"),
              !.waitable = @ - One(waitable),
              !.chain = @ - One(chain),
              !.context = @ - One(context),
              !.device = @ - One(device)]

Freed ==
  /\ stage' = "none"
  /\ device' = FALSE /\ context' = FALSE /\ waitable' = FALSE /\ chain' = FALSE
  /\ render_target' = "null"
  /\ swap_chain_flags' = "none"
  /\ scaling_none' = FALSE
  /\ swap' = NoSize
  /\ resize_failures' = 0
  /\ com' = Released
  /\ system' = NoChain
  /\ asked' = NoSize /\ largest' = NoSize
  /\ failed' = FALSE /\ go_on' = FALSE

\* The hardware device, or WARP when that fails.
CreateDevice ==
  /\ stage = "device"
  /\ \/ /\ stage' = "flip"
        /\ device' = TRUE /\ context' = TRUE
        /\ com' = [com EXCEPT !.device = @ + 1, !.context = @ + 1]
        /\ UNCHANGED <<waitable, chain, policy, render_target, swap,
                       resize_failures, system, answer, faults>>
     \/ /\ Freed
        /\ faults' = TRUE

\* A chain of the window's size was made.  The size it is told may be unknown.
ChainMade(flags) ==
  /\ chain' = TRUE
  /\ swap_chain_flags' = flags
  /\ \E size \in WindowSize :
       /\ system' = [flags |-> flags, size |-> size]
       /\ swap' \in {size, NoSize}
  /\ stage' = "target"

\* The flip-model chain, 1:1 or, when that is rejected, stretched, with or
\* without a latency object.  Without a chain, the device is given up.
GivenUp == [com EXCEPT !.context = @ - 1, !.device = @ - 1]

CreateFlipChain ==
  /\ stage = "flip"
  /\ \/ /\ ChainMade("waitable")
        /\ scaling_none' \in BOOLEAN
        /\ waitable' \in BOOLEAN
        /\ com' = [com EXCEPT !.chain = @ + 1,
                              !.waitable = @ + One(waitable')]
        /\ UNCHANGED <<device, context, faults>>
     \/ /\ stage' = "bitblt"
        /\ swap_chain_flags' \in {"none", "waitable"}
        /\ device' = FALSE /\ context' = FALSE
        /\ com' = GivenUp
        /\ faults' = TRUE
        /\ UNCHANGED <<waitable, chain, scaling_none, swap, system>>
  /\ UNCHANGED <<render_target, resize_failures, answer>>

\* The old model, with a device of its own.
CreateBitbltChain ==
  /\ stage = "bitblt"
  /\ \/ /\ ChainMade("mode_switch")
        /\ device' = TRUE /\ context' = TRUE
        /\ scaling_none' = FALSE
        /\ com' = [com EXCEPT !.chain = @ + 1, !.context = @ + 1,
                              !.device = @ + 1]
        /\ UNCHANGED <<waitable, render_target, resize_failures, answer, faults>>
     \/ /\ Freed
        /\ faults' = TRUE

\* A missing target does not fail create().
FirstTarget ==
  /\ stage = "target"
  /\ stage' = "open"
  /\ CreateRenderTarget(com)
  /\ faults' = (faults \/ render_target' = "null")
  /\ UNCHANGED <<parts, policy, swap, resize_failures, system, answer>>

Destroy ==
  /\ stage = "open"
  /\ Freed
  /\ UNCHANGED faults

-----------------------------------------------------------------------------
(* prepare_size()                                                          *)

\* DXGI refuses a resize that is not made by its rules.
Misused == Cleaned(com).target # 0 \/ swap_chain_flags # system.flags

\* prepare_size() was given `size` and returns.
Answered(size, resized, returned) ==
  /\ asked' = size
  /\ failed' = ~resized
  /\ go_on' = returned
  /\ largest' = IF resized THEN Hull(largest, size) ELSE largest

\* The first or the second ResizeBuffers succeeds: new buffers, new target.
ResizeSucceeds(size) ==
  /\ ~Misused
  /\ resize_failures' \in {resize_failures, resize_failures + 1}
  /\ resize_failures' <= MaxFailures
  /\ system' = [system EXCEPT !.size = size]
  /\ CreateRenderTarget(Cleaned(com))
  /\ faults' = (faults \/ resize_failures' # resize_failures
                      \/ render_target' = "null")

\* Both fail: a target for the buffers there are.
ResizeFails ==
  /\ resize_failures < MaxFailures
  /\ resize_failures' = resize_failures + 1
  /\ CreateRenderTarget(Cleaned(com))
  /\ faults' = (faults \/ ~Misused \/ render_target' = "null")
  /\ UNCHANGED system

\* 1:1 scaling: the buffers only grow, each way by itself.
Grown(size) == Hull(swap, size)

\* A buffer that is large enough is left alone, with its target or without.
EnoughAlready(size) ==
  /\ scaling_none
  /\ Fits(size, swap)
  /\ Answered(size, TRUE, render_target = "live")
  /\ UNCHANGED <<render_target, swap, resize_failures, com, system, faults>>

\* The record follows the buffers, and only when they have changed.  The host
\* goes on after a failed resize if there is a target for the old buffers, and
\* after one that succeeded even if there is none.
RecordedAnyway(size) == Grown(size)
Recorded(size) == swap

EnsureAtLeast(size) ==
  /\ scaling_none
  /\ ~Fits(size, swap)
  /\ \/ /\ ResizeSucceeds(Grown(size))
        /\ swap' = Grown(size)
        /\ Answered(size, TRUE, TRUE)
     \/ /\ ResizeFails
        /\ swap' = Recorded(size)
        /\ Answered(size, FALSE, render_target' = "live")

\* Stretched: the buffers follow the window exactly; the record is not kept.
ResizeExact(size) ==
  /\ ~scaling_none
  /\ \/ /\ ResizeSucceeds(size)
        /\ Answered(size, TRUE, render_target' = "live")
     \/ /\ ResizeFails
        /\ Answered(size, FALSE, render_target' = "live")
  /\ UNCHANGED swap

PrepareSize(size) ==
  /\ stage = "open"
  /\ \/ EnoughAlready(size)
     \/ EnsureAtLeast(size)
     \/ ResizeExact(size)
  /\ UNCHANGED <<stage, parts, policy>>

ResetResizeStats ==
  /\ stage = "open"
  /\ resize_failures' = 0
  /\ UNCHANGED <<stage, parts, policy, render_target, swap, com, system,
                 answer, faults>>

-----------------------------------------------------------------------------
Next ==
  \/ Create
  \/ CreateDevice
  \/ CreateFlipChain
  \/ CreateBitbltChain
  \/ FirstTarget
  \/ Destroy
  \/ \E size \in WindowSize : PrepareSize(size)
  \/ ResetResizeStats

Spec == Init /\ [][Next]_vars

-----------------------------------------------------------------------------
(* Properties                                                              *)

\* Whatever step of create() or of a resize failed, the kit holds exactly what
\* its fields say; after destroy() or a failed create() it holds nothing.
ReferencesBalanced ==
  /\ TypeOK
  /\ com.device = One(device)
  /\ com.context = One(context)
  /\ com.waitable = One(waitable)
  /\ com.chain = One(chain)
  /\ com.target = One(render_target = "live")
  /\ stage = "none" => com = Nothing

\* With 1:1 scaling the record of the size is that of the buffers, through
\* every failed resize ("unknown" only until the first resize).
RecordIsTrue ==
  chain /\ scaling_none => swap = system.size \/ swap = NoSize

\* Unless both ResizeBuffers calls made for it failed, no frame is cut off: with
\* 1:1 scaling the buffers hold the window and every one before it, although
\* they grow each way by itself and the decision to leave them alone is made on
\* the record; stretched, they are of the window's size.
BuffersCover ==
  /\ RecordIsTrue
  /\ scaling_none => largest = NoSize \/ Fits(largest, system.size)
  /\ asked # NoSize /\ ~failed =>
       IF scaling_none THEN Fits(asked, system.size) ELSE asked = system.size

\* A frame the host is told to draw with 1:1 scaling is not larger than the
\* buffers; one whose resize failed twice is drawn on the old ones.
\* (The code does not keep it: README.md, section 3.)
GrantedFits ==
  go_on /\ scaling_none => Fits(asked, system.size)

\* prepare_size() returns non-zero only with a target to draw on; a resize that
\* succeeded returns 1 although the new target could not be made.
\* (The code does not keep it: README.md, section 3.)
GrantedHasTarget ==
  go_on => render_target = "live"

\* The kit never makes a resize fail itself: as long as the system fails no
\* call, none is counted as failed and there is a target to draw on.
OnlySystemFails ==
  ~faults => resize_failures = 0 /\ (stage = "open" => render_target = "live")

=============================================================================
