--------------------------- MODULE HostDx11Proofs ---------------------------
(***************************************************************************)
(* What the DX11 host kit keeps for all window sizes: it holds what its    *)
(* fields say, its buffers cover every size it did not fail for, and it    *)
(* never makes a resize fail itself.                                       *)
(*                                                                         *)
(* The inductive invariant says which fields are set at each stage of      *)
(* create(), that the flags are the chain's own, and that the record of    *)
(* the size, not the buffers themselves, covers those sizes: that is       *)
(* what the decision to leave a buffer alone is made on.                   *)
(***************************************************************************)
EXTENDS HostDx11, TLAPS

\* Which fields are set at which stage of create().
Stages ==
  /\ stage = "flip" => device /\ context
  /\ stage \in {"target", "open"} => device /\ context /\ chain
  /\ stage \in {"none", "device", "bitblt"} => ~device /\ ~context
  /\ stage \in {"none", "device", "flip", "bitblt"} =>
       ~waitable /\ ~chain /\ ~scaling_none
  /\ stage # "open" =>
       /\ render_target = "null"
       /\ largest = NoSize /\ asked = NoSize
       /\ resize_failures = 0

\* The references the system counts, as one record.
Refs(d, c, w, s, t) ==
  [device |-> d, context |-> c, waitable |-> w, chain |-> s, target |-> t]

Exactly(d, c, w, s, t) == Refs(One(d), One(c), One(w), One(s), One(t))

Counted ==
  com = Exactly(device, context, waitable, chain, render_target = "live")

\* The flags given to ResizeBuffers are the chain's, and the record of the size
\* covers all sizes it did not fail for.
Agrees ==
  /\ chain => swap_chain_flags = system.flags
  /\ scaling_none => Fits(largest, swap)

Covers ==
  /\ RecordIsTrue
  /\ scaling_none => largest = NoSize \/ Fits(largest, system.size)
  /\ asked # NoSize /\ ~failed =>
       IF scaling_none THEN Fits(asked, system.size) ELSE asked = system.size

IInv ==
  /\ TypeOK
  /\ Stages
  /\ Counted
  /\ Agrees
  /\ Covers
  /\ OnlySystemFails

-----------------------------------------------------------------------------
(* References                                                              *)

LEMMA OneIsANumber ==
  ASSUME NEW b \in BOOLEAN
  PROVE  One(b) \in {0, 1} /\ One(TRUE) = 1 /\ One(FALSE) = 0
  BY DEF One

LEMMA ExactlyIsHeld ==
  ASSUME NEW d \in BOOLEAN, NEW c \in BOOLEAN, NEW w \in BOOLEAN,
         NEW s \in BOOLEAN, NEW t \in BOOLEAN
  PROVE  Exactly(d, c, w, s, t) \in Held
  BY DEF Exactly, Refs, Held, One

LEMMA NothingIsExact ==
  Nothing = Exactly(FALSE, FALSE, FALSE, FALSE, FALSE)
  BY DEF Nothing, Exactly, Refs, One

\* Giving the target back, and making a new one.
Less(held, n) == [held EXCEPT !.target = @ - n]
More(held, n) == [held EXCEPT !.target = @ + n]

LEMMA TargetGiven ==
  ASSUME NEW d \in Int, NEW c \in Int, NEW w \in Int, NEW s \in Int, NEW n \in Int
  PROVE  /\ Less(Refs(d, c, w, s, n), n) = Refs(d, c, w, s, 0)
         /\ More(Refs(d, c, w, s, 0), n) = Refs(d, c, w, s, n)
  BY DEF Refs, Less, More

LEMMA DeviceMade ==
  [Exactly(FALSE, FALSE, FALSE, FALSE, FALSE)
     EXCEPT !.device = @ + 1, !.context = @ + 1]
    = Exactly(TRUE, TRUE, FALSE, FALSE, FALSE)
<1> DEFINE r == Refs(0, 0, 0, 0, 0)
<1>1. [r EXCEPT !.device = @ + 1] = Refs(1, 0, 0, 0, 0)
  BY DEF Refs
<1>2. [Refs(1, 0, 0, 0, 0) EXCEPT !.context = @ + 1] = Refs(1, 1, 0, 0, 0)
  BY DEF Refs
<1>3. [r EXCEPT !.device = @ + 1, !.context = @ + 1]
        = [[r EXCEPT !.device = @ + 1] EXCEPT !.context = @ + 1]
  OBVIOUS
<1>4. [r EXCEPT !.device = @ + 1, !.context = @ + 1] = Refs(1, 1, 0, 0, 0)
  BY <1>1, <1>2, <1>3, Zenon
<1>5. /\ r = Exactly(FALSE, FALSE, FALSE, FALSE, FALSE)
      /\ Refs(1, 1, 0, 0, 0) = Exactly(TRUE, TRUE, FALSE, FALSE, FALSE)
  BY Zenon, OneIsANumber DEF Exactly
<1>. QED
  BY <1>4, <1>5, Zenon

LEMMA FlipChainMade ==
  ASSUME NEW w \in BOOLEAN
  PROVE  [Exactly(TRUE, TRUE, FALSE, FALSE, FALSE)
            EXCEPT !.chain = @ + 1, !.waitable = @ + One(w)]
           = Exactly(TRUE, TRUE, w, TRUE, FALSE)
<1> DEFINE r == Refs(1, 1, 0, 0, 0)
<1>1. [r EXCEPT !.chain = @ + 1] = Refs(1, 1, 0, 1, 0)
  BY DEF Refs
<1>2. [Refs(1, 1, 0, 1, 0) EXCEPT !.waitable = @ + One(w)] = Refs(1, 1, One(w), 1, 0)
  BY DEF Refs, One
<1>3. [r EXCEPT !.chain = @ + 1, !.waitable = @ + One(w)]
        = [[r EXCEPT !.chain = @ + 1] EXCEPT !.waitable = @ + One(w)]
  OBVIOUS
<1>4. [r EXCEPT !.chain = @ + 1, !.waitable = @ + One(w)] = Refs(1, 1, One(w), 1, 0)
  BY <1>1, <1>2, <1>3, Zenon
<1>5. /\ r = Exactly(TRUE, TRUE, FALSE, FALSE, FALSE)
      /\ Refs(1, 1, One(w), 1, 0) = Exactly(TRUE, TRUE, w, TRUE, FALSE)
  BY Zenon, OneIsANumber DEF Exactly
<1>. QED
  BY <1>4, <1>5, Zenon

LEMMA DeviceGivenUp ==
  [Exactly(TRUE, TRUE, FALSE, FALSE, FALSE)
     EXCEPT !.context = @ - 1, !.device = @ - 1]
    = Exactly(FALSE, FALSE, FALSE, FALSE, FALSE)
<1> DEFINE r == Refs(1, 1, 0, 0, 0)
<1>1. [r EXCEPT !.context = @ - 1] = Refs(1, 0, 0, 0, 0)
  BY DEF Refs
<1>2. [Refs(1, 0, 0, 0, 0) EXCEPT !.device = @ - 1] = Refs(0, 0, 0, 0, 0)
  BY DEF Refs
<1>3. [r EXCEPT !.context = @ - 1, !.device = @ - 1]
        = [[r EXCEPT !.context = @ - 1] EXCEPT !.device = @ - 1]
  OBVIOUS
<1>4. [r EXCEPT !.context = @ - 1, !.device = @ - 1] = Refs(0, 0, 0, 0, 0)
  BY <1>1, <1>2, <1>3, Zenon
<1>5. /\ r = Exactly(TRUE, TRUE, FALSE, FALSE, FALSE)
      /\ Refs(0, 0, 0, 0, 0) = Exactly(FALSE, FALSE, FALSE, FALSE, FALSE)
  BY Zenon, OneIsANumber DEF Exactly
<1>. QED
  BY <1>4, <1>5, Zenon

LEMMA BitbltChainMade ==
  [Exactly(FALSE, FALSE, FALSE, FALSE, FALSE)
     EXCEPT !.chain = @ + 1, !.context = @ + 1, !.device = @ + 1]
    = Exactly(TRUE, TRUE, FALSE, TRUE, FALSE)
<1> DEFINE r == Refs(0, 0, 0, 0, 0)
<1>1. [r EXCEPT !.chain = @ + 1] = Refs(0, 0, 0, 1, 0)
  BY DEF Refs
<1>2. [Refs(0, 0, 0, 1, 0) EXCEPT !.context = @ + 1] = Refs(0, 1, 0, 1, 0)
  BY DEF Refs
<1>3. [Refs(0, 1, 0, 1, 0) EXCEPT !.device = @ + 1] = Refs(1, 1, 0, 1, 0)
  BY DEF Refs
<1>4. [r EXCEPT !.chain = @ + 1, !.context = @ + 1, !.device = @ + 1]
        = [[[r EXCEPT !.chain = @ + 1] EXCEPT !.context = @ + 1]
             EXCEPT !.device = @ + 1]
  OBVIOUS
<1>5. [r EXCEPT !.chain = @ + 1, !.context = @ + 1, !.device = @ + 1]
        = Refs(1, 1, 0, 1, 0)
  BY <1>1, <1>2, <1>3, <1>4, Zenon
<1>6. /\ r = Exactly(FALSE, FALSE, FALSE, FALSE, FALSE)
      /\ Refs(1, 1, 0, 1, 0) = Exactly(TRUE, TRUE, FALSE, TRUE, FALSE)
  BY Zenon, OneIsANumber DEF Exactly
<1>. QED
  BY <1>5, <1>6, Zenon

\* destroy() gives back whatever a field is set to.
Without(held, d, c, w, s, t) ==
  [held EXCEPT !.target = @ - t, !.waitable = @ - w, !.chain = @ - s,
               !.context = @ - c, !.device = @ - d]

LEMMA AllReleased ==
  ASSUME NEW i \in Int, NEW j \in Int, NEW k \in Int, NEW l \in Int, NEW n \in Int
  PROVE  Without(Refs(i, j, k, l, n), i, j, k, l, n) = Refs(0, 0, 0, 0, 0)
<1> DEFINE r0 == Refs(i, j, k, l, n)
           r1 == [r0 EXCEPT !.target = @ - n]
           r2 == [r1 EXCEPT !.waitable = @ - k]
           r3 == [r2 EXCEPT !.chain = @ - l]
           r4 == [r3 EXCEPT !.context = @ - j]
           r5 == [r4 EXCEPT !.device = @ - i]
<1>1. r1 = Refs(i, j, k, l, 0)
  BY DEF Refs
<1>. HIDE DEF r1
<1>2. r2 = Refs(i, j, 0, l, 0)
  <2>1. [Refs(i, j, k, l, 0) EXCEPT !.waitable = @ - k] = Refs(i, j, 0, l, 0)
    BY DEF Refs
  <2>. QED
    BY <1>1, <2>1, Zenon DEF r2
<1>. HIDE DEF r2
<1>3. r3 = Refs(i, j, 0, 0, 0)
  <2>1. [Refs(i, j, 0, l, 0) EXCEPT !.chain = @ - l] = Refs(i, j, 0, 0, 0)
    BY DEF Refs
  <2>. QED
    BY <1>2, <2>1, Zenon DEF r3
<1>. HIDE DEF r3
<1>4. r4 = Refs(i, 0, 0, 0, 0)
  <2>1. [Refs(i, j, 0, 0, 0) EXCEPT !.context = @ - j] = Refs(i, 0, 0, 0, 0)
    BY DEF Refs
  <2>. QED
    BY <1>3, <2>1, Zenon DEF r4
<1>. HIDE DEF r4
<1>5. r5 = Refs(0, 0, 0, 0, 0)
  <2>1. [Refs(i, 0, 0, 0, 0) EXCEPT !.device = @ - i] = Refs(0, 0, 0, 0, 0)
    BY DEF Refs
  <2>. QED
    BY <1>4, <2>1, Zenon DEF r5
<1>. USE DEF r1, r2, r3, r4
<1>6. Without(r0, i, j, k, l, n) = r5
  BY DEF Without
<1>. QED
  BY <1>5, <1>6, Zenon

-----------------------------------------------------------------------------
(* Sizes                                                                   *)

LEMMA SizeFields ==
  ASSUME NEW a \in Size
  PROVE  /\ a.w \in Nat /\ a.h \in Nat
         /\ a.w \in Lengths \cup {0} /\ a.h \in Lengths \cup {0}
<1>1. a.w \in Lengths \cup {0} /\ a.h \in Lengths \cup {0}
  BY DEF Size
<1>2. Lengths \cup {0} \subseteq Nat
  BY LengthsArePositive DEF LengthsArePositive
<1>. QED
  BY <1>1, <1>2

LEMMA WindowSizes ==
  /\ NoSize \in Size
  /\ \A a \in WindowSize : a \in Size /\ ~Fits(a, NoSize)
<1>1. NoSize \in Size
  BY DEF NoSize, Size
<1>2. ASSUME NEW a \in WindowSize PROVE a \in Size /\ ~Fits(a, NoSize)
  <2>1. a.w \in Lengths /\ a.h \in Lengths /\ a = [w |-> a.w, h |-> a.h]
    BY DEF WindowSize
  <2>2. a.w > 0 /\ a.w \in Nat
    BY <2>1, LengthsArePositive DEF LengthsArePositive
  <2>. QED
    BY <2>1, <2>2 DEF Size, NoSize, Fits
<1>. QED
  BY <1>1, <1>2

LEMMA HullIsASize ==
  ASSUME NEW a \in Size, NEW b \in Size
  PROVE  /\ Hull(a, b) \in Size
         /\ Fits(a, Hull(a, b))
         /\ Fits(b, Hull(a, b))
<1>1. a.w \in Nat /\ a.h \in Nat /\ b.w \in Nat /\ b.h \in Nat
  BY SizeFields
<1>2. /\ a.w \in Lengths \cup {0} /\ a.h \in Lengths \cup {0}
      /\ b.w \in Lengths \cup {0} /\ b.h \in Lengths \cup {0}
  BY SizeFields
<1>3. Larger(a.w, b.w) \in Lengths \cup {0} /\ Larger(a.h, b.h) \in Lengths \cup {0}
  BY <1>2 DEF Larger
<1>. QED
  BY <1>1, <1>3 DEF Size, Hull, Larger, Fits

LEMMA HullIsLeast ==
  ASSUME NEW a \in Size, NEW b \in Size, NEW c \in Size, Fits(a, c), Fits(b, c)
  PROVE  Fits(Hull(a, b), c)
  BY DEF Hull, Larger, Fits

LEMMA FitsIsTransitive ==
  ASSUME NEW a \in Size, NEW b \in Size, NEW c \in Size, Fits(a, b), Fits(b, c)
  PROVE  Fits(a, c)
<1>1. /\ a.w \in Nat /\ a.h \in Nat /\ b.w \in Nat /\ b.h \in Nat
      /\ c.w \in Nat /\ c.h \in Nat
  BY SizeFields
<1>. QED
  BY <1>1 DEF Fits

LEMMA NoSizeFits ==
  ASSUME NEW a \in Size
  PROVE  Fits(NoSize, a)
<1>1. a.w \in Nat /\ a.h \in Nat
  BY SizeFields
<1>. QED
  BY <1>1 DEF Fits, NoSize


-----------------------------------------------------------------------------
(* What the steps share                                                    *)

LEMMA Fields ==
  ASSUME TypeOK
  PROVE  /\ device \in BOOLEAN /\ context \in BOOLEAN
         /\ waitable \in BOOLEAN /\ chain \in BOOLEAN
         /\ (render_target = "live") \in BOOLEAN
  BY Zenon DEF TypeOK

LEMMA Retargeted ==
  ASSUME NEW held, NEW d \in BOOLEAN, NEW c \in BOOLEAN, NEW w \in BOOLEAN,
         NEW s \in BOOLEAN, held = Exactly(d, c, w, s, FALSE),
         CreateRenderTarget(held)
  PROVE  /\ render_target' \in {"null", "live"}
         /\ com' = Exactly(d, c, w, s, render_target' = "live")
<1> DEFINE t == One(render_target' = "live")
<1>1. /\ One(d) \in Int /\ One(c) \in Int /\ One(w) \in Int /\ One(s) \in Int
      /\ t \in Int
  BY DEF One
<1>2. held = Refs(One(d), One(c), One(w), One(s), 0)
  BY OneIsANumber, Zenon DEF Exactly
<1>3. com' = More(held, t)
  BY Zenon DEF CreateRenderTarget, More
<1>. HIDE DEF t
<1>4. com' = Refs(One(d), One(c), One(w), One(s), t)
  BY <1>1, <1>2, <1>3, TargetGiven
<1>5. com' = Exactly(d, c, w, s, render_target' = "live")
  BY <1>4, Zenon DEF t, Exactly
<1>6. render_target' \in {"null", "live"}
  BY DEF CreateRenderTarget
<1>. QED
  BY <1>5, <1>6, Zenon

LEMMA CleanedIsExact ==
  ASSUME TypeOK, Counted
  PROVE  Cleaned(com) = Exactly(device, context, waitable, chain, FALSE)
<1> DEFINE t == One(render_target = "live")
<1>1. /\ One(device) \in Int /\ One(context) \in Int /\ One(waitable) \in Int
      /\ One(chain) \in Int /\ t \in Int
  BY Fields DEF One
<1>2. /\ com = Refs(One(device), One(context), One(waitable), One(chain), t)
      /\ Cleaned(com) = Less(com, t)
  BY Zenon DEF Counted, Exactly, Cleaned, Less
<1>. HIDE DEF t
<1>3. Cleaned(com) = Refs(One(device), One(context), One(waitable), One(chain), 0)
  BY <1>1, <1>2, TargetGiven
<1>. QED
  BY <1>3, OneIsANumber, Zenon DEF Exactly

LEMMA ReleasedIsNothing ==
  ASSUME TypeOK, Counted
  PROVE  Released = Nothing
<1> DEFINE t == One(render_target = "live")
<1>1. /\ One(device) \in Int /\ One(context) \in Int /\ One(waitable) \in Int
      /\ One(chain) \in Int /\ t \in Int
  BY Fields DEF One
<1>2. /\ com = Refs(One(device), One(context), One(waitable), One(chain), t)
      /\ Released = Without(com, One(device), One(context), One(waitable),
                            One(chain), t)
  BY Zenon DEF Counted, Exactly, Released, Without
<1>. HIDE DEF t
<1>3. Released = Refs(0, 0, 0, 0, 0)
  BY <1>1, <1>2, AllReleased
<1>. QED
  BY <1>3 DEF Nothing, Refs

LEMMA SystemIs ==
  /\ NoChain \in [flags : Flags, size : Size]
  /\ NoChain.size = NoSize
  /\ \A f \in Flags, a \in Size :
       /\ [flags |-> f, size |-> a] \in [flags : Flags, size : Size]
       /\ [flags |-> f, size |-> a].size = a
       /\ [flags |-> f, size |-> a].flags = f
  BY WindowSizes DEF NoChain, Flags

LEMMA SystemResized ==
  ASSUME NEW c \in [flags : Flags, size : Size], NEW a \in Size
  PROVE  /\ [c EXCEPT !.size = a] \in [flags : Flags, size : Size]
         /\ [c EXCEPT !.size = a].size = a
         /\ [c EXCEPT !.size = a].flags = c.flags
  OBVIOUS

-----------------------------------------------------------------------------
(* create() and destroy()                                                  *)

LEMMA FreedInv ==
  ASSUME IInv, Freed, faults' \in BOOLEAN
  PROVE  IInv'
<1>1. com' = Nothing
  BY ReleasedIsNothing, Zenon DEF IInv, Freed
<1>2. Counted'
  <2>1. (render_target' = "live") = FALSE
    BY DEF Freed
  <2>. QED
    BY <1>1, <2>1, NothingIsExact, Zenon DEF Freed, Counted
<1>3. TypeOK'
  <2>1. com' \in Held
    BY <1>1, NothingIsExact, ExactlyIsHeld, Zenon
  <2>2. NoSize \in Size /\ NoChain \in [flags : Flags, size : Size]
    BY WindowSizes, SystemIs, Zenon
  <2>3. 0 \in 0 .. MaxFailures
    BY LengthsArePositive DEF LengthsArePositive
  <2>. QED
    BY <2>1, <2>2, <2>3 DEF Freed, TypeOK, Flags
<1>4. Stages'
  BY DEF Freed, Stages
<1>5. Agrees'
  BY DEF Freed, Agrees
<1>6. Covers'
  BY DEF Freed, Covers, RecordIsTrue
<1>7. OnlySystemFails'
  BY DEF Freed, OnlySystemFails
<1>. QED
  BY <1>2, <1>3, <1>4, <1>5, <1>6, <1>7, Zenon DEF IInv

LEMMA DestroyInv ==
  ASSUME IInv, Destroy
  PROVE  IInv'
  BY FreedInv DEF Destroy, IInv, TypeOK

LEMMA CreateInv ==
  ASSUME IInv, Create
  PROVE  IInv'
<1>. USE DEF Create, parts, policy, answer
<1>1. TypeOK'
  BY DEF IInv, TypeOK
<1>2. Stages'
  BY DEF IInv, Stages
<1>3. Counted'
  BY DEF IInv, Counted
<1>4. Agrees'
  BY DEF IInv, Agrees
<1>5. Covers'
  BY DEF IInv, Covers, RecordIsTrue
<1>6. OnlySystemFails'
  BY DEF IInv, OnlySystemFails
<1>. QED
  BY <1>1, <1>2, <1>3, <1>4, <1>5, <1>6, Zenon DEF IInv

\* Nothing is set before the device is made, nor between the two models.
LEMMA EmptyHanded ==
  ASSUME IInv, stage \in {"device", "bitblt"}
  PROVE  /\ com = Exactly(FALSE, FALSE, FALSE, FALSE, FALSE)
         /\ ~device /\ ~context /\ ~waitable /\ ~chain /\ ~scaling_none
         /\ render_target = "null" /\ resize_failures = 0
         /\ largest = NoSize /\ asked = NoSize
<1>1. /\ ~device /\ ~context /\ ~waitable /\ ~chain /\ ~scaling_none
      /\ render_target = "null" /\ resize_failures = 0
      /\ largest = NoSize /\ asked = NoSize
  BY DEF IInv, Stages
<1>2. /\ device = FALSE /\ context = FALSE /\ waitable = FALSE /\ chain = FALSE
      /\ (render_target = "live") = FALSE
  BY <1>1, Fields DEF IInv
<1>. QED
  BY <1>1, <1>2, Zenon DEF IInv, Counted

LEMMA CreateDeviceInv ==
  ASSUME IInv, CreateDevice
  PROVE  IInv'
<1>1. CASE Freed /\ faults' = TRUE
  BY <1>1, FreedInv
<1>2. CASE ~(Freed /\ faults' = TRUE)
  <2>1. /\ stage = "device" /\ stage' = "flip"
        /\ device' = TRUE /\ context' = TRUE
        /\ com' = [com EXCEPT !.device = @ + 1, !.context = @ + 1]
        /\ UNCHANGED <<waitable, chain, policy, render_target, swap,
                       resize_failures, system, answer, faults>>
    BY <1>2, Zenon DEF CreateDevice
  <2>2. com' = Exactly(TRUE, TRUE, FALSE, FALSE, FALSE)
    BY <2>1, EmptyHanded, DeviceMade, Zenon
  <2>3. /\ ~waitable /\ ~chain /\ ~scaling_none /\ render_target = "null"
        /\ resize_failures = 0 /\ largest = NoSize /\ asked = NoSize
    BY <2>1, EmptyHanded
  <2>4. /\ waitable' = FALSE /\ chain' = FALSE /\ (render_target' = "live") = FALSE
    BY <2>1, <2>3, Fields DEF IInv
  <2>5. Counted'
    BY <2>1, <2>2, <2>4, Zenon DEF Counted
  <2>6. TypeOK'
    <3>1. com' \in Held
      BY <2>2, ExactlyIsHeld, Zenon
    <3>. QED
      BY <2>1, <3>1 DEF IInv, TypeOK, policy, answer
  <2>7. Stages'
    BY <2>1, <2>3 DEF Stages, policy, answer
  <2>8. Agrees'
    BY <2>1, <2>3 DEF Agrees, policy, answer
  <2>9. Covers'
    BY <2>1, <2>3 DEF Covers, RecordIsTrue, policy, answer
  <2>10. OnlySystemFails'
    BY <2>1, <2>3 DEF OnlySystemFails, policy, answer
  <2>. QED
    BY <2>5, <2>6, <2>7, <2>8, <2>9, <2>10, Zenon DEF IInv
<1>. QED
  BY <1>1, <1>2

\* A new chain has the flags and the size the kit notes, or the size is unknown.
LEMMA ChainKnown ==
  ASSUME NEW flags \in Flags, ChainMade(flags)
  PROVE  /\ chain' = TRUE /\ stage' = "target"
         /\ swap_chain_flags' = flags /\ system'.flags = flags
         /\ system' \in [flags : Flags, size : Size]
         /\ swap' \in Size
         /\ swap' = system'.size \/ swap' = NoSize
<1>1. PICK size \in WindowSize :
        /\ system' = [flags |-> flags, size |-> size]
        /\ swap' \in {size, NoSize}
  BY DEF ChainMade
<1>2. size \in Size /\ NoSize \in Size
  BY WindowSizes
<1>3. /\ system' \in [flags : Flags, size : Size]
      /\ system'.size = size /\ system'.flags = flags
  BY <1>1, <1>2, SystemIs, Zenon
<1>. QED
  BY <1>1, <1>2, <1>3 DEF ChainMade

LEMMA WithDevice ==
  ASSUME IInv, stage = "flip"
  PROVE  /\ com = Exactly(TRUE, TRUE, FALSE, FALSE, FALSE)
         /\ device = TRUE /\ context = TRUE
         /\ waitable = FALSE /\ chain = FALSE /\ scaling_none = FALSE
         /\ render_target = "null" /\ resize_failures = 0
         /\ largest = NoSize /\ asked = NoSize
<1>1. /\ device /\ context /\ ~waitable /\ ~chain /\ ~scaling_none
      /\ render_target = "null" /\ resize_failures = 0
      /\ largest = NoSize /\ asked = NoSize
  BY DEF IInv, Stages
<1>2. /\ device = TRUE /\ context = TRUE /\ waitable = FALSE /\ chain = FALSE
      /\ scaling_none = FALSE /\ (render_target = "live") = FALSE
  BY <1>1 DEF IInv, TypeOK
<1>. QED
  BY <1>1, <1>2, Zenon DEF IInv, Counted

LEMMA CreateFlipChainInv ==
  ASSUME IInv, CreateFlipChain
  PROVE  IInv'
<1>1. /\ stage = "flip"
      /\ UNCHANGED <<render_target, resize_failures, answer>>
  BY DEF CreateFlipChain
<1>2. /\ render_target' = "null" /\ resize_failures' = 0
      /\ largest' = NoSize /\ asked' = NoSize
  BY <1>1, WithDevice DEF answer
<1>3. CASE /\ ChainMade("waitable")
           /\ scaling_none' \in BOOLEAN
           /\ waitable' \in BOOLEAN
           /\ com' = [com EXCEPT !.chain = @ + 1, !.waitable = @ + One(waitable')]
           /\ UNCHANGED <<device, context, faults>>
  <2>1. /\ chain' = TRUE /\ stage' = "target"
        /\ swap_chain_flags' = "waitable" /\ system'.flags = "waitable"
        /\ system' \in [flags : Flags, size : Size]
        /\ swap' \in Size
        /\ swap' = system'.size \/ swap' = NoSize
    BY <1>3, ChainKnown DEF Flags
  <2>2. /\ device' = TRUE /\ context' = TRUE /\ (render_target' = "live") = FALSE
    BY <1>1, <1>2, <1>3, WithDevice
  <2>3. com' = Exactly(TRUE, TRUE, waitable', TRUE, FALSE)
    <3>1. waitable' \in BOOLEAN
      BY <1>3
    <3>. QED
      BY <3>1, <1>1, <1>3, WithDevice, FlipChainMade, Zenon
  <2>4. Counted'
    BY <2>1, <2>2, <2>3, Zenon DEF Counted
  <2>5. TypeOK'
    <3>1. com' \in Held
      BY <1>3, <2>3, ExactlyIsHeld, Zenon
    <3>2. NoSize \in Size /\ 0 \in 0 .. MaxFailures
      BY WindowSizes, LengthsArePositive DEF LengthsArePositive
    <3>. QED
      BY <1>1, <1>2, <1>3, <2>1, <2>2, <3>1, <3>2
         DEF IInv, TypeOK, Flags, answer
  <2>6. Stages'
    BY <1>2, <2>1, <2>2 DEF Stages
  <2>7. Agrees'
    BY <1>2, <2>1, NoSizeFits DEF Agrees
  <2>8. Covers'
    BY <1>2, <2>1 DEF Covers, RecordIsTrue
  <2>9. OnlySystemFails'
    BY <1>2, <2>1 DEF OnlySystemFails
  <2>. QED
    BY <2>4, <2>5, <2>6, <2>7, <2>8, <2>9, Zenon DEF IInv
<1>4. CASE /\ stage' = "bitblt"
           /\ swap_chain_flags' \in {"none", "waitable"}
           /\ device' = FALSE /\ context' = FALSE
           /\ com' = GivenUp
           /\ faults' = TRUE
           /\ UNCHANGED <<waitable, chain, scaling_none, swap, system>>
  <2>1. com' = Exactly(FALSE, FALSE, FALSE, FALSE, FALSE)
    BY <1>1, <1>4, WithDevice, DeviceGivenUp, Zenon DEF GivenUp
  <2>2. /\ waitable' = FALSE /\ chain' = FALSE /\ scaling_none' = FALSE
        /\ (render_target' = "live") = FALSE
    BY <1>1, <1>2, <1>4, WithDevice
  <2>3. Counted'
    BY <1>4, <2>1, <2>2, Zenon DEF Counted
  <2>4. TypeOK'
    <3>1. com' \in Held
      BY <2>1, ExactlyIsHeld, Zenon
    <3>2. NoSize \in Size /\ 0 \in 0 .. MaxFailures
      BY WindowSizes, LengthsArePositive DEF LengthsArePositive
    <3>. QED
      BY <1>1, <1>2, <1>4, <2>2, <3>1, <3>2
         DEF IInv, TypeOK, Flags, answer
  <2>5. Stages'
    BY <1>2, <1>4, <2>2 DEF Stages
  <2>6. Agrees' /\ Covers' /\ OnlySystemFails'
    BY <1>2, <1>4, <2>2 DEF Agrees, Covers, RecordIsTrue, OnlySystemFails
  <2>. QED
    BY <2>3, <2>4, <2>5, <2>6, Zenon DEF IInv
<1>. QED
  BY <1>3, <1>4, Zenon DEF CreateFlipChain

LEMMA CreateBitbltChainInv ==
  ASSUME IInv, CreateBitbltChain
  PROVE  IInv'
<1>1. CASE Freed /\ faults' = TRUE
  BY <1>1, FreedInv
<1>2. CASE /\ ChainMade("mode_switch")
           /\ device' = TRUE /\ context' = TRUE
           /\ scaling_none' = FALSE
           /\ com' = [com EXCEPT !.chain = @ + 1, !.context = @ + 1,
                                 !.device = @ + 1]
           /\ UNCHANGED <<waitable, render_target, resize_failures, answer, faults>>
  <2>1. /\ chain' = TRUE /\ stage' = "target"
        /\ swap_chain_flags' = "mode_switch" /\ system'.flags = "mode_switch"
        /\ system' \in [flags : Flags, size : Size]
        /\ swap' \in Size
        /\ swap' = system'.size \/ swap' = NoSize
    BY <1>2, ChainKnown DEF Flags
  <2>2. stage = "bitblt"
    BY DEF CreateBitbltChain
  <2>3. /\ ~waitable' /\ render_target' = "null" /\ resize_failures' = 0
        /\ largest' = NoSize /\ asked' = NoSize
    BY <1>2, <2>2, EmptyHanded DEF answer
  <2>4. waitable' = FALSE /\ (render_target' = "live") = FALSE
    BY <1>2, <2>3 DEF IInv, TypeOK
  <2>5. com' = Exactly(TRUE, TRUE, FALSE, TRUE, FALSE)
    BY <1>2, <2>2, EmptyHanded, BitbltChainMade, Zenon
  <2>6. Counted'
    BY <1>2, <2>1, <2>4, <2>5, Zenon DEF Counted
  <2>7. TypeOK'
    <3>1. com' \in Held
      BY <2>5, ExactlyIsHeld, Zenon
    <3>2. NoSize \in Size /\ 0 \in 0 .. MaxFailures
      BY WindowSizes, LengthsArePositive DEF LengthsArePositive
    <3>. QED
      BY <1>2, <2>1, <2>3, <2>4, <3>1, <3>2
         DEF IInv, TypeOK, Flags, answer
  <2>8. Stages'
    BY <1>2, <2>1, <2>3 DEF Stages
  <2>9. Agrees' /\ Covers' /\ OnlySystemFails'
    BY <1>2, <2>1, <2>3 DEF Agrees, Covers, RecordIsTrue, OnlySystemFails
  <2>. QED
    BY <2>6, <2>7, <2>8, <2>9, Zenon DEF IInv
<1>. QED
  BY <1>1, <1>2, Zenon DEF CreateBitbltChain

LEMMA FirstTargetInv ==
  ASSUME IInv, FirstTarget
  PROVE  IInv'
<1>1. /\ stage = "target" /\ stage' = "open"
      /\ CreateRenderTarget(com)
      /\ faults' = (faults \/ render_target' = "null")
      /\ UNCHANGED <<parts, policy, swap, resize_failures, system, answer>>
  BY DEF FirstTarget
<1>2. /\ device /\ context /\ chain /\ render_target = "null"
      /\ resize_failures = 0 /\ largest = NoSize /\ asked = NoSize
  BY <1>1 DEF IInv, Stages
<1>3. com = Exactly(device, context, waitable, chain, FALSE)
  <2>1. (render_target = "live") = FALSE
    BY <1>2
  <2>. QED
    BY <2>1, Zenon DEF IInv, Counted
<1>4. /\ render_target' \in {"null", "live"}
      /\ com' = Exactly(device, context, waitable, chain, render_target' = "live")
  <2>1. /\ device \in BOOLEAN /\ context \in BOOLEAN
        /\ waitable \in BOOLEAN /\ chain \in BOOLEAN
    BY Fields, Zenon DEF IInv
  <2>. QED
    BY <1>1, <1>3, <2>1, Retargeted, Zenon
<1>5. Counted'
  BY <1>1, <1>4, Zenon DEF Counted, parts
<1>6. TypeOK'
  <2>1. (render_target' = "live") \in BOOLEAN
    OBVIOUS
  <2>2. com' \in Held
    BY <1>4, <2>1, Fields, ExactlyIsHeld, Zenon DEF IInv
  <2>. QED
    BY <1>1, <1>4, <2>2 DEF IInv, TypeOK, parts, policy, answer
<1>7. Stages'
  BY <1>1, <1>2 DEF Stages, parts
<1>8. Agrees' /\ Covers'
  BY <1>1 DEF IInv, Agrees, Covers, RecordIsTrue, parts, policy, answer
<1>9. OnlySystemFails'
  BY <1>1, <1>2, <1>4 DEF OnlySystemFails
<1>. QED
  BY <1>5, <1>6, <1>7, <1>8, <1>9, Zenon DEF IInv

-----------------------------------------------------------------------------
(* prepare_size()                                                          *)

\* The kit never breaks DXGI's rules: the target is given back first, and the
\* flags are those of the chain.
LEMMA NeverMisused ==
  ASSUME IInv, stage = "open"
  PROVE  /\ ~Misused /\ chain
         /\ Cleaned(com) = Exactly(device, context, waitable, chain, FALSE)
<1>1. Cleaned(com) = Exactly(device, context, waitable, chain, FALSE)
  BY CleanedIsExact, Zenon DEF IInv
<1>2. Cleaned(com).target = 0
  <2>1. Cleaned(com)
          = Refs(One(device), One(context), One(waitable), One(chain), 0)
    BY <1>1, OneIsANumber, Zenon DEF Exactly
  <2>2. Refs(One(device), One(context), One(waitable), One(chain), 0).target = 0
    BY DEF Refs
  <2>. QED
    BY <2>1, <2>2, Zenon
<1>3. chain
  BY DEF IInv, Stages
<1>. QED
  BY <1>1, <1>2, <1>3, Zenon DEF Misused, IInv, Agrees

\* What both outcomes of a resize share.
LEMMA TargetFollows ==
  ASSUME IInv, stage = "open", NEW size \in Size,
         UNCHANGED <<stage, parts, policy>>,
         ResizeSucceeds(size) \/ ResizeFails
  PROVE  /\ Counted' /\ com' \in Held
         /\ render_target' \in {"null", "live"}
         /\ resize_failures' \in 0 .. MaxFailures
         /\ faults' \in BOOLEAN
         /\ OnlySystemFails'
<1>1. ~Misused /\ Cleaned(com) = Exactly(device, context, waitable, chain, FALSE)
  BY NeverMisused
<1>2. CreateRenderTarget(Cleaned(com))
  BY DEF ResizeSucceeds, ResizeFails
<1>3. /\ device \in BOOLEAN /\ context \in BOOLEAN
      /\ waitable \in BOOLEAN /\ chain \in BOOLEAN
  BY Fields, Zenon DEF IInv
<1>4. /\ render_target' \in {"null", "live"}
      /\ com' = Exactly(device, context, waitable, chain, render_target' = "live")
  BY <1>1, <1>2, <1>3, Retargeted, Zenon
<1>5. Counted'
  BY <1>4, Zenon DEF Counted, parts
<1>6. com' \in Held
  <2>1. (render_target' = "live") \in BOOLEAN
    OBVIOUS
  <2>. QED
    BY <1>3, <1>4, <2>1, ExactlyIsHeld, Zenon
<1>7. resize_failures' \in 0 .. MaxFailures
  BY LengthsArePositive
     DEF ResizeSucceeds, ResizeFails, IInv, TypeOK, LengthsArePositive
<1>8. faults' \in BOOLEAN
  BY DEF ResizeSucceeds, ResizeFails, IInv, TypeOK
<1>9. ASSUME ~faults' PROVE resize_failures' = 0 /\ render_target' = "live"
  <2>1. ResizeSucceeds(size) /\ resize_failures' = resize_failures /\ ~faults
    BY <1>1, <1>9 DEF ResizeSucceeds, ResizeFails
  <2>2. render_target' # "null"
    BY <1>9 DEF ResizeSucceeds, ResizeFails
  <2>. QED
    BY <1>4, <2>1, <2>2 DEF IInv, OnlySystemFails
<1>. QED
  BY <1>4, <1>5, <1>6, <1>7, <1>8, <1>9 DEF OnlySystemFails

LEMMA BuffersFollow ==
  ASSUME IInv, NEW size \in Size, ResizeSucceeds(size)
  PROVE  /\ system' \in [flags : Flags, size : Size]
         /\ system'.size = size /\ system'.flags = system.flags
<1>1. system \in [flags : Flags, size : Size] /\ system' = [system EXCEPT !.size = size]
  BY DEF IInv, TypeOK, ResizeSucceeds
<1>. QED
  BY <1>1, SystemResized, Zenon

LEMMA EnoughAlreadyInv ==
  ASSUME IInv, NEW size \in WindowSize, stage = "open", EnoughAlready(size),
         UNCHANGED <<stage, parts, policy>>
  PROVE  IInv'
<1>1. /\ scaling_none /\ Fits(size, swap)
      /\ UNCHANGED <<render_target, swap, resize_failures, com, system, faults>>
  BY DEF EnoughAlready
<1>2. /\ size \in Size /\ largest \in Size /\ swap \in Size /\ ~Fits(size, NoSize)
  BY WindowSizes DEF IInv, TypeOK
<1>3. /\ asked' = size /\ largest' = Hull(largest, size)
      /\ failed' = FALSE /\ go_on' \in BOOLEAN
  BY DEF EnoughAlready, Answered
<1>4. Fits(largest', swap)
  BY <1>1, <1>2, <1>3, HullIsLeast DEF IInv, Agrees
<1>5. asked' \in Size /\ largest' \in Size
  BY <1>2, <1>3, HullIsASize
<1>6. swap = system.size
  <2>1. chain /\ swap # NoSize
    BY <1>1, <1>2, NeverMisused, Zenon
  <2>. QED
    BY <1>1, <2>1 DEF IInv, Covers, RecordIsTrue
<1>. USE <1>1 DEF parts, policy
<1>7. TypeOK'
  BY <1>3, <1>5 DEF IInv, TypeOK
<1>8. Stages'
  BY DEF IInv, Stages
<1>9. Counted'
  BY DEF IInv, Counted
<1>10. Agrees' /\ Covers'
  BY <1>3, <1>4, <1>6 DEF IInv, Agrees, Covers, RecordIsTrue
<1>11. OnlySystemFails'
  BY DEF IInv, OnlySystemFails
<1>. QED
  BY <1>7, <1>8, <1>9, <1>10, <1>11, Zenon DEF IInv

LEMMA EnsureAtLeastInv ==
  ASSUME IInv, NEW size \in WindowSize, stage = "open", EnsureAtLeast(size),
         UNCHANGED <<stage, parts, policy>>
  PROVE  IInv'
<1>1. scaling_none
  BY DEF EnsureAtLeast
<1>2. size \in Size /\ largest \in Size /\ swap \in Size
  BY WindowSizes DEF IInv, TypeOK
<1>3. CASE /\ ResizeSucceeds(Grown(size)) /\ swap' = Grown(size)
           /\ Answered(size, TRUE, TRUE)
  <2>1. /\ Grown(size) \in Size
        /\ Fits(swap, Grown(size)) /\ Fits(size, Grown(size))
    BY <1>2, HullIsASize DEF Grown
  <2>2. Fits(largest, Grown(size))
    BY <1>1, <1>2, <2>1, FitsIsTransitive DEF IInv, Agrees
  <2>3. /\ asked' = size /\ largest' = Hull(largest, size)
        /\ failed' = FALSE /\ go_on' \in BOOLEAN
    BY <1>3 DEF Answered
  <2>4. asked' \in Size /\ largest' \in Size /\ Fits(largest', Grown(size))
    BY <1>2, <2>1, <2>2, <2>3, HullIsASize, HullIsLeast
  <2>5. /\ system' \in [flags : Flags, size : Size]
        /\ system'.size = Grown(size) /\ system'.flags = system.flags
    BY <1>3, <2>1, BuffersFollow
  <2>6. /\ Counted' /\ com' \in Held
        /\ render_target' \in {"null", "live"}
        /\ resize_failures' \in 0 .. MaxFailures
        /\ faults' \in BOOLEAN
        /\ OnlySystemFails'
    BY <1>3, <2>1, TargetFollows
  <2>7. TypeOK'
    BY <1>3, <2>1, <2>3, <2>4, <2>5, <2>6 DEF IInv, TypeOK, parts, policy
  <2>8. Stages'
    BY DEF IInv, Stages, parts, policy
  <2>9. Agrees' /\ Covers'
    BY <1>1, <1>3, <2>1, <2>3, <2>4, <2>5
       DEF IInv, Agrees, Covers, RecordIsTrue, parts, policy
  <2>. QED
    BY <2>6, <2>7, <2>8, <2>9, Zenon DEF IInv
<1>4. CASE /\ ResizeFails /\ swap' = Recorded(size)
           /\ Answered(size, FALSE, render_target' = "live")
  <2>1. /\ swap' = swap /\ system' = system /\ largest' = largest
        /\ asked' = size /\ failed' = TRUE /\ go_on' \in BOOLEAN
    BY <1>4 DEF Recorded, ResizeFails, Answered
  <2>2. /\ Counted' /\ com' \in Held
        /\ render_target' \in {"null", "live"}
        /\ resize_failures' \in 0 .. MaxFailures
        /\ faults' \in BOOLEAN
        /\ OnlySystemFails'
    BY <1>2, <1>4, TargetFollows
  <2>3. TypeOK'
    BY <1>2, <2>1, <2>2 DEF IInv, TypeOK, parts, policy
  <2>4. Stages'
    BY DEF IInv, Stages, parts, policy
  <2>5. Agrees' /\ Covers'
    BY <2>1 DEF IInv, Agrees, Covers, RecordIsTrue, parts, policy
  <2>. QED
    BY <2>2, <2>3, <2>4, <2>5, Zenon DEF IInv
<1>. QED
  BY <1>3, <1>4, Zenon DEF EnsureAtLeast

LEMMA ResizeExactInv ==
  ASSUME IInv, NEW size \in WindowSize, stage = "open", ResizeExact(size),
         UNCHANGED <<stage, parts, policy>>
  PROVE  IInv'
<1>1. ~scaling_none /\ swap' = swap
  BY DEF ResizeExact
<1>2. size \in Size /\ largest \in Size
  BY WindowSizes DEF IInv, TypeOK
<1>3. ResizeSucceeds(size) \/ ResizeFails
  BY DEF ResizeExact
<1>4. /\ Counted' /\ com' \in Held
      /\ render_target' \in {"null", "live"}
      /\ resize_failures' \in 0 .. MaxFailures
      /\ faults' \in BOOLEAN
      /\ OnlySystemFails'
  BY <1>2, <1>3, TargetFollows
<1>5. /\ system' \in [flags : Flags, size : Size]
      /\ system'.flags = system.flags
      /\ asked' \in Size /\ largest' \in Size
      /\ failed' \in BOOLEAN /\ go_on' \in BOOLEAN
      /\ failed' \/ asked' = system'.size
  <2>1. CASE ResizeSucceeds(size) /\ Answered(size, TRUE, render_target' = "live")
    BY <1>2, <2>1, BuffersFollow, HullIsASize DEF Answered
  <2>2. CASE ResizeFails /\ Answered(size, FALSE, render_target' = "live")
    BY <1>1, <1>2, <2>2 DEF ResizeFails, Answered, IInv, TypeOK
  <2>. QED
    BY <2>1, <2>2 DEF ResizeExact
<1>6. TypeOK'
  BY <1>1, <1>4, <1>5 DEF IInv, TypeOK, parts, policy
<1>7. Stages'
  BY DEF IInv, Stages, parts, policy
<1>8. Agrees' /\ Covers'
  BY <1>1, <1>5 DEF IInv, Agrees, Covers, RecordIsTrue, parts, policy
<1>. QED
  BY <1>4, <1>6, <1>7, <1>8, Zenon DEF IInv

LEMMA PrepareSizeInv ==
  ASSUME IInv, NEW size \in WindowSize, PrepareSize(size)
  PROVE  IInv'
  BY EnoughAlreadyInv, EnsureAtLeastInv, ResizeExactInv DEF PrepareSize

LEMMA ResetResizeStatsInv ==
  ASSUME IInv, ResetResizeStats
  PROVE  IInv'
<1>. USE DEF ResetResizeStats, parts, policy, answer
<1>1. TypeOK'
  BY LengthsArePositive DEF IInv, TypeOK, LengthsArePositive
<1>2. Stages'
  BY DEF IInv, Stages
<1>3. Counted'
  BY DEF IInv, Counted
<1>4. Agrees' /\ Covers' /\ OnlySystemFails'
  BY DEF IInv, Agrees, Covers, RecordIsTrue, OnlySystemFails
<1>. QED
  BY <1>1, <1>2, <1>3, <1>4, Zenon DEF IInv

-----------------------------------------------------------------------------
(* The theorems                                                            *)

LEMMA StartsTrue == Init => IInv
<1>. SUFFICES ASSUME Init PROVE IInv
  OBVIOUS
<1>1. Counted
  <2>1. (render_target = "live") = FALSE
    BY DEF Init
  <2>. QED
    BY <2>1, NothingIsExact, Zenon DEF Init, Counted
<1>2. TypeOK
  <2>1. com \in Held
    BY NothingIsExact, ExactlyIsHeld, Zenon DEF Init
  <2>2. NoSize \in Size /\ NoChain \in [flags : Flags, size : Size]
    BY WindowSizes, SystemIs, Zenon
  <2>3. 0 \in 0 .. MaxFailures
    BY LengthsArePositive DEF LengthsArePositive
  <2>. QED
    BY <2>1, <2>2, <2>3 DEF Init, TypeOK, Flags
<1>3. Stages /\ Agrees /\ Covers /\ OnlySystemFails
  BY DEF Init, Stages, Agrees, Covers, RecordIsTrue, OnlySystemFails
<1>. QED
  BY <1>1, <1>2, <1>3, Zenon DEF IInv

LEMMA StaysTrue == IInv /\ [Next]_vars => IInv'
<1>. SUFFICES ASSUME IInv, [Next]_vars PROVE IInv'
  OBVIOUS
<1>1. CASE UNCHANGED vars
  <2>. USE <1>1 DEF vars, parts, policy, answer
  <2>1. TypeOK' /\ Stages'
    BY DEF IInv, TypeOK, Stages
  <2>2. Counted'
    BY DEF IInv, Counted
  <2>3. Agrees' /\ Covers' /\ OnlySystemFails'
    BY DEF IInv, Agrees, Covers, RecordIsTrue, OnlySystemFails
  <2>. QED
    BY <2>1, <2>2, <2>3, Zenon DEF IInv
<1>. QED
  BY <1>1, CreateInv, CreateDeviceInv, CreateFlipChainInv, CreateBitbltChainInv,
     FirstTargetInv, DestroyInv, PrepareSizeInv, ResetResizeStatsInv, Zenon DEF Next

LEMMA AlwaysTrue == Spec => []IInv
  BY StartsTrue, StaysTrue, PTL DEF Spec

\* Whatever call of Direct3D fails, while the kit is made, at a resize or not
\* at all, the kit holds exactly what its fields say, and nothing once it is
\* destroyed.
THEOREM HoldsWhatItNames == Spec => []ReferencesBalanced
<1>1. ASSUME IInv PROVE ReferencesBalanced
  <2>1. /\ com = Exactly(device, context, waitable, chain, render_target = "live")
        /\ TypeOK
    BY <1>1, Zenon DEF IInv, Counted
  <2>2. /\ com.device = One(device)
        /\ com.context = One(context)
        /\ com.waitable = One(waitable)
        /\ com.chain = One(chain)
        /\ com.target = One(render_target = "live")
    BY <2>1, Zenon DEF Exactly, Refs
  <2>3. ASSUME stage = "none" PROVE com = Nothing
    <3>1. /\ ~device /\ ~context /\ ~waitable /\ ~chain /\ render_target = "null"
      BY <1>1, <2>3 DEF IInv, Stages
    <3>2. /\ device = FALSE /\ context = FALSE /\ waitable = FALSE
          /\ chain = FALSE /\ (render_target = "live") = FALSE
      BY <2>1, <3>1, Fields
    <3>. QED
      BY <2>1, <3>2, NothingIsExact, Zenon
  <2>. QED
    BY <2>1, <2>2, <2>3, Zenon DEF ReferencesBalanced
<1>. QED
  BY <1>1, AlwaysTrue, PTL

\* For windows of every size and resizes that fail in every order, the buffers
\* of a 1:1 chain cover every size whose own resize did not fail twice, and those
\* of a stretched chain are of the size last asked unless that resize failed.
THEOREM OnlyFailedResizesCutOff == Spec => []BuffersCover
<1>1. IInv => BuffersCover
  BY Zenon DEF IInv, Covers, BuffersCover
<1>. QED
  BY <1>1, AlwaysTrue, PTL

\* As long as Direct3D fails no call, no resize fails and there is a target.
THEOREM NeverFailsItself == Spec => []OnlySystemFails
<1>1. IInv => OnlySystemFails
  BY Zenon DEF IInv
<1>. QED
  BY <1>1, AlwaysTrue, PTL

=============================================================================
