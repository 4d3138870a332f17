-------------------------- MODULE HostObjectsProofs --------------------------
(***************************************************************************)
(* What host and plugin may rely on, for any number of threads, owners and *)
(* objects: every object is counted as often as it is pointed to, no       *)
(* object outlives the module with its code, and whoever can reach a host  *)
(* services object finds the router it lends out.                          *)
(*                                                                         *)
(* References change hands in two ways: a variable, the detached pointer   *)
(* or a debt of a thread points to an object, or another object holds it.  *)
(* The first are counted here as `ext`, the second read off the heap; each *)
(* operation on the heap is a lemma that says what it needs `ext` to be.   *)
(***************************************************************************)
EXTENDS HostObjects, FiniteSetTheorems, TLAPS

-----------------------------------------------------------------------------
(* Counting pointers                                                       *)

Same(a, b) == IF a = b THEN 1 ELSE 0
Count(D, f, x) == Cardinality({d \in D : f[d] = x})

\* The pointers from outside the heap to each object.
Ext(ow, r, od) ==
  [x \in All |-> Count(Vars, ow, x) + Same(r, x) + Count(Threads, od, x)]
ext == Ext(owner, raw, owed)

Holders(h, x) == Cardinality({p \in Objects : h[p].holds = x})

\* One more pointer to o, if o is an object.
Plus(e, o) == [x \in All |-> e[x] + Same(x, o)]

-----------------------------------------------------------------------------
(* The inductive invariant                                                 *)

\* Heap h is balanced when e points to it from outside; services are held by
\* their UI wrapper and by plugins, a plugin by its service, these by nobody.
Balanced(h, e) ==
  \A o \in Objects :
    /\ h[o].refs = e[o] + Holders(h, o)
    /\ h[o].kind = "free" <=> e[o] + Holders(h, o) = 0

Held(h) ==
  \A p \in Objects :
    /\ h[p].kind # "factory"
    /\ h[p].holds # Null =>
         \/ h[p].kind \in {"ui", "plugin"} /\ h[h[p].holds].kind = "services"
         \/ h[p].kind = "service" /\ h[h[p].holds].kind = "plugin"

HeapOK(h, e) == h \in [All -> Object] /\ Balanced(h, e) /\ Held(h)

\* The factory is there while the module is mapped, counted by the module's
\* entry, by each load and by those who point to it.
FactoryInv ==
  /\ Mapped =>
       /\ heap[Factory].kind = "factory"
       /\ heap[Factory].refs = 1 + (IF module THEN 1 ELSE 0) + pinned + leaked + ext[Factory]
  /\ ~Mapped => heap[Factory].kind = "free" /\ leaked = 0 /\ ext[Factory] = 0
  /\ leaked > 0 => pinned > 0

\* The host still owns a router that some services refer to.
RouterInv ==
  \A o \in Objects :
    heap[o].kind = "services" /\ heap[o].extra_qi_ctx # Null =>
      /\ heap[heap[o].extra_qi_ctx].kind = "router"
      /\ \E v \in Vars : ThreadOf[v] = HostThread /\ owner[v] = heap[o].extra_qi_ctx

IInv ==
  /\ TypeOK
  /\ HeapOK(heap, ext)
  /\ FactoryInv
  /\ CodeOutlivesObjects
  /\ RouterInv

-----------------------------------------------------------------------------
(* What changes when a pointer does                                        *)

LEMMA CountNat ==
  ASSUME NEW D, IsFiniteSet(D), NEW f, NEW x
  PROVE  /\ Count(D, f, x) \in Nat
         /\ Count(D, f, x) = 0 <=> \A d \in D : f[d] # x
<1> DEFINE A == {d \in D : f[d] = x}
<1>1. IsFiniteSet(A)
  BY FS_Subset
<1>2. Cardinality(A) \in Nat /\ (Cardinality(A) = 0 <=> A = {})
  BY <1>1, FS_CardinalityType, FS_EmptySet
<1>. QED
  BY <1>2 DEF Count

\* Functions f and g on D differ only in d.
OnlyAt(D, d, f, g) == d \in D /\ \A c \in D : c # d => g[c] = f[c]

\* Then one count falls and one rises, unless they are the same.
Shifts(D, d, f, g, x) ==
  Count(D, g, x) + Same(f[d], x) = Count(D, f, x) + Same(g[d], x)

LEMMA CountUpdate ==
  ASSUME NEW D, IsFiniteSet(D), NEW f, NEW g, NEW d, OnlyAt(D, d, f, g), NEW x
  PROVE  Shifts(D, d, f, g, x)
<1> DEFINE R == {c \in D \ {d} : f[c] = x}
           A == {c \in D : g[c] = x}
           B == {c \in D : f[c] = x}
<1> USE DEF OnlyAt
<1>1. IsFiniteSet(R) /\ d \notin R
  BY FS_Subset
<1>2. Cardinality(R) \in Nat /\ Cardinality(R \cup {d}) = Cardinality(R) + 1
  BY <1>1, FS_CardinalityType, FS_AddElement
<1>3. A = IF g[d] = x THEN R \cup {d} ELSE R
  OBVIOUS
<1>4. B = IF f[d] = x THEN R \cup {d} ELSE R
  OBVIOUS
<1>5. Count(D, g, x) = Cardinality(A) /\ Count(D, f, x) = Cardinality(B)
  BY DEF Count
<1> HIDE DEF R, A, B
<1>. QED
  BY <1>2, <1>3, <1>4, <1>5 DEF Same, Shifts

LEMMA ExtNat ==
  ASSUME NEW ow, NEW r, NEW od
  PROVE  Ext(ow, r, od) \in [All -> Nat]
<1>1. ASSUME NEW x \in All
      PROVE  Count(Vars, ow, x) + Same(r, x) + Count(Threads, od, x) \in Nat
  <2>1. Count(Vars, ow, x) \in Nat /\ Count(Threads, od, x) \in Nat
    BY CountNat, ObjectsConstants DEF ObjectsConstants
  <2>. QED
    BY <2>1 DEF Same
<1>. QED
  BY <1>1 DEF Ext

\* Nothing points to what no variable, no detached pointer and no debt points to.
LEMMA ExtZero ==
  ASSUME NEW x \in All
  PROVE  ext[x] = 0 <=> /\ \A v \in Vars : owner[v] # x
                        /\ raw # x
                        /\ \A t \in Threads : owed[t] # x
<1>1. ext[x] = Count(Vars, owner, x) + Same(raw, x) + Count(Threads, owed, x)
  BY DEF ext, Ext
<1>2. /\ Count(Vars, owner, x) \in Nat
      /\ Count(Vars, owner, x) = 0 <=> \A v \in Vars : owner[v] # x
  BY CountNat, ObjectsConstants DEF ObjectsConstants
<1>3. /\ Count(Threads, owed, x) \in Nat
      /\ Count(Threads, owed, x) = 0 <=> \A t \in Threads : owed[t] # x
  BY CountNat, ObjectsConstants DEF ObjectsConstants
<1>. QED
  BY <1>1, <1>2, <1>3 DEF Same

LEMMA PlusNat ==
  ASSUME NEW e \in [All -> Nat], NEW o
  PROVE  /\ Plus(e, o) \in [All -> Nat]
         /\ \A x \in All : Plus(e, o)[x] = e[x] + (IF x = o THEN 1 ELSE 0)
BY DEF Plus, Same

LEMMA PlusNull ==
  ASSUME NEW e \in [All -> Nat]
  PROVE  Plus(e, Null) = e
BY ObjectsConstants DEF ObjectsConstants, All, Plus, Same

LEMMA PlusSwap ==
  ASSUME NEW e \in [All -> Nat], NEW o, NEW s
  PROVE  Plus(Plus(e, o), s) = Plus(Plus(e, s), o)
BY DEF Plus, Same

LEMMA ReceivesExt ==
  ASSUME TypeOK, NEW v \in Vars, NEW o, Idle(ThreadOf[v]), Receives(v, o), raw' = raw
  PROVE  ext' = Plus(ext, o)
<1> DEFINE t == ThreadOf[v]
<1>1. t \in Threads /\ owed[t] = Null
  BY ObjectsConstants DEF ObjectsConstants, Idle
<1>2. IsFiniteSet(Vars) /\ IsFiniteSet(Threads) /\ Null \notin All
  BY ObjectsConstants DEF ObjectsConstants, All
<1>3. owner'[v] = o /\ OnlyAt(Vars, v, owner, owner')
  BY DEF TypeOK, OnlyAt, Receives
<1>4. owed'[t] = owner[v] /\ OnlyAt(Threads, t, owed, owed')
  BY <1>1 DEF TypeOK, OnlyAt, Receives
<1> HIDE DEF t
<1>5. ASSUME NEW x \in All
      PROVE  Count(Vars, owner', x) + Same(raw', x) + Count(Threads, owed', x)
               = Count(Vars, owner, x) + Same(raw, x) + Count(Threads, owed, x) + Same(x, o)
  <2>1. Shifts(Vars, v, owner, owner', x)
    BY <1>2, <1>3, CountUpdate
  <2>2. Shifts(Threads, t, owed, owed', x)
    BY <1>1, <1>2, <1>4, CountUpdate
  <2>3. /\ Count(Vars, owner', x) \in Nat /\ Count(Vars, owner, x) \in Nat
        /\ Count(Threads, owed', x) \in Nat /\ Count(Threads, owed, x) \in Nat
    BY <1>2, CountNat
  <2>. QED
    BY <1>1, <1>2, <1>3, <1>4, <2>1, <2>2, <2>3 DEF Same, Shifts
<1>. QED
  BY <1>5 DEF ext, Ext, Plus

\* A step that moves pointers around moves none in or out.
LEMMA MoveExt ==
  ASSUME TypeOK, NEW u \in Vars, NEW v \in Vars, u # v, Idle(ThreadOf[u]),
         owner' = [owner EXCEPT ![u] = owner[v], ![v] = Null],
         owed' = [owed EXCEPT ![ThreadOf[u]] = owner[u]], raw' = raw
  PROVE  ext' = ext
<1> DEFINE t == ThreadOf[u]  mid == [owner EXCEPT ![u] = owner[v]]
<1>1. t \in Threads /\ owed[t] = Null
  BY ObjectsConstants DEF ObjectsConstants, Idle
<1>2. IsFiniteSet(Vars) /\ IsFiniteSet(Threads) /\ Null \notin All
  BY ObjectsConstants DEF ObjectsConstants, All
<1>3. mid[u] = owner[v] /\ OnlyAt(Vars, u, owner, mid)
  BY DEF TypeOK, OnlyAt
<1>4. owner'[v] = Null /\ OnlyAt(Vars, v, mid, owner')
  BY DEF TypeOK, OnlyAt
<1>5. owed'[t] = owner[u] /\ OnlyAt(Threads, t, owed, owed')
  BY <1>1 DEF TypeOK, OnlyAt
<1> HIDE DEF t, mid
<1>6. ASSUME NEW x \in All
      PROVE  Count(Vars, owner', x) + Same(raw', x) + Count(Threads, owed', x)
               = Count(Vars, owner, x) + Same(raw, x) + Count(Threads, owed, x)
  <2>1. Shifts(Vars, u, owner, mid, x)
    BY <1>2, <1>3, CountUpdate
  <2>2. Shifts(Vars, v, mid, owner', x)
    BY <1>2, <1>4, CountUpdate
  <2>3. Shifts(Threads, t, owed, owed', x)
    BY <1>1, <1>2, <1>5, CountUpdate
  <2>4. /\ Count(Vars, owner', x) \in Nat /\ Count(Vars, owner, x) \in Nat
        /\ Count(Threads, owed', x) \in Nat /\ Count(Threads, owed, x) \in Nat
        /\ Count(Vars, mid, x) \in Nat
    BY <1>2, CountNat
  <2>5. mid[v] = owner[v] /\ Null # x
    BY <1>2, <1>3 DEF OnlyAt
  <2>. QED
    BY <1>1, <1>3, <1>4, <1>5, <2>1, <2>2, <2>3, <2>4, <2>5 DEF Same, Shifts
<1>. QED
  BY <1>6 DEF ext, Ext

\* The detached pointer is a pointer like a variable's.
LEMMA RawExt ==
  ASSUME TypeOK, NEW v \in Vars, UNCHANGED owed,
         owner' = [owner EXCEPT ![v] = raw], raw' = owner[v]
  PROVE  ext' = ext
<1>1. owner'[v] = raw /\ OnlyAt(Vars, v, owner, owner')
  BY DEF TypeOK, OnlyAt
<1>2. IsFiniteSet(Vars) /\ IsFiniteSet(Threads)
  BY ObjectsConstants DEF ObjectsConstants
<1>3. ASSUME NEW x \in All
      PROVE  Count(Vars, owner', x) + Same(raw', x) + Count(Threads, owed', x)
               = Count(Vars, owner, x) + Same(raw, x) + Count(Threads, owed, x)
  <2>1. Shifts(Vars, v, owner, owner', x)
    BY <1>1, <1>2, CountUpdate
  <2>2. /\ Count(Vars, owner', x) \in Nat /\ Count(Vars, owner, x) \in Nat
        /\ Count(Threads, owed, x) \in Nat
    BY <1>2, CountNat
  <2>. QED
    BY <1>1, <2>1, <2>2 DEF Same, Shifts
<1>. QED
  BY <1>3 DEF ext, Ext

\* A debt is paid, and perhaps another made.
LEMMA OwedExt ==
  ASSUME TypeOK, NEW t \in Threads, NEW s, owed' = [owed EXCEPT ![t] = s],
         UNCHANGED <<owner, raw>>
  PROVE  Plus(ext', owed[t]) = Plus(ext, s)
<1>1. owed'[t] = s /\ OnlyAt(Threads, t, owed, owed')
  BY DEF TypeOK, OnlyAt
<1>2. IsFiniteSet(Vars) /\ IsFiniteSet(Threads)
  BY ObjectsConstants DEF ObjectsConstants
<1>3. ASSUME NEW x \in All
      PROVE  Count(Vars, owner', x) + Same(raw', x) + Count(Threads, owed', x) + Same(x, owed[t])
               = Count(Vars, owner, x) + Same(raw, x) + Count(Threads, owed, x) + Same(x, s)
  <2>1. Shifts(Threads, t, owed, owed', x)
    BY <1>1, <1>2, CountUpdate
  <2>2. /\ Count(Vars, owner, x) \in Nat /\ Count(Threads, owed', x) \in Nat
        /\ Count(Threads, owed, x) \in Nat
    BY <1>2, CountNat
  <2>. QED
    BY <1>1, <2>1, <2>2 DEF Same, Shifts
<1>. QED
  BY <1>3 DEF ext, Ext, Plus

-----------------------------------------------------------------------------
(* What operations do to a balanced heap                                   *)

LEMMA HoldersNat ==
  ASSUME NEW h, NEW x
  PROVE  /\ Holders(h, x) \in Nat
         /\ Holders(h, x) = 0 <=> \A p \in Objects : h[p].holds # x
<1> DEFINE f == [p \in Objects |-> h[p].holds]
<1>1. Holders(h, x) = Count(Objects, f, x)
  BY DEF Holders, Count
<1>2. \A p \in Objects : f[p] = h[p].holds
  OBVIOUS
<1>3. IsFiniteSet(Objects)
  BY ObjectsConstants DEF ObjectsConstants
<1> HIDE DEF f
<1>4. Count(Objects, f, x) \in Nat /\ (Count(Objects, f, x) = 0 <=> \A p \in Objects : f[p] # x)
  BY <1>3, CountNat
<1>. QED
  BY <1>1, <1>2, <1>4

\* What is held elsewhere than in p stays, what p holds changes.
LEMMA HoldersUpdate ==
  ASSUME NEW h, NEW g, NEW p \in Objects, \A q \in Objects : q # p => g[q] = h[q], NEW x
  PROVE  Holders(g, x) + Same(h[p].holds, x) = Holders(h, x) + Same(g[p].holds, x)
<1> DEFINE f == [q \in Objects |-> h[q].holds]  k == [q \in Objects |-> g[q].holds]
<1>1. Holders(h, x) = Count(Objects, f, x) /\ Holders(g, x) = Count(Objects, k, x)
  BY DEF Holders, Count
<1>2. f[p] = h[p].holds /\ k[p] = g[p].holds /\ OnlyAt(Objects, p, f, k)
  BY DEF OnlyAt
<1>3. IsFiniteSet(Objects)
  BY ObjectsConstants DEF ObjectsConstants
<1> HIDE DEF f, k
<1>4. Shifts(Objects, p, f, k, x)
  BY <1>2, <1>3, CountUpdate
<1>. QED
  BY <1>1, <1>2, <1>4 DEF Shifts

LEMMA HoldersSame ==
  ASSUME NEW h, NEW g, \A p \in Objects : g[p].holds = h[p].holds, NEW x
  PROVE  Holders(g, x) = Holders(h, x)
BY DEF Holders

\* Heap g differs from h in o only, which is x.
Updates(g, h, o, x) ==
  /\ g \in [All -> Object]
  /\ g[o] = x
  /\ \A q \in All : q # o => g[q] = h[q]

LEMMA Updated ==
  ASSUME NEW h \in [All -> Object], NEW o \in All, NEW x \in Object
  PROVE  Updates([h EXCEPT ![o] = x], h, o, x)
BY DEF Updates

LEMMA Names ==
  /\ Objects \subseteq All /\ Factory \in All /\ Factory \notin Objects
  /\ Null \notin All /\ Null \notin Objects /\ Null # Factory
BY ObjectsConstants DEF ObjectsConstants, All

\* Only what points to something makes it live.
LEMMA LiveIfPointed ==
  ASSUME NEW h, NEW e \in [All -> Nat], HeapOK(h, e), NEW o \in Objects
  PROVE  /\ e[o] > 0 => h[o].kind # "free"
         /\ \A p \in Objects : h[p].holds = o => h[o].kind # "free"
         /\ h[o].kind = "free" => e[o] = 0 /\ \A p \in Objects : h[p].holds # o
         /\ h[o].kind # "free" /\ e[o] = 0 => \E p \in Objects : h[p].holds = o
<1>1. e[o] \in Nat /\ Holders(h, o) \in Nat
      /\ (Holders(h, o) = 0 <=> \A p \in Objects : h[p].holds # o)
  BY HoldersNat, Names
<1>2. h[o].kind = "free" <=> e[o] + Holders(h, o) = 0
  BY DEF HeapOK, Balanced
<1>3. h[o].kind = "free" <=> e[o] = 0 /\ \A p \in Objects : h[p].holds # o
  BY <1>1, <1>2
<1>. QED
  BY <1>1, <1>3

LEMMA HeldIsObject ==
  ASSUME NEW h \in [All -> Object], NEW p \in All
  PROVE  /\ h[p] \in Object /\ h[p].holds \in Objects \cup {Null}
         /\ h[p].extra_qi_ctx \in Objects \cup {Null} /\ h[p].refs \in Int
         /\ h[p].kind \in Kinds \cup {"free"}
BY DEF Object

\* The factory is no object of the heap's own.
LEMMA HeapFactory ==
  ASSUME NEW h, NEW e \in [All -> Nat], HeapOK(h, e), NEW e1 \in [All -> Nat],
         \A o \in Objects : e1[o] = e[o],
         NEW x, NEW g, Updates(g, h, Factory, x)
  PROVE  HeapOK(g, e1)
<1>1. \A o \in Objects : g[o] = h[o]
  BY Names DEF Updates
<1>2. \A o \in Objects : Holders(g, o) = Holders(h, o)
  BY <1>1, HoldersSame
<1>3. Balanced(g, e1)
  BY <1>1, <1>2 DEF HeapOK, Balanced
<1>4. \A p \in Objects : h[p].holds \in Objects \cup {Null}
  BY Names, HeldIsObject DEF HeapOK
<1>5. Held(g)
  BY <1>1, <1>4 DEF HeapOK, Held
<1>. QED
  BY <1>3, <1>5 DEF HeapOK, Updates

\* A step that changes neither references nor what is held.
LEMMA HeapSame ==
  ASSUME NEW h, NEW e \in [All -> Nat], HeapOK(h, e), NEW g \in [All -> Object],
         \A o \in Objects :
           g[o].refs = h[o].refs /\ g[o].holds = h[o].holds /\ g[o].kind = h[o].kind
  PROVE  HeapOK(g, e)
<1>1. \A o \in Objects : Holders(g, o) = Holders(h, o)
  BY HoldersSame
<1>2. Balanced(g, e)
  BY <1>1 DEF HeapOK, Balanced
<1>3. \A p \in Objects : h[p].holds \in Objects \cup {Null}
  BY Names, HeldIsObject DEF HeapOK
<1>4. Held(g)
  BY <1>3 DEF HeapOK, Held
<1>. QED
  BY <1>2, <1>4 DEF HeapOK

\* One more reference, one more pointer; one less, one less.
LEMMA HeapCounts ==
  ASSUME NEW h, NEW e \in [All -> Nat], HeapOK(h, e), NEW e1 \in [All -> Nat],
         NEW o \in Objects, NEW x, NEW g, Updates(g, h, o, x),
         x.kind = h[o].kind, x.kind # "free", x.holds = h[o].holds,
         x.refs - h[o].refs = e1[o] - e[o], x.refs > 0,
         \A q \in Objects : q # o => e1[q] = e[q]
  PROVE  HeapOK(g, e1)
<1>1. g \in [All -> Object] /\ g[o] = x /\ \A q \in Objects : q # o => g[q] = h[q]
  BY Names DEF Updates
<1>2. /\ \A q \in Objects : g[q].holds = h[q].holds /\ g[q].kind = h[q].kind
      /\ \A q \in Objects : h[q].holds \in Objects \cup {Null}
  BY <1>1, Names, HeldIsObject DEF HeapOK
<1>3. \A q \in Objects : Holders(g, q) = Holders(h, q) /\ Holders(h, q) \in Nat
  BY <1>2, HoldersSame, HoldersNat
<1>4. ASSUME NEW q \in Objects
      PROVE  /\ g[q].refs = e1[q] + Holders(g, q)
             /\ g[q].kind = "free" <=> e1[q] + Holders(g, q) = 0
  <2>1. /\ h[q].refs = e[q] + Holders(h, q)
        /\ h[q].kind = "free" <=> e[q] + Holders(h, q) = 0
    BY DEF HeapOK, Balanced
  <2>2. CASE q # o
    BY <2>1, <2>2, <1>1, <1>3
  <2>3. CASE q = o
    <3>1. e[o] \in Nat /\ e1[o] \in Nat /\ h[o].refs \in Int /\ x.refs \in Int
      BY Names, <1>1, HeldIsObject DEF HeapOK
    <3>2. x.refs = e1[o] + Holders(h, o)
      BY <2>1, <2>3, <1>3, <3>1
    <3>. QED
      BY <2>3, <3>1, <3>2, <1>1, <1>3
  <2>. QED
    BY <2>2, <2>3
<1>5. Held(g)
  BY <1>2 DEF HeapOK, Held
<1>. QED
  BY <1>1, <1>4, <1>5 DEF HeapOK, Balanced

\* A new object, with the one pointer to it that its creator gets.
LEMMA HeapNew ==
  ASSUME NEW h, NEW e \in [All -> Nat], HeapOK(h, e),
         NEW o \in Objects, h[o].kind = "free", NEW x, NEW g, Updates(g, h, o, x),
         x.kind \notin {"free", "factory"}, x.refs = 1, x.holds = Null
  PROVE  HeapOK(g, Plus(e, o))
<1> DEFINE e1 == Plus(e, o)
<1>1. g \in [All -> Object] /\ g[o] = x /\ \A q \in Objects : q # o => g[q] = h[q]
  BY Names DEF Updates
<1>2. e1 \in [All -> Nat] /\ e1[o] = e[o] + 1 /\ \A q \in Objects : q # o => e1[q] = e[q]
  BY PlusNat, Names
<1> HIDE DEF e1
<1>3. e[o] = 0 /\ \A p \in Objects : h[p].holds # o
  BY LiveIfPointed
<1>4. h[o].holds = Null
  BY DEF HeapOK, Held
<1>5. \A p \in Objects : g[p].holds = h[p].holds /\ h[p].holds \in Objects \cup {Null}
  BY <1>1, <1>4, Names, HeldIsObject DEF HeapOK
<1>6. \A q \in Objects : Holders(g, q) = Holders(h, q) /\ Holders(h, q) \in Nat
  BY <1>5, HoldersSame, HoldersNat
<1>7. Holders(h, o) = 0
  BY <1>3, HoldersNat
<1>8. ASSUME NEW q \in Objects
      PROVE  /\ g[q].refs = e1[q] + Holders(g, q)
             /\ g[q].kind = "free" <=> e1[q] + Holders(g, q) = 0
  <2>1. /\ h[q].refs = e[q] + Holders(h, q)
        /\ h[q].kind = "free" <=> e[q] + Holders(h, q) = 0
    BY DEF HeapOK, Balanced
  <2>2. CASE q # o
    BY <2>1, <2>2, <1>1, <1>2, <1>6
  <2>3. CASE q = o
    BY <2>3, <1>1, <1>2, <1>3, <1>6, <1>7
  <2>. QED
    BY <2>2, <2>3
<1>9. Held(g)
  <2>1. ASSUME NEW p \in Objects
        PROVE  /\ g[p].kind # "factory"
               /\ g[p].holds # Null =>
                    \/ g[p].kind \in {"ui", "plugin"} /\ g[g[p].holds].kind = "services"
                    \/ g[p].kind = "service" /\ g[g[p].holds].kind = "plugin"
    <3>1. CASE p = o
      BY <3>1, <1>1
    <3>2. CASE p # o
      <4>1. g[p] = h[p] /\ g[p].holds # o
        BY <3>2, <1>1, <1>3
      <4>2. g[p].holds # Null => g[g[p].holds] = h[h[p].holds]
        BY <4>1, <1>1, <1>5
      <4>. QED
        BY <4>1, <4>2 DEF HeapOK, Held
    <3>. QED
      BY <3>1, <3>2
  <2>. QED
    BY <2>1 DEF Held
<1>. QED
  BY <1>1, <1>8, <1>9 DEF HeapOK, Balanced, e1

\* A pointer that is moved into an object that holds nothing yet.
LEMMA HeapHold ==
  ASSUME NEW h, NEW e \in [All -> Nat], NEW s \in Objects, HeapOK(h, Plus(e, s)),
         NEW p \in Objects, p # s, h[p].holds = Null, NEW x, NEW g, Updates(g, h, p, x),
         x.kind = h[p].kind, x.refs = h[p].refs, x.holds = s,
         \/ x.kind \in {"ui", "plugin"} /\ h[s].kind = "services"
         \/ x.kind = "service" /\ h[s].kind = "plugin"
  PROVE  HeapOK(g, e)
<1> DEFINE e1 == Plus(e, s)
<1>1. g \in [All -> Object] /\ g[p] = x /\ \A q \in Objects : q # p => g[q] = h[q]
  BY Names DEF Updates
<1>2. e1 \in [All -> Nat] /\ e1[s] = e[s] + 1 /\ \A q \in Objects : q # s => e1[q] = e[q]
  BY PlusNat, Names
<1>3. HeapOK(h, e1)
  OBVIOUS
<1> HIDE DEF e1
<1>4. ASSUME NEW q \in Objects
      PROVE  e1[q] + Holders(h, q) = e[q] + Holders(g, q)
  <2>1. Holders(g, q) + Same(Null, q) = Holders(h, q) + Same(s, q)
    BY <1>1, HoldersUpdate
  <2>2. Holders(h, q) \in Nat /\ Holders(g, q) \in Nat /\ Null # q
    BY HoldersNat, Names
  <2>3. e[q] \in Nat /\ e1[q] = e[q] + Same(s, q)
    BY <1>2, Names DEF Same
  <2>. QED
    BY <2>1, <2>2, <2>3 DEF Same
<1>5. \A q \in Objects : g[q].refs = h[q].refs /\ g[q].kind = h[q].kind
  BY <1>1
<1>6. Balanced(g, e)
  BY <1>3, <1>4, <1>5 DEF HeapOK, Balanced
<1>7. Held(g)
  <2>1. ASSUME NEW q \in Objects
        PROVE  /\ g[q].kind # "factory"
               /\ g[q].holds # Null =>
                    \/ g[q].kind \in {"ui", "plugin"} /\ g[g[q].holds].kind = "services"
                    \/ g[q].kind = "service" /\ g[g[q].holds].kind = "plugin"
    <3>1. CASE q = p
      <4>1. g[q].holds = s /\ g[s].kind = h[s].kind /\ g[q].kind = h[q].kind
        BY <3>1, <1>1, <1>5
      <4>. QED
        BY <3>1, <4>1, <1>1, <1>3 DEF HeapOK, Held
    <3>2. CASE q # p
      <4>1. g[q] = h[q] /\ h[q].holds \in Objects \cup {Null}
        BY <3>2, <1>1, <1>3, Names, HeldIsObject DEF HeapOK
      <4>. QED
        BY <4>1, <1>3, <1>5 DEF HeapOK, Held
    <3>. QED
      BY <3>1, <3>2
  <2>. QED
    BY <2>1 DEF Held
<1>. QED
  BY <1>1, <1>6, <1>7 DEF HeapOK

\* The last pointer goes, and the object with it; what it held is pointed to by
\* whoever freed it.
LEMMA HeapFree ==
  ASSUME NEW h, NEW e \in [All -> Nat], NEW o \in Objects, HeapOK(h, Plus(e, o)),
         h[o].refs = 1, NEW g, Updates(g, h, o, Free)
  PROVE  HeapOK(g, Plus(e, h[o].holds)) /\ e[o] = 0 /\ \A p \in Objects : h[p].holds # o
<1> DEFINE e0 == Plus(e, o)  s == h[o].holds  e1 == Plus(e, s)
<1>1. g \in [All -> Object] /\ g[o] = Free /\ \A q \in Objects : q # o => g[q] = h[q]
  BY Names DEF Updates
<1>2. e0 \in [All -> Nat] /\ e0[o] = e[o] + 1 /\ \A q \in Objects : q # o => e0[q] = e[q]
  BY PlusNat, Names
<1>3. HeapOK(h, e0)
  OBVIOUS
<1>4. e1 \in [All -> Nat] /\ \A q \in All : e1[q] = e[q] + Same(s, q)
  BY PlusNat DEF Same
<1> HIDE DEF e0, e1
<1>5. e[o] = 0 /\ Holders(h, o) = 0
  <2>1. h[o].refs = e0[o] + Holders(h, o)
    BY <1>3 DEF HeapOK, Balanced
  <2>2. Holders(h, o) \in Nat /\ e[o] \in Nat
    BY HoldersNat, Names
  <2>. QED
    BY <2>1, <2>2, <1>2
<1>6. \A p \in Objects : h[p].holds # o
  BY <1>5, HoldersNat
<1>7. Free.kind = "free" /\ Free.refs = 0 /\ Free.holds = Null
  BY DEF Free
<1>8. ASSUME NEW q \in Objects
      PROVE  /\ g[q].refs = e1[q] + Holders(g, q)
             /\ g[q].kind = "free" <=> e1[q] + Holders(g, q) = 0
  <2>1. /\ h[q].refs = e0[q] + Holders(h, q)
        /\ h[q].kind = "free" <=> e0[q] + Holders(h, q) = 0
    BY <1>3 DEF HeapOK, Balanced
  <2>2. Holders(g, q) + Same(s, q) = Holders(h, q) + Same(Null, q)
    BY <1>1, <1>7, HoldersUpdate
  <2>3. /\ Holders(h, q) \in Nat /\ Holders(g, q) \in Nat /\ Null # q
        /\ e[q] \in Nat /\ e1[q] = e[q] + Same(s, q)
    BY <1>4, HoldersNat, Names
  <2>4. e1[q] + Holders(g, q) = e[q] + Holders(h, q)
    BY <2>2, <2>3 DEF Same
  <2>5. CASE q # o
    BY <2>1, <2>4, <2>5, <1>1, <1>2
  <2>6. CASE q = o
    BY <2>4, <2>6, <1>1, <1>5, <1>7
  <2>. QED
    BY <2>5, <2>6
<1>9. Held(g)
  <2>1. ASSUME NEW p \in Objects
        PROVE  /\ g[p].kind # "factory"
               /\ g[p].holds # Null =>
                    \/ g[p].kind \in {"ui", "plugin"} /\ g[g[p].holds].kind = "services"
                    \/ g[p].kind = "service" /\ g[g[p].holds].kind = "plugin"
    <3>1. CASE p = o
      BY <3>1, <1>1, <1>7
    <3>2. CASE p # o
      <4>1. g[p] = h[p] /\ g[p].holds # o /\ h[p].holds \in Objects \cup {Null}
        BY <3>2, <1>1, <1>3, <1>6, Names, HeldIsObject DEF HeapOK
      <4>2. g[p].holds # Null => g[g[p].holds] = h[h[p].holds]
        BY <4>1, <1>1
      <4>. QED
        BY <4>1, <4>2, <1>3 DEF HeapOK, Held
    <3>. QED
      BY <3>1, <3>2
  <2>. QED
    BY <2>1 DEF Held
<1>10. HeapOK(g, e1)
  BY <1>1, <1>8, <1>9 DEF HeapOK, Balanced
<1>. QED
  BY <1>5, <1>6, <1>10 DEF e1

-----------------------------------------------------------------------------
(* The operations on the heap                                              *)

LEMMA RefsOnly ==
  ASSUME NEW x \in Object, NEW n \in Int
  PROVE  LET y == [x EXCEPT !.refs = n]
         IN  /\ y \in Object /\ y.refs = n /\ y.kind = x.kind /\ y.holds = x.holds
             /\ y.extra_qi_ctx = x.extra_qi_ctx /\ y.on = x.on
BY DEF Object

LEMMA HoldsOnly ==
  ASSUME NEW x \in Object, NEW s \in Objects
  PROVE  LET y == [x EXCEPT !.holds = s]
         IN  /\ y \in Object /\ y.refs = x.refs /\ y.kind = x.kind /\ y.holds = s
             /\ y.extra_qi_ctx = x.extra_qi_ctx
BY DEF Object

LEMMA FreshFields ==
  /\ Free \in Object /\ Free.kind = "free" /\ Free.holds = Null
  /\ Free.extra_qi_ctx = Null /\ Free.refs = 0
  /\ \A kind \in Kinds :
       LET x == NewObject(kind)
       IN  /\ x \in Object /\ x.kind = kind /\ x.refs = 1 /\ x.holds = Null
           /\ x.extra_qi_ctx = Null
<1>1. /\ Free \in Object /\ Free.kind = "free" /\ Free.holds = Null
      /\ Free.extra_qi_ctx = Null /\ Free.refs = 0
  BY DEF Free, Object
<1>2. ASSUME NEW kind \in Kinds
      PROVE  LET x == NewObject(kind)
             IN  /\ x \in Object /\ x.kind = kind /\ x.refs = 1 /\ x.holds = Null
                 /\ x.extra_qi_ctx = Null
  <2> DEFINE y == [Free EXCEPT !.kind = kind]
  <2>1. /\ y \in Object /\ y.kind = kind /\ y.holds = Null /\ y.extra_qi_ctx = Null
    BY <1>1 DEF Object
  <2>2. NewObject(kind) = [y EXCEPT !.refs = 1]
    BY DEF NewObject, Free
  <2> HIDE DEF y
  <2>. QED
    BY <2>1, <2>2, RefsOnly
<1>. QED
  BY <1>1, <1>2

\* What a step on the heap leaves of an object.
SameRole(x, y) == y.kind = x.kind /\ y.extra_qi_ctx = x.extra_qi_ctx

LEMMA AddRefUpdates ==
  ASSUME NEW h \in [All -> Object], NEW o \in All
  PROVE  /\ Updates(AddRef(h, o), h, o, [h[o] EXCEPT !.refs = h[o].refs + 1])
         /\ AddRef(h, o) \in [All -> Object]
         /\ \A q \in All : SameRole(h[q], AddRef(h, o)[q]) /\ AddRef(h, o)[q].holds = h[q].holds
         /\ AddRef(h, o)[o].refs = h[o].refs + 1
         /\ \A q \in All : q # o => AddRef(h, o)[q] = h[q]
<1> DEFINE x == [h[o] EXCEPT !.refs = h[o].refs + 1]
<1>1. h[o] \in Object /\ h[o].refs + 1 \in Int
  BY HeldIsObject
<1>2. /\ x \in Object /\ x.refs = h[o].refs + 1 /\ x.kind = h[o].kind
      /\ x.holds = h[o].holds /\ x.extra_qi_ctx = h[o].extra_qi_ctx
  BY <1>1, RefsOnly
<1>3. AddRef(h, o) = [h EXCEPT ![o] = x]
  BY DEF AddRef
<1> HIDE DEF x
<1>4. Updates(AddRef(h, o), h, o, x)
  BY <1>2, <1>3, Updated
<1>. QED
  BY <1>2, <1>4 DEF Updates, SameRole, x

LEMMA HeapAddRef ==
  ASSUME NEW h, NEW e \in [All -> Nat], HeapOK(h, e), NEW o \in All,
         o \in Objects => h[o].kind # "free"
  PROVE  HeapOK(AddRef(h, o), Plus(e, o))
<1> DEFINE x == [h[o] EXCEPT !.refs = h[o].refs + 1]  e1 == Plus(e, o)
<1>1. h \in [All -> Object]
  BY DEF HeapOK
<1>2. Updates(AddRef(h, o), h, o, x)
  BY <1>1, AddRefUpdates
<1>3. e1 \in [All -> Nat] /\ e1[o] = e[o] + 1 /\ \A q \in All : q # o => e1[q] = e[q]
  BY PlusNat
<1>4. h[o] \in Object /\ h[o].refs \in Int
  BY <1>1, HeldIsObject
<1>5. x.refs = h[o].refs + 1 /\ x.kind = h[o].kind /\ x.holds = h[o].holds
  BY <1>4, RefsOnly
<1> HIDE DEF x, e1
<1>6. CASE o \in Objects
  <2>1. e[o] \in Nat /\ Holders(h, o) \in Nat /\ h[o].refs = e[o] + Holders(h, o)
    BY <1>6, Names, HoldersNat DEF HeapOK, Balanced
  <2>2. x.refs - h[o].refs = e1[o] - e[o] /\ x.refs > 0
    BY <1>3, <1>5, <2>1
  <2>3. \A q \in Objects : q # o => e1[q] = e[q]
    BY <1>3, Names
  <2>4. HeapOK(AddRef(h, o), e1)
    BY <1>2, <1>3, <1>5, <1>6, <2>2, <2>3, HeapCounts
  <2>. QED
    BY <2>4 DEF e1
<1>7. CASE o = Factory
  <2>1. \A q \in Objects : e1[q] = e[q]
    BY <1>3, <1>7, Names
  <2>2. HeapOK(AddRef(h, o), e1)
    BY <1>2, <1>3, <1>7, <2>1, HeapFactory
  <2>. QED
    BY <2>2 DEF e1
<1>. QED
  BY <1>6, <1>7 DEF All

\* A new wrapper o pins what it stands for.
Wrapped(h, o, kind, s) == [PinsOwner(h, s) EXCEPT ![o] = Wrapper(kind, s)]

LEMMA HeapWrap ==
  ASSUME NEW h, NEW e \in [All -> Nat], HeapOK(h, e), NEW s \in Objects,
         NEW o \in Objects, h[o].kind = "free", NEW kind \in {"ui", "service"},
         h[s].kind = IF kind = "ui" THEN "services" ELSE "plugin"
  PROVE  LET g == Wrapped(h, o, kind, s)
         IN  /\ HeapOK(g, Plus(e, o))
             /\ g[o].kind = kind
             /\ \A q \in All : q # o => SameRole(h[q], g[q])
             /\ g[Factory] = h[Factory]
<1> DEFINE a == AddRef(h, s)
           n == NewObject(kind)
           b == [a EXCEPT ![o] = n]
           w == Wrapper(kind, s)
           g == [a EXCEPT ![o] = w]
<1>1. h \in [All -> Object] /\ o # s /\ o \in All /\ s \in All /\ o # Factory /\ s # Factory
  BY Names DEF HeapOK
<1>2. /\ a \in [All -> Object] /\ a[o] = h[o] /\ a[s].kind = h[s].kind
      /\ \A q \in All : SameRole(h[q], a[q])
      /\ a[Factory] = h[Factory]
  <2>1. /\ a \in [All -> Object] /\ \A q \in All : SameRole(h[q], a[q])
        /\ \A q \in All : q # s => a[q] = h[q]
    BY <1>1, AddRefUpdates
  <2>2. a[s].kind = h[s].kind
    BY <1>1, <2>1 DEF SameRole
  <2>. QED
    BY <1>1, <2>1, <2>2, Names
<1>3. HeapOK(a, Plus(e, s)) /\ Plus(e, s) \in [All -> Nat]
  BY <1>1, HeapAddRef, PlusNat
<1> HIDE DEF a
<1>4. /\ n \in Object /\ n.kind = kind /\ n.refs = 1 /\ n.holds = Null
  BY FreshFields DEF Kinds
<1>5. Updates(b, a, o, n)
  BY <1>1, <1>2, <1>4, Updated
<1>6. w \in Object /\ w.kind = kind /\ w.refs = 1 /\ w.holds = s
  BY <1>4, HoldsOnly DEF Wrapper
<1> HIDE DEF n, w
<1>7. HeapOK(b, Plus(Plus(e, s), o))
  BY <1>2, <1>3, <1>4, <1>5, HeapNew
<1>8. Plus(e, o) \in [All -> Nat] /\ Plus(Plus(e, s), o) = Plus(Plus(e, o), s)
  BY PlusNat, PlusSwap
<1>9. Updates(g, b, o, w)
  BY <1>1, <1>2, <1>5, <1>6, Updated DEF Updates
<1>10. b[o] = n /\ b[s].kind = h[s].kind
  BY <1>1, <1>2, <1>5 DEF Updates
<1>11. HeapOK(b, Plus(Plus(e, o), s))
  BY <1>7, <1>8
<1>12. HeapOK(g, Plus(e, o))
  BY <1>1, <1>4, <1>6, <1>8, <1>9, <1>10, <1>11, HeapHold
<1>13. g[o] = w /\ \A q \in All : q # o => g[q] = a[q]
  BY <1>1, <1>2, <1>6
<1>. QED
  BY <1>1, <1>2, <1>6, <1>12, <1>13 DEF a, w, PinsOwner, Wrapped

\* A plugin keeps the services it is given first; no role changes.
LEMMA HeapKeepHost ==
  ASSUME NEW h, NEW e \in [All -> Nat], HeapOK(h, e), NEW p \in Objects,
         h[p].kind = "plugin", NEW s \in Objects \cup {Null},
         s # Null => h[s].kind = "services"
  PROVE  /\ HeapOK(KeepHost(h, p, s), e)
         /\ \A q \in All : SameRole(h[q], KeepHost(h, p, s)[q])
         /\ KeepHost(h, p, s)[Factory] = h[Factory]
<1>1. h \in [All -> Object] /\ p \in All /\ p # Factory
  BY Names DEF HeapOK
<1>2. CASE ~(h[p].holds = Null /\ s # Null)
  BY <1>2 DEF KeepHost, SameRole
<1>3. CASE h[p].holds = Null /\ s # Null
  <2> DEFINE a == AddRef(h, s)
             x == [a[p] EXCEPT !.holds = s]
             g == [a EXCEPT ![p] = x]
  <2>1. s \in Objects /\ s \in All /\ s # p /\ s # Factory /\ h[s].kind = "services"
    BY <1>3, Names
  <2>2. /\ a \in [All -> Object] /\ a[p] = h[p] /\ a[s].kind = h[s].kind
        /\ \A q \in All : SameRole(h[q], a[q])
        /\ a[Factory] = h[Factory]
    <3>1. /\ a \in [All -> Object] /\ \A q \in All : SameRole(h[q], a[q])
          /\ \A q \in All : q # s => a[q] = h[q]
      BY <1>1, <2>1, AddRefUpdates
    <3>2. a[s].kind = h[s].kind
      BY <2>1, <3>1 DEF SameRole
    <3>. QED
      BY <1>1, <2>1, <3>1, <3>2, Names
  <2>3. HeapOK(a, Plus(e, s))
    BY <2>1, HeapAddRef
  <2>4. KeepHost(h, p, s) = g
    BY <1>3 DEF KeepHost
  <2> HIDE DEF a
  <2>5. a[p] \in Object
    BY <1>1, <2>2
  <2>6. /\ x \in Object /\ x.refs = a[p].refs /\ x.kind = a[p].kind /\ x.holds = s
        /\ x.extra_qi_ctx = a[p].extra_qi_ctx
    BY <2>1, <2>5, HoldsOnly
  <2> HIDE DEF x
  <2>7. Updates(g, a, p, x)
    BY <1>1, <2>2, <2>6, Updated
  <2>8. a[p].holds = Null /\ a[p].kind = "plugin"
    BY <1>3, <2>2
  <2>9. HeapOK(g, e)
    BY <2>1, <2>2, <2>3, <2>6, <2>7, <2>8, HeapHold
  <2>10. g[p] = x /\ \A q \in All : q # p => g[q] = a[q]
    BY <2>7 DEF Updates
  <2>. QED
    BY <1>1, <2>2, <2>4, <2>6, <2>9, <2>10, Names DEF SameRole
<1>. QED
  BY <1>2, <1>3

\* With no pointer from outside to plugins and services' wrappers there are none,
\* for nobody else holds a service; and likewise for services with these.
LEMMA NoneLeft ==
  ASSUME NEW h, NEW e \in [All -> Nat], HeapOK(h, e),
         \A o \in Objects : h[o].kind \in {"plugin", "service"} => e[o] = 0
  PROVE  \A o \in Objects : h[o].kind \notin {"plugin", "service"}
<1>1. \A p \in Objects : h[p].holds \in Objects \cup {Null}
  BY Names, HeldIsObject DEF HeapOK
<1>2. ASSUME NEW o \in Objects, h[o].kind = "service"
      PROVE  FALSE
  <2>1. PICK p \in Objects : h[p].holds = o
    BY <1>2, LiveIfPointed
  <2>. QED
    BY <1>2, <2>1, Names DEF HeapOK, Held
<1>3. ASSUME NEW o \in Objects, h[o].kind = "plugin"
      PROVE  FALSE
  <2>1. PICK p \in Objects : h[p].holds = o
    BY <1>3, LiveIfPointed
  <2>2. h[p].kind = "service"
    BY <1>3, <2>1, Names DEF HeapOK, Held
  <2>. QED
    BY <1>2, <2>2
<1>. QED
  BY <1>2, <1>3

LEMMA NoServicesLeft ==
  ASSUME NEW h, NEW e \in [All -> Nat], HeapOK(h, e),
         \A o \in Objects : h[o].kind \in {"services", "ui", "plugin", "service"} => e[o] = 0
  PROVE  \A o \in Objects : h[o].kind # "services"
<1>1. \A o \in Objects : h[o].kind \notin {"plugin", "service"}
  BY NoneLeft
<1>2. ASSUME NEW o \in Objects, h[o].kind = "services"
      PROVE  FALSE
  <2>1. PICK p \in Objects : h[p].holds = o
    BY <1>2, LiveIfPointed
  <2>2. h[p].kind = "ui"
    BY <1>1, <1>2, <2>1, Names DEF HeapOK, Held
  <2>3. e[p] = 0 /\ h[p].kind # "free"
    BY <2>2
  <2>4. PICK q \in Objects : h[q].holds = p
    BY <2>3, LiveIfPointed
  <2>. QED
    BY <2>2, <2>4, Names DEF HeapOK, Held
<1>. QED
  BY <1>2

-----------------------------------------------------------------------------
(* What most steps leave alone                                             *)

LEMMA ExtType == ext \in [All -> Nat] /\ ext' \in [All -> Nat]
BY ExtNat DEF ext

LEMMA Pieces ==
  IInv <=> TypeOK /\ HeapOK(heap, ext) /\ FactoryInv /\ CodeOutlivesObjects /\ RouterInv
BY DEF IInv

LEMMA Pointed ==
  ASSUME IInv, NEW o \in Objects
  PROVE  /\ \A v \in Vars : owner[v] = o => heap[o].kind # "free"
         /\ raw = o => heap[o].kind # "free"
         /\ heap[o].kind = "free" => ext[o] = 0
<1>1. ext \in [All -> Nat] /\ HeapOK(heap, ext) /\ ext[o] \in Nat
  BY ExtType, Pieces, Names
<1>2. ext[o] = 0 \/ heap[o].kind # "free"
  BY <1>1, LiveIfPointed
<1>. QED
  BY <1>1, <1>2, ExtZero, LiveIfPointed, Names

LEMMA FactoryKnown ==
  ASSUME IInv
  PROVE  /\ \A o \in All : heap[o].kind = "factory" => o = Factory /\ Mapped
         /\ heap[Factory].kind \in {"factory", "free"}
<1>1. \A o \in Objects : heap[o].kind # "factory"
  BY Pieces DEF HeapOK, Held
<1>. QED
  BY <1>1, Pieces DEF FactoryInv, All

LEMMA ReceivesTyped ==
  ASSUME TypeOK, NEW v \in Vars, NEW o \in All \cup {Null}, Receives(v, o)
  PROVE  /\ owner' \in [Vars -> All \cup {Null}] /\ owner'[v] = o
         /\ \A w \in Vars : w # v => owner'[w] = owner[w]
         /\ owed' \in [Threads -> All \cup {Null}]
BY ObjectsConstants DEF ObjectsConstants, TypeOK, Receives

\* The host's variables that own routers.
Router(r) ==
  heap[r].kind = "router" /\ \E v \in Vars : ThreadOf[v] = HostThread /\ owner[v] = r
StillOwned(r) == \E v \in Vars : ThreadOf[v] = HostThread /\ owner'[v] = r

LEMMA ReceivesKeeps ==
  ASSUME TypeOK, NEW u \in Vars, NEW o \in All \cup {Null}, Receives(u, o),
         ~(ThreadOf[u] = HostThread /\ Owns(u, "router"))
  PROVE  \A r \in Objects : Router(r) => StillOwned(r)
<1> SUFFICES ASSUME NEW r \in Objects, Router(r) PROVE StillOwned(r)
  OBVIOUS
<1>1. PICK v \in Vars : ThreadOf[v] = HostThread /\ owner[v] = r
  BY DEF Router
<1>2. v # u
  BY <1>1, Names DEF Router, Owns, IsA
<1>. QED
  BY <1>1, <1>2, ReceivesTyped DEF StillOwned

\* A step may make or change object o; the rest keeps its roles.
LEMMA RoutersKept ==
  ASSUME TypeOK, RouterInv, NEW o,
         \A q \in Objects : q # o => SameRole(heap[q], heap'[q]),
         o \in Objects => ~Router(o),
         o \in Objects /\ heap'[o].kind = "services" /\ heap'[o].extra_qi_ctx # Null
           => heap'[o].extra_qi_ctx \in Objects /\ Router(heap'[o].extra_qi_ctx),
         \A r \in Objects : Router(r) => StillOwned(r)
  PROVE  RouterInv'
<1> SUFFICES ASSUME NEW q \in Objects, heap'[q].kind = "services", heap'[q].extra_qi_ctx # Null
             PROVE  /\ heap'[heap'[q].extra_qi_ctx].kind = "router"
                    /\ \E v \in Vars :
                         ThreadOf[v] = HostThread /\ owner'[v] = heap'[q].extra_qi_ctx
  BY DEF RouterInv
<1> DEFINE r == heap'[q].extra_qi_ctx
<1>1. r \in Objects /\ Router(r)
  <2>1. CASE q = o
    BY <2>1
  <2>2. CASE q # o
    <3>1. SameRole(heap[q], heap'[q])
      BY <2>2
    <3>2. heap[q].kind = "services" /\ heap[q].extra_qi_ctx = r
      BY <3>1 DEF SameRole
    <3>3. r \in Objects
      BY <3>2, Names, HeldIsObject DEF TypeOK
    <3>. QED
      BY <3>2, <3>3 DEF RouterInv, Router
  <2>. QED
    BY <2>1, <2>2
<1> HIDE DEF r
<1>2. r # o
  BY <1>1
<1>3. SameRole(heap[r], heap'[r]) /\ StillOwned(r)
  BY <1>1, <1>2
<1>. QED
  BY <1>1, <1>3 DEF Router, SameRole, StillOwned, r

\* A step of the host's or the plugin's objects; the module stays as it is.
LEMMA ObjectsStep ==
  ASSUME IInv, HeapOK(heap', ext'),
         owner' \in [Vars -> All \cup {Null}], raw' \in All \cup {Null},
         owed' \in [Threads -> All \cup {Null}], UNCHANGED loading,
         heap'[Factory] = heap[Factory], ext'[Factory] = ext[Factory],
         \A q \in Objects : heap'[q].kind \in {"plugin", "service"} =>
           Mapped \/ heap[q].kind \in {"plugin", "service"},
         RouterInv'
  PROVE  IInv'
<1>1. TypeOK'
  BY Pieces DEF TypeOK, HeapOK, loading
<1>2. Mapped' <=> Mapped
  BY DEF Mapped, loading
<1>3. FactoryInv'
  BY <1>2, Pieces DEF FactoryInv, loading
<1>4. CodeOutlivesObjects'
  <2>1. ASSUME ~Mapped, NEW o \in All
        PROVE  heap'[o].kind \notin {"plugin", "service", "factory"}
    <3>1. CASE o = Factory
      BY <2>1, <3>1, Pieces DEF CodeOutlivesObjects
    <3>2. CASE o \in Objects
      BY <2>1, <3>2, Pieces, Names DEF CodeOutlivesObjects, HeapOK, Held
    <3>. QED
      BY <3>1, <3>2 DEF All
  <2>. QED
    BY <1>2, <2>1 DEF CodeOutlivesObjects
<1>. QED
  BY <1>1, <1>3, <1>4 DEF IInv

\* A step that changes no object.
LEMMA PointersStep ==
  ASSUME IInv, UNCHANGED <<heap, loading>>, ext' = ext,
         owner' \in [Vars -> All \cup {Null}], raw' \in All \cup {Null},
         owed' \in [Threads -> All \cup {Null}], RouterInv'
  PROVE  IInv'
<1>1. HeapOK(heap', ext')
  BY Pieces
<1>. QED
  BY <1>1, ObjectsStep

-----------------------------------------------------------------------------
(* The C++ owners                                                          *)

\* With no thread giving anything back and no variable of these kinds, nothing
\* points from outside to an object of these kinds.
LEMMA NobodyPoints ==
  ASSUME IInv, NEW kinds, NobodyOwns(kinds), NEW o \in All, heap[o].kind \in kinds
  PROVE  ext[o] = 0
<1>1. \A t \in Threads : owed[t] # o
  BY Names DEF NobodyOwns, Idle
<1>2. raw # o /\ \A v \in Vars : owner[v] # o
  BY Names DEF NobodyOwns
<1>. QED
  BY <1>1, <1>2, ExtZero

LEMMA ResetInv ==
  ASSUME IInv, NEW v \in Vars, Reset(v)
  PROVE  IInv'
<1> USE DEF Reset
<1>1. TypeOK /\ HeapOK(heap, ext) /\ RouterInv
  BY Pieces
<1>2. ext' = ext
  BY <1>1, ReceivesExt, PlusNull, ExtType
<1>3. owner' \in [Vars -> All \cup {Null}] /\ owed' \in [Threads -> All \cup {Null}]
  BY <1>1, ReceivesTyped
<1>4. RouterInv'
  <2>1. CASE ~(Owns(v, "router") /\ ThreadOf[v] = HostThread)
    <3>1. \A r \in Objects : Router(r) => StillOwned(r)
      BY <1>1, <2>1, ReceivesKeeps
    <3>2. \A q \in Objects : SameRole(heap[q], heap'[q])
      BY DEF SameRole
    <3>. QED
      BY <1>1, <3>1, <3>2, RoutersKept, Names
  <2>2. CASE Owns(v, "router") /\ ThreadOf[v] = HostThread
    <3>1. NobodyOwns({"services", "ui", "plugin", "service"})
      BY <2>2 DEF RouterUnused
    <3>2. \A o \in Objects : heap[o].kind \in {"services", "ui", "plugin", "service"}
                               => ext[o] = 0
      BY <3>1, NobodyPoints, Names
    <3>3. \A o \in Objects : heap[o].kind # "services"
      BY <1>1, <3>2, ExtType, NoServicesLeft
    <3>. QED
      BY <3>3 DEF RouterInv
  <2>. QED
    BY <2>1, <2>2
<1>5. raw' \in All \cup {Null} /\ UNCHANGED <<heap, loading>>
  BY <1>1 DEF TypeOK
<1>. QED
  BY <1>2, <1>3, <1>4, <1>5, PointersStep

LEMMA MoveAssignInv ==
  ASSUME IInv, NEW u \in Vars, NEW v \in Vars, MoveAssign(u, v)
  PROVE  IInv'
<1> USE DEF MoveAssign
<1>1. TypeOK /\ RouterInv
  BY Pieces
<1>2. Idle(ThreadOf[u]) /\ u # v
  BY DEF MayFill
<1>3. ext' = ext
  BY <1>1, <1>2, MoveExt
<1>4. /\ owner' \in [Vars -> All \cup {Null}] /\ owner'[u] = owner[v]
      /\ \A w \in Vars : w # u /\ w # v => owner'[w] = owner[w]
      /\ owed' \in [Threads -> All \cup {Null}]
  BY <1>1, <1>2, ObjectsConstants DEF ObjectsConstants, TypeOK
<1>5. ASSUME NEW r \in Objects, Router(r)
      PROVE  StillOwned(r)
  <2>1. PICK w \in Vars : ThreadOf[w] = HostThread /\ owner[w] = r
    BY <1>5 DEF Router
  <2>2. Owns(w, "router")
    BY <1>5, <2>1, Names DEF Router, Owns, IsA
  <2>3. w # u
    BY <2>1, <2>2
  <2>4. CASE w = v
    BY <1>4, <2>1, <2>2, <2>4 DEF StillOwned
  <2>5. CASE w # v
    BY <1>4, <2>1, <2>3, <2>5 DEF StillOwned
  <2>. QED
    BY <2>4, <2>5
<1>6. \A q \in Objects : SameRole(heap[q], heap'[q])
  BY DEF SameRole
<1>7. RouterInv'
  BY <1>1, <1>5, <1>6, RoutersKept, Names
<1>8. raw' \in All \cup {Null} /\ UNCHANGED <<heap, loading>>
  BY <1>1 DEF TypeOK
<1>. QED
  BY <1>3, <1>4, <1>7, <1>8, PointersStep

LEMMA DetachInv ==
  ASSUME IInv, NEW v \in Vars, Detach(v)
  PROVE  IInv'
<1> USE DEF Detach
<1>1. TypeOK /\ RouterInv
  BY Pieces
<1>2. /\ owner' \in [Vars -> All \cup {Null}] /\ raw' \in All \cup {Null}
      /\ owed' \in [Threads -> All \cup {Null}]
      /\ \A w \in Vars : w # v => owner'[w] = owner[w]
  BY <1>1 DEF TypeOK
<1>3. ext' = ext
  BY <1>1, RawExt
<1>4. ASSUME NEW r \in Objects, Router(r)
      PROVE  StillOwned(r)
  BY <1>2, <1>4, Names DEF Router, StillOwned, Owns, IsA
<1>5. \A q \in Objects : SameRole(heap[q], heap'[q])
  BY DEF SameRole
<1>6. RouterInv'
  BY <1>1, <1>4, <1>5, RoutersKept, Names
<1>. QED
  BY <1>2, <1>3, <1>6, PointersStep

LEMMA AdoptInv ==
  ASSUME IInv, NEW v \in Vars, Adopt(v)
  PROVE  IInv'
<1> USE DEF Adopt
<1>1. TypeOK /\ RouterInv
  BY Pieces
<1>2. /\ owner' \in [Vars -> All \cup {Null}] /\ raw' \in All \cup {Null}
      /\ owed' \in [Threads -> All \cup {Null}]
      /\ \A w \in Vars : w # v => owner'[w] = owner[w]
  BY <1>1 DEF TypeOK
<1>3. ext' = ext
  BY <1>1, RawExt
<1>4. ASSUME NEW r \in Objects, Router(r)
      PROVE  StillOwned(r)
  BY <1>2, <1>4, Names DEF Router, StillOwned
<1>5. \A q \in Objects : SameRole(heap[q], heap'[q])
  BY DEF SameRole
<1>6. RouterInv'
  BY <1>1, <1>4, <1>5, RoutersKept, Names
<1>. QED
  BY <1>2, <1>3, <1>6, PointersStep

\* A variable gets object o, which the step made or counted once more.
LEMMA ReceiveStep ==
  ASSUME IInv, NEW u \in Vars, NEW o \in Objects, Idle(ThreadOf[u]), Receives(u, o),
         HeapOK(heap', Plus(ext, o)), heap'[Factory] = heap[Factory],
         UNCHANGED <<raw, loading>>,
         \A q \in Objects : heap'[q].kind \in {"plugin", "service"} =>
           Mapped \/ heap[q].kind \in {"plugin", "service"},
         RouterInv'
  PROVE  IInv'
<1>1. TypeOK
  BY Pieces
<1>2. ext' = Plus(ext, o)
  BY <1>1, ReceivesExt
<1>3. owner' \in [Vars -> All \cup {Null}] /\ owed' \in [Threads -> All \cup {Null}]
  BY <1>1, Names, ReceivesTyped
<1>4. ext'[Factory] = ext[Factory]
  BY <1>2, ExtType, PlusNat, Names
<1>5. raw' \in All \cup {Null} /\ HeapOK(heap', ext')
  BY <1>1, <1>2 DEF TypeOK
<1>. QED
  BY <1>3, <1>4, <1>5, ObjectsStep

LEMMA ReceiveCounted ==
  ASSUME IInv, NEW u \in Vars, NEW o \in Objects, Idle(ThreadOf[u]), Receives(u, o),
         ~(ThreadOf[u] = HostThread /\ Owns(u, "router")),
         heap[o].kind # "free", heap' = AddRef(heap, o), UNCHANGED <<raw, loading>>
  PROVE  IInv'
<1>1. TypeOK /\ RouterInv /\ HeapOK(heap, ext) /\ o \in All /\ o # Factory
  BY Pieces, Names
<1>2. HeapOK(heap', Plus(ext, o))
  BY <1>1, HeapAddRef, ExtType
<1>3. /\ \A q \in All : SameRole(heap[q], heap'[q])
      /\ heap'[Factory] = heap[Factory]
  BY <1>1, AddRefUpdates, Names DEF HeapOK
<1>4. \A r \in Objects : Router(r) => StillOwned(r)
  BY <1>1, ReceivesKeeps
<1>5. RouterInv'
  BY <1>1, <1>3, <1>4, RoutersKept, Names
<1>6. \A q \in Objects : heap'[q].kind = heap[q].kind
  BY <1>3, Names DEF SameRole
<1>. QED
  BY <1>2, <1>3, <1>5, <1>6, ReceiveStep

LEMMA ReceiveNew ==
  ASSUME IInv, NEW u \in Vars, NEW o \in Objects, Idle(ThreadOf[u]), Receives(u, o),
         ~(ThreadOf[u] = HostThread /\ Owns(u, "router")),
         heap[o].kind = "free",
         HeapOK(heap', Plus(ext, o)), heap'[Factory] = heap[Factory],
         UNCHANGED <<raw, loading>>,
         \A q \in Objects : q # o => SameRole(heap[q], heap'[q]),
         heap'[o].kind \in {"plugin", "service"} => Mapped,
         heap'[o].kind = "services" /\ heap'[o].extra_qi_ctx # Null
           => heap'[o].extra_qi_ctx \in Objects /\ Router(heap'[o].extra_qi_ctx)
  PROVE  IInv'
<1>1. TypeOK /\ RouterInv
  BY Pieces
<1>2. ~Router(o)
  BY DEF Router
<1>3. \A r \in Objects : Router(r) => StillOwned(r)
  BY <1>1, Names, ReceivesKeeps
<1>4. RouterInv'
  BY <1>1, <1>2, <1>3, RoutersKept
<1>5. \A q \in Objects : heap'[q].kind \in {"plugin", "service"} =>
        Mapped \/ heap[q].kind \in {"plugin", "service"}
  BY DEF SameRole
<1>. QED
  BY <1>4, <1>5, ReceiveStep

\* A variable gets the factory, counted once more.
LEMMA ReceiveFactory ==
  ASSUME IInv, NEW u \in Vars, Idle(ThreadOf[u]), Receives(u, Factory), Mapped,
         ~(ThreadOf[u] = HostThread /\ Owns(u, "router")),
         heap' = AddRef(heap, Factory), UNCHANGED <<raw, loading>>
  PROVE  IInv'
<1>1. TypeOK /\ RouterInv /\ HeapOK(heap, ext) /\ FactoryInv /\ CodeOutlivesObjects
  BY Pieces
<1>2. ext' = Plus(ext, Factory)
  BY <1>1, ReceivesExt
<1>3. owner' \in [Vars -> All \cup {Null}] /\ owed' \in [Threads -> All \cup {Null}]
  BY <1>1, Names, ReceivesTyped
<1>4. ext'[Factory] = ext[Factory] + 1
  BY <1>2, ExtType, PlusNat, Names
<1>5. HeapOK(heap', ext')
  BY <1>1, <1>2, HeapAddRef, ExtType, Names
<1>6. /\ \A q \in All : SameRole(heap[q], heap'[q])
      /\ heap'[Factory].refs = heap[Factory].refs + 1
  BY <1>1, AddRefUpdates, Names DEF HeapOK
<1>7. RouterInv'
  <2>1. \A r \in Objects : Router(r) => StillOwned(r)
    BY <1>1, Names, ReceivesKeeps
  <2>. QED
    BY <1>1, <1>6, <2>1, RoutersKept, Names
<1>8. Mapped'
  BY DEF Mapped, loading
<1>9. FactoryInv'
  <2>1. heap'[Factory].kind = heap[Factory].kind
    BY <1>6, Names DEF SameRole
  <2>2. heap[Factory].refs = 1 + (IF module THEN 1 ELSE 0) + pinned + leaked + ext[Factory]
    BY <1>1 DEF FactoryInv
  <2>3. /\ pinned \in Nat /\ leaked \in Nat /\ ext[Factory] \in Nat
        /\ (IF module THEN 1 ELSE 0) \in Nat
    BY <1>1, ExtType, Names, ObjectsConstants DEF TypeOK, ObjectsConstants
  <2>4. heap'[Factory].refs
          = 1 + (IF module THEN 1 ELSE 0) + pinned + leaked + ext'[Factory]
    BY <1>4, <1>6, <2>2, <2>3
  <2>. QED
    BY <1>1, <1>8, <2>1, <2>4 DEF FactoryInv, loading
<1>10. TypeOK' /\ CodeOutlivesObjects'
  BY <1>1, <1>3, <1>5, <1>8 DEF TypeOK, HeapOK, loading, CodeOutlivesObjects
<1>. QED
  BY <1>5, <1>7, <1>9, <1>10 DEF IInv

LEMMA Filled ==
  ASSUME NEW u \in Vars, NEW v \in Vars, Fill(v, u)
  PROVE  Idle(ThreadOf[u]) /\ ~(ThreadOf[u] = HostThread /\ Owns(u, "router"))
BY DEF Fill, MayFill

LEMMA OwnsObject ==
  ASSUME IInv, NEW v \in Vars, NEW kind, Owns(v, kind), kind \notin {"factory", "free"}
  PROVE  owner[v] \in Objects /\ heap[owner[v]].kind = kind
<1>1. owner[v] \in All /\ heap[owner[v]].kind = kind
  BY Pieces DEF TypeOK, Owns, IsA
<1>. QED
  BY <1>1, FactoryKnown DEF All

LEMMA AddRefToInv ==
  ASSUME IInv, NEW u \in Vars, NEW v \in Vars, AddRefTo(u, v)
  PROVE  IInv'
<1>1. /\ Idle(ThreadOf[u]) /\ ~(ThreadOf[u] = HostThread /\ Owns(u, "router"))
      /\ heap' = AddRef(heap, owner[v]) /\ Receives(u, owner[v])
      /\ UNCHANGED <<raw, loading>> /\ owner[v] # Null
  BY Filled DEF AddRefTo
<1>2. TypeOK /\ HeapOK(heap, ext) /\ FactoryInv
  BY Pieces
<1>3. CASE owner[v] \in Objects
  <2> DEFINE o == owner[v]
  <2>1. heap[o].kind # "free"
    BY <1>3, Pointed
  <2>. QED
    BY <1>1, <1>3, <2>1, ReceiveCounted
<1>4. CASE owner[v] = Factory
  <2>1. ext[Factory] # 0
    BY <1>4, ExtZero, Names
  <2>2. Mapped
    BY <1>2, <2>1 DEF FactoryInv
  <2>. QED
    BY <1>1, <1>4, <2>2, ReceiveFactory
<1>. QED
  BY <1>1, <1>2, <1>3, <1>4 DEF TypeOK, All

LEMMA QueryEventsInv ==
  ASSUME IInv, NEW u \in Vars, NEW v \in Vars, QueryEvents(u, v)
  PROVE  IInv'
<1> DEFINE s == owner[v]  r == heap[s].extra_qi_ctx
<1>1. /\ Idle(ThreadOf[u]) /\ ~(ThreadOf[u] = HostThread /\ Owns(u, "router"))
      /\ heap' = AddRef(heap, r) /\ Receives(u, r)
      /\ UNCHANGED <<raw, loading>> /\ r # Null
  BY Filled DEF QueryEvents
<1>2. TypeOK /\ HeapOK(heap, ext) /\ RouterInv
  BY Pieces
<1>3. s \in Objects /\ heap[s].kind = "services"
  BY OwnsObject DEF QueryEvents
<1>4. r \in Objects /\ heap[r].kind = "router"
  <2>1. r \in Objects \cup {Null}
    BY <1>2, <1>3, Names, HeldIsObject DEF TypeOK
  <2>. QED
    BY <1>1, <1>2, <1>3, <2>1 DEF RouterInv
<1> HIDE DEF r
<1>. QED
  BY <1>1, <1>4, ReceiveCounted

LEMMA QueryFailsInv ==
  ASSUME IInv, NEW u \in Vars, NEW v \in Vars, QueryFails(u, v)
  PROVE  IInv'
<1>1. /\ Idle(ThreadOf[u]) /\ ~(ThreadOf[u] = HostThread /\ Owns(u, "router"))
      /\ Receives(u, Null) /\ UNCHANGED <<heap, raw, loading>>
  BY Filled DEF QueryFails
<1>2. TypeOK /\ RouterInv
  BY Pieces
<1>3. ext' = ext
  BY <1>1, <1>2, ReceivesExt, PlusNull, ExtType
<1>4. owner' \in [Vars -> All \cup {Null}] /\ owed' \in [Threads -> All \cup {Null}]
  BY <1>1, <1>2, ReceivesTyped
<1>5. RouterInv'
  <2>1. \A r \in Objects : Router(r) => StillOwned(r)
    BY <1>1, <1>2, ReceivesKeeps
  <2>2. \A q \in Objects : SameRole(heap[q], heap'[q])
    BY <1>1 DEF SameRole
  <2>. QED
    BY <1>2, <2>1, <2>2, RoutersKept, Names
<1>6. raw' \in All \cup {Null}
  BY <1>1, <1>2 DEF TypeOK
<1>. QED
  BY <1>1, <1>3, <1>4, <1>5, <1>6, PointersStep

LEMMA GiveBackInv ==
  ASSUME IInv, NEW t \in Threads, GiveBack(t)
  PROVE  IInv'
<1> DEFINE o == owed[t]  s == HeldBy(o)
<1>1. TypeOK /\ HeapOK(heap, ext) /\ FactoryInv /\ RouterInv /\ CodeOutlivesObjects
  BY Pieces
<1>2. o \in All /\ o # Null /\ UNCHANGED <<owner, raw, loading>>
  BY <1>1, Names DEF TypeOK, GiveBack, Idle
<1>3. heap \in [All -> Object] /\ heap[o] \in Object /\ heap[o].refs \in Int
  BY <1>1, <1>2, HeldIsObject DEF TypeOK
<1>4. ext[o] # 0
  BY <1>2, ExtZero
<1>5. ext \in [All -> Nat] /\ ext' \in [All -> Nat]
  BY ExtType
<1>6. \A r \in Objects : Router(r) => StillOwned(r)
  BY <1>2 DEF Router, StillOwned
<1>7. owner' \in [Vars -> All \cup {Null}] /\ raw' \in All \cup {Null}
  BY <1>1, <1>2 DEF TypeOK
<1>8. CASE heap[o].refs = 1 /\ o # Factory
  <2>1. heap' = [heap EXCEPT ![o] = Free] /\ owed' = [owed EXCEPT ![t] = s]
    BY <1>8 DEF GiveBack
  <2>2. o \in Objects /\ s \in Objects \cup {Null}
    BY <1>1, <1>2, <1>8, HeldIsObject DEF All, HeldBy, TypeOK
  <2>3. Plus(ext', o) = Plus(ext, s)
    BY <1>1, <1>2, <2>1, OwedExt
  <2>4. Updates(heap', heap, o, Free)
    BY <1>2, <1>3, <2>1, Updated, FreshFields
  <2> DEFINE e == [x \in All |-> IF x = o THEN ext[o] - 1 ELSE ext[x]]
  <2>5. e \in [All -> Nat] /\ Plus(e, o) = ext
    <3>1. ext[o] \in Nat /\ ext[o] - 1 \in Nat
      BY <1>2, <1>4, <1>5
    <3>2. e \in [All -> Nat]
      BY <1>5, <3>1
    <3>3. \A x \in All : Plus(e, o)[x] = ext[x]
      BY <1>5, <3>1, <3>2, PlusNat
    <3>4. Plus(e, o) \in [All -> Nat]
      BY <3>2, PlusNat
    <3> HIDE DEF e
    <3>. QED
      BY <1>5, <3>2, <3>3, <3>4
  <2>6. ext' = Plus(e, s)
    <3>1. \A x \in All : Plus(ext', o)[x] = ext'[x] + (IF x = o THEN 1 ELSE 0)
      BY <1>5, PlusNat
    <3>2. \A x \in All : Plus(ext, s)[x] = ext[x] + (IF x = s THEN 1 ELSE 0)
      BY <1>5, PlusNat
    <3>3. /\ Plus(e, s) \in [All -> Nat]
          /\ \A x \in All : Plus(e, s)[x] = e[x] + (IF x = s THEN 1 ELSE 0)
      BY <2>5, PlusNat
    <3>4. \A x \in All : ext[x] = e[x] + (IF x = o THEN 1 ELSE 0)
      BY <2>5, PlusNat
    <3>5. \A x \in All : e[x] \in Nat /\ ext'[x] \in Nat
      BY <1>5, <2>5
    <3> HIDE DEF e
    <3>6. \A x \in All : ext'[x] = Plus(e, s)[x]
      BY <2>3, <3>1, <3>2, <3>3, <3>4, <3>5
    <3>. QED
      BY <1>5, <3>3, <3>6
  <2> HIDE DEF e
  <2>7. /\ HeapOK(heap', Plus(e, heap[o].holds)) /\ e[o] = 0
        /\ \A p \in Objects : heap[p].holds # o
    BY <1>1, <1>8, <2>2, <2>4, <2>5, HeapFree
  <2>8. HeapOK(heap', ext')
    BY <2>6, <2>7 DEF HeldBy
  <2>9. owed' \in [Threads -> All \cup {Null}]
    BY <1>1, <2>1, <2>2, Names DEF TypeOK
  <2>10. heap'[Factory] = heap[Factory] /\ \A q \in All : q # o => heap'[q] = heap[q]
    BY <1>8, <2>4, Names DEF Updates
  <2>11. ext'[Factory] = ext[Factory]
    <3>1. s # Factory /\ o # Factory /\ Factory \in All
      BY <2>2, Names
    <3>2. ext'[Factory] = e[Factory] /\ ext[Factory] = e[Factory]
      BY <1>5, <2>5, <2>6, <3>1, PlusNat
    <3>. QED
      BY <3>2
  <2>12. heap'[o].kind = "free"
    BY <2>4, FreshFields DEF Updates
  <2>13. RouterInv'
    <3>1. ~Router(o)
      <4>1. ext[o] = 1 /\ owed[t] = o
        BY <1>2, <1>5, <2>5, <2>7, PlusNat
      <4>2. ASSUME NEW v \in Vars, owner[v] = o
            PROVE  FALSE
        <5>1. ext[o] = Count(Vars, owner, o) + Same(raw, o) + Count(Threads, owed, o)
          BY <1>2 DEF ext, Ext
        <5>2. Count(Vars, owner, o) \in Nat /\ Count(Vars, owner, o) # 0
          BY <4>2, CountNat, ObjectsConstants DEF ObjectsConstants
        <5>3. Count(Threads, owed, o) \in Nat /\ Count(Threads, owed, o) # 0
          BY <4>1, CountNat, ObjectsConstants DEF ObjectsConstants
        <5>. QED
          BY <4>1, <5>1, <5>2, <5>3 DEF Same
      <4>. QED
        BY <4>2 DEF Router
    <3>2. \A q \in Objects : q # o => SameRole(heap[q], heap'[q])
      BY <2>10, Names DEF SameRole
    <3>. QED
      BY <1>1, <1>6, <2>12, <3>1, <3>2, RoutersKept
  <2>14. \A q \in Objects : heap'[q].kind \in {"plugin", "service"} =>
           heap[q].kind \in {"plugin", "service"}
    BY <2>10, <2>12, Names
  <2>. QED
    BY <1>2, <1>7, <2>8, <2>9, <2>10, <2>11, <2>13, <2>14, ObjectsStep
<1>9. CASE ~(heap[o].refs = 1 /\ o # Factory)
  <2> DEFINE n == heap[o].refs - 1  x == [heap[o] EXCEPT !.refs = n]
  <2>1. heap' = [heap EXCEPT ![o] = x] /\ owed' = [owed EXCEPT ![t] = Null]
    BY <1>9 DEF GiveBack
  <2>2. Plus(ext', o) = ext
    <3>1. Plus(ext', o) = Plus(ext, Null)
      BY <1>1, <1>2, <2>1, OwedExt
    <3>. QED
      BY <1>5, <3>1, PlusNull
  <2>3. ext'[o] = ext[o] - 1 /\ \A q \in All : q # o => ext'[q] = ext[q]
    <3>1. \A q \in All : ext[q] = ext'[q] + (IF q = o THEN 1 ELSE 0)
      BY <1>5, <2>2, PlusNat
    <3>. QED
      BY <1>2, <1>5, <3>1
  <2>4. n \in Int
    BY <1>3
  <2>5. /\ x \in Object /\ x.refs = n /\ x.kind = heap[o].kind /\ x.holds = heap[o].holds
        /\ x.extra_qi_ctx = heap[o].extra_qi_ctx
    BY <1>3, <2>4, RefsOnly
  <2> HIDE DEF x
  <2>6. Updates(heap', heap, o, x)
    BY <1>2, <1>3, <2>1, <2>5, Updated
  <2>7. \A q \in All : SameRole(heap[q], heap'[q])
    BY <2>5, <2>6 DEF SameRole, Updates
  <2>8. owed' \in [Threads -> All \cup {Null}]
    BY <1>1, <2>1 DEF TypeOK
  <2>9. RouterInv'
    BY <1>1, <1>6, <2>7, RoutersKept, Names
  <2>10. CASE o \in Objects
    <3>1. heap[o].kind # "free"
      BY <1>1, <1>4, <1>5, <2>10, LiveIfPointed, Names
    <3>2. /\ heap[o].refs = ext[o] + Holders(heap, o) /\ Holders(heap, o) \in Nat
          /\ ext[o] \in Nat
      BY <1>1, <1>2, <1>5, <2>10, HoldersNat DEF HeapOK, Balanced
    <3>3. x.refs > 0 /\ x.refs - heap[o].refs = ext'[o] - ext[o]
      BY <1>2, <1>4, <1>5, <1>9, <2>3, <2>5, <2>10, <3>2, Names
    <3>4. HeapOK(heap', ext')
      BY <1>1, <1>5, <2>3, <2>5, <2>6, <2>10, <3>1, <3>3, HeapCounts, Names
    <3>5. heap'[Factory] = heap[Factory] /\ ext'[Factory] = ext[Factory]
      BY <2>3, <2>6, <2>10, Names DEF Updates
    <3>6. \A q \in Objects : heap'[q].kind = heap[q].kind
      BY <2>7, Names DEF SameRole
    <3>. QED
      BY <1>2, <1>7, <2>8, <2>9, <3>4, <3>5, <3>6, ObjectsStep
  <2>11. CASE o = Factory
    <3>1. HeapOK(heap', ext')
      BY <1>1, <1>5, <2>3, <2>6, <2>11, HeapFactory, Names
    <3>2. Mapped /\ Mapped'
      BY <1>1, <1>2, <1>4, <2>11 DEF FactoryInv, Mapped, loading
    <3>3. heap'[Factory].refs = heap[Factory].refs - 1 /\ heap'[Factory].kind = heap[Factory].kind
      BY <2>5, <2>6, <2>11 DEF Updates
    <3>4. FactoryInv'
      <4>1. heap[Factory].refs = 1 + (IF module THEN 1 ELSE 0) + pinned + leaked + ext[Factory]
        BY <1>1, <3>2 DEF FactoryInv
      <4>2. /\ pinned \in Nat /\ leaked \in Nat /\ ext[Factory] \in Nat
            /\ (IF module THEN 1 ELSE 0) \in Nat
        BY <1>1, <1>5, Names, ObjectsConstants DEF TypeOK, ObjectsConstants
      <4>3. heap'[Factory].refs
              = 1 + (IF module THEN 1 ELSE 0) + pinned + leaked + ext'[Factory]
        BY <2>3, <2>11, <3>3, <4>1, <4>2
      <4>. QED
        BY <1>1, <1>2, <3>2, <3>3, <4>3 DEF FactoryInv, loading
    <3>5. TypeOK' /\ CodeOutlivesObjects'
      BY <1>1, <1>2, <1>7, <2>8, <3>1, <3>2 DEF TypeOK, HeapOK, loading, CodeOutlivesObjects
    <3>. QED
      BY <2>9, <3>1, <3>4, <3>5 DEF IInv
  <2>. QED
    BY <1>2, <2>10, <2>11 DEF All
<1>. QED
  BY <1>8, <1>9

-----------------------------------------------------------------------------
(* The host's and the plugin's objects                                     *)

LEMMA CreateRouterInv ==
  ASSUME IInv, NEW v \in Vars, CreateRouter(v)
  PROVE  IInv'
<1> DEFINE n == NewObject("router")
<1>1. PICK o \in Objects : FreshObject(o) /\ heap' = [heap EXCEPT ![o] = n] /\ Receives(v, o)
  BY DEF CreateRouter
<1>2. /\ Idle(ThreadOf[v]) /\ UNCHANGED <<raw, loading>> /\ owner[v] = Null
      /\ heap[o].kind = "free"
  BY <1>1 DEF CreateRouter, FreshObject
<1>3. HeapOK(heap, ext) /\ heap \in [All -> Object]
  BY Pieces DEF HeapOK
<1>4. n \in Object /\ n.kind = "router" /\ n.refs = 1 /\ n.holds = Null
  BY FreshFields DEF Kinds
<1> HIDE DEF n
<1>5. Updates(heap', heap, o, n)
  BY <1>1, <1>3, <1>4, Updated, Names
<1>6. HeapOK(heap', Plus(ext, o))
  BY <1>2, <1>3, <1>4, <1>5, HeapNew, ExtType
<1>7. /\ \A q \in Objects : q # o => SameRole(heap[q], heap'[q])
      /\ heap'[Factory] = heap[Factory] /\ heap'[o] = n
  BY <1>5, Names DEF Updates, SameRole
<1>8. ~Owns(v, "router")
  BY <1>2 DEF Owns, IsA
<1>. QED
  BY <1>1, <1>2, <1>4, <1>6, <1>7, <1>8, ReceiveNew

LEMMA CreateServicesInv ==
  ASSUME IInv, NEW v \in Vars, CreateServices(v)
  PROVE  IInv'
<1> DEFINE R == {Null} \cup {owner[u] : u \in {u \in Vars :
                                ThreadOf[u] = HostThread /\ Owns(u, "router")}}
<1>1. PICK o \in Objects, ui \in BOOLEAN, ctx \in R :
        /\ FreshObject(o)
        /\ heap' = [heap EXCEPT ![o] = [NewObject("services") EXCEPT
                                          !.on = ui, !.extra_qi_ctx = ctx]]
        /\ Receives(v, o)
  BY DEF CreateServices
<1> DEFINE n == NewObject("services")
           y == [n EXCEPT !.on = ui]
           x == [y EXCEPT !.extra_qi_ctx = ctx]
<1>2. /\ Idle(ThreadOf[v]) /\ ~(ThreadOf[v] = HostThread /\ Owns(v, "router"))
      /\ UNCHANGED <<raw, loading>> /\ heap[o].kind = "free"
  BY <1>1, Filled DEF CreateServices, FreshObject
<1>3. TypeOK /\ HeapOK(heap, ext) /\ heap \in [All -> Object]
  BY Pieces DEF HeapOK
<1>4. ctx \in Objects \cup {Null} /\ (ctx # Null => Router(ctx))
  <2>1. CASE ctx = Null
    BY <2>1
  <2>2. CASE ctx # Null
    <3>1. PICK u \in Vars : ThreadOf[u] = HostThread /\ Owns(u, "router") /\ owner[u] = ctx
      BY <2>2
    <3>2. owner[u] \in Objects /\ heap[owner[u]].kind = "router"
      BY <3>1, OwnsObject
    <3>. QED
      BY <3>1, <3>2 DEF Router
  <2>. QED
    BY <2>1, <2>2
<1> HIDE DEF R
<1>5. n \in Object /\ n.kind = "services" /\ n.refs = 1 /\ n.holds = Null
  BY FreshFields DEF Kinds
<1>6. heap' = [heap EXCEPT ![o] = x]
  <2>1. [n EXCEPT !.on = ui, !.extra_qi_ctx = ctx] = x
    BY DEF NewObject, Free
  <2>. QED
    BY <1>1, <2>1
<1> HIDE DEF n
<1>7. y \in Object /\ y.kind = "services" /\ y.refs = 1 /\ y.holds = Null
  BY <1>5 DEF Object
<1> HIDE DEF y
<1>8. /\ x \in Object /\ x.kind = "services" /\ x.refs = 1 /\ x.holds = Null
      /\ x.extra_qi_ctx = ctx
  BY <1>4, <1>7 DEF Object
<1> HIDE DEF x
<1>9. Updates(heap', heap, o, x)
  BY <1>3, <1>6, <1>8, Updated, Names
<1>10. HeapOK(heap', Plus(ext, o))
  BY <1>2, <1>3, <1>8, <1>9, HeapNew, ExtType
<1>11. /\ \A q \in Objects : q # o => SameRole(heap[q], heap'[q])
       /\ heap'[Factory] = heap[Factory] /\ heap'[o] = x
  BY <1>9, Names DEF Updates, SameRole
<1>. QED
  BY <1>1, <1>2, <1>4, <1>8, <1>10, <1>11, ReceiveNew

\* A window is set, a service starts or stops: who points to whom stays.
SetOn(h, p, b) == [h EXCEPT ![p].on = b]

LEMMA OnUpdates ==
  ASSUME NEW h \in [All -> Object], NEW p \in Objects \cup {Null}, NEW b \in BOOLEAN
  PROVE  /\ SetOn(h, p, b) \in [All -> Object] /\ SetOn(h, p, b)[Factory] = h[Factory]
         /\ \A q \in All : /\ SetOn(h, p, b)[q].refs = h[q].refs
                           /\ SetOn(h, p, b)[q].holds = h[q].holds
                           /\ SameRole(h[q], SetOn(h, p, b)[q])
<1>1. CASE p = Null
  <2>1. SetOn(h, p, b) = h
    BY <1>1, Names DEF SetOn
  <2>. QED
    BY <2>1 DEF SameRole
<1>2. CASE p \in Objects
  <2> DEFINE x == [h[p] EXCEPT !.on = b]
  <2>1. p \in All /\ p # Factory /\ h[p] \in Object
    BY <1>2, Names
  <2>2. SetOn(h, p, b) = [h EXCEPT ![p] = x]
    BY DEF SetOn
  <2>3. x \in Object /\ x.refs = h[p].refs /\ x.holds = h[p].holds
    BY <2>1 DEF Object
  <2>4. x.kind = h[p].kind /\ x.extra_qi_ctx = h[p].extra_qi_ctx
    BY <2>1 DEF Object
  <2> HIDE DEF x
  <2>5. Updates(SetOn(h, p, b), h, p, x)
    BY <2>1, <2>2, <2>3, Updated
  <2>. QED
    BY <2>1, <2>3, <2>4, <2>5, Names DEF Updates, SameRole
<1>. QED
  BY <1>1, <1>2

LEMMA FlagStep ==
  ASSUME IInv, NEW p \in Objects \cup {Null}, NEW b \in BOOLEAN,
         heap' = SetOn(heap, p, b), UNCHANGED <<owner, raw, owed, loading>>
  PROVE  IInv'
<1>1. TypeOK /\ HeapOK(heap, ext) /\ RouterInv /\ heap \in [All -> Object]
  BY Pieces DEF HeapOK
<1>2. ext' = ext
  BY DEF ext
<1>3. /\ heap' \in [All -> Object] /\ heap'[Factory] = heap[Factory]
      /\ \A q \in All : /\ heap'[q].refs = heap[q].refs /\ heap'[q].holds = heap[q].holds
                        /\ SameRole(heap[q], heap'[q])
  BY <1>1, OnUpdates
<1>4. HeapOK(heap', ext)
  <2>1. \A q \in Objects : /\ heap'[q].refs = heap[q].refs /\ heap'[q].holds = heap[q].holds
                           /\ heap'[q].kind = heap[q].kind
    BY <1>3, Names DEF SameRole
  <2>. QED
    BY <1>1, <1>3, <2>1, ExtType, HeapSame
<1>5. \A q \in Objects : SameRole(heap[q], heap'[q])
  BY <1>3, Names
<1>6. RouterInv'
  <2>1. \A r \in Objects : Router(r) => StillOwned(r)
    BY DEF Router, StillOwned
  <2>. QED
    BY <1>1, <1>5, <2>1, RoutersKept, Names
<1>7. /\ owner' \in [Vars -> All \cup {Null}] /\ raw' \in All \cup {Null}
      /\ owed' \in [Threads -> All \cup {Null}] /\ UNCHANGED loading
  BY <1>1 DEF TypeOK
<1>8. \A q \in Objects : heap'[q].kind = heap[q].kind
  BY <1>5 DEF SameRole
<1>. QED
  BY <1>2, <1>3, <1>4, <1>6, <1>7, <1>8, ObjectsStep

LEMMA SetUiWindowInv ==
  ASSUME IInv, NEW v \in Vars, SetUiWindow(v)
  PROVE  IInv'
<1> DEFINE p == owner[v]  b == ~heap[p].on
<1>1. p \in Objects
  BY OwnsObject DEF SetUiWindow
<1>2. b \in BOOLEAN
  OBVIOUS
<1>3. heap' = SetOn(heap, p, b)
  BY DEF SetUiWindow, SetOn
<1>. QED
  BY <1>1, <1>2, <1>3, FlagStep DEF SetUiWindow

LEMMA RunningInv ==
  ASSUME IInv, NEW v \in Vars, ServiceStart(v) \/ ServiceStop(v) \/ Terminate(v)
  PROVE  IInv'
<1>1. CASE ServiceStart(v) \/ ServiceStop(v)
  <2>1. owner[v] \in Objects
    BY <1>1, OwnsObject DEF ServiceStart, ServiceStop
  <2>2. heap[owner[v]].holds \in Objects \cup {Null}
    BY <2>1, Names, HeldIsObject, Pieces DEF TypeOK
  <2>. QED
    BY <1>1, <2>2, FlagStep DEF ServiceStart, ServiceStop, SetRunning, SetOn
<1>2. CASE Terminate(v)
  <2>1. owner[v] \in Objects
    BY <1>2, OwnsObject DEF Terminate
  <2>. QED
    BY <1>2, <2>1, FlagStep DEF Terminate, SetRunning, SetOn
<1>. QED
  BY <1>1, <1>2

\* A query makes a wrapper of what the asked variable owns.
LEMMA WrapperInv ==
  ASSUME IInv, NEW u \in Vars, NEW v \in Vars, NEW kind \in {"ui", "service"},
         Owns(v, IF kind = "ui" THEN "services" ELSE "plugin"), QueryWrapper(u, v, kind)
  PROVE  IInv'
<1> DEFINE s == owner[v]
<1>1. PICK o \in Objects :
        /\ FreshObject(o)
        /\ heap' = [PinsOwner(heap, s) EXCEPT ![o] = Wrapper(kind, s)]
        /\ Receives(u, o)
  BY DEF QueryWrapper
<1>2. /\ Idle(ThreadOf[u]) /\ ~(ThreadOf[u] = HostThread /\ Owns(u, "router"))
      /\ UNCHANGED <<raw, loading>> /\ heap[o].kind = "free"
  BY <1>1, Filled DEF QueryWrapper, FreshObject
<1>3. HeapOK(heap, ext) /\ CodeOutlivesObjects
  BY Pieces
<1>4. s \in Objects /\ heap[s].kind = (IF kind = "ui" THEN "services" ELSE "plugin")
  BY OwnsObject
<1> HIDE DEF s
<1>5. /\ HeapOK(heap', Plus(ext, o))
      /\ heap'[o].kind = kind
      /\ \A q \in All : q # o => SameRole(heap[q], heap'[q])
      /\ heap'[Factory] = heap[Factory]
  <2> DEFINE g == Wrapped(heap, o, kind, s)
  <2>1. /\ HeapOK(g, Plus(ext, o))
        /\ g[o].kind = kind
        /\ \A q \in All : q # o => SameRole(heap[q], g[q])
        /\ g[Factory] = heap[Factory]
    BY <1>2, <1>3, <1>4, ExtType, HeapWrap
  <2>2. heap' = g
    BY <1>1 DEF Wrapped
  <2> HIDE DEF g
  <2>. QED
    BY <2>1, <2>2
<1>6. kind = "service" => Mapped
  BY <1>3, <1>4, Names DEF CodeOutlivesObjects
<1>. QED
  BY <1>1, <1>2, <1>5, <1>6, ReceiveNew, Names

LEMMA QueriesInv ==
  ASSUME IInv, NEW u \in Vars, NEW v \in Vars, QueryUI(u, v) \/ QueryService(u, v)
  PROVE  IInv'
<1>1. CASE QueryUI(u, v)
  BY <1>1, WrapperInv DEF QueryUI
<1>2. CASE QueryService(u, v)
  BY <1>2, WrapperInv DEF QueryService
<1>. QED
  BY <1>1, <1>2

\* A plugin instance o as its factory hands it out, with services s.
Made(h, o, s) == KeepHost([h EXCEPT ![o] = NewObject("plugin")], o, s)

LEMMA NewPlugin ==
  ASSUME NEW h, NEW e \in [All -> Nat], HeapOK(h, e), NEW o \in Objects, h[o].kind = "free",
         NEW s \in Objects \cup {Null}, s # Null => h[s].kind = "services"
  PROVE  LET g == Made(h, o, s)
         IN  /\ HeapOK(g, Plus(e, o))
             /\ g[o].kind = "plugin"
             /\ \A q \in All : q # o => SameRole(h[q], g[q])
             /\ g[Factory] = h[Factory]
<1> DEFINE n == NewObject("plugin")
           b == [h EXCEPT ![o] = n]
<1>1. n \in Object /\ n.kind = "plugin" /\ n.refs = 1 /\ n.holds = Null
  BY FreshFields DEF Kinds
<1> HIDE DEF n
<1>2. h \in [All -> Object] /\ o \in All /\ o # Factory
  BY Names DEF HeapOK
<1>3. Updates(b, h, o, n)
  BY <1>1, <1>2, Updated
<1>4. b[o] = n /\ \A q \in All : q # o => b[q] = h[q]
  BY <1>3 DEF Updates
<1>5. HeapOK(b, Plus(e, o)) /\ Plus(e, o) \in [All -> Nat]
  BY <1>1, <1>3, HeapNew, PlusNat
<1>6. Made(h, o, s) = KeepHost(b, o, s)
  BY DEF Made, n
<1> HIDE DEF b
<1>7. b[o].kind = "plugin" /\ (s # Null => b[s].kind = "services")
  BY <1>1, <1>4, Names
<1>8. /\ HeapOK(KeepHost(b, o, s), Plus(e, o))
      /\ \A q \in All : SameRole(b[q], KeepHost(b, o, s)[q])
      /\ KeepHost(b, o, s)[Factory] = b[Factory]
  BY <1>5, <1>7, HeapKeepHost
<1>9. KeepHost(b, o, s)[o].kind = "plugin"
  BY <1>2, <1>7, <1>8 DEF SameRole
<1>10. \A q \in All : q # o => SameRole(h[q], KeepHost(b, o, s)[q])
  BY <1>4, <1>8
<1>11. KeepHost(b, o, s)[Factory] = h[Factory]
  BY <1>2, <1>4, <1>8, Names
<1>. QED
  BY <1>6, <1>8, <1>9, <1>10, <1>11

\* What the services that are offered to a plugin are.
LEMMA OfferedServices ==
  ASSUME NEW s \in Services
  PROVE  s \in Objects \cup {Null} /\ (s # Null => heap[s].kind = "services")
BY DEF Services, IsA

LEMMA CreateInstanceInv ==
  ASSUME IInv, NEW u \in Vars, NEW v \in Vars, CreateInstance(u, v)
  PROVE  IInv'
<1>1. PICK o \in Objects, s \in Services :
        FreshObject(o) /\ heap' = Made(heap, o, s) /\ Receives(u, o)
  BY DEF CreateInstance, Made
<1>2. /\ Idle(ThreadOf[u]) /\ ~(ThreadOf[u] = HostThread /\ Owns(u, "router"))
      /\ UNCHANGED <<raw, loading>> /\ heap[o].kind = "free"
  BY <1>1, Filled DEF CreateInstance, FreshObject
<1>3. TypeOK /\ HeapOK(heap, ext)
  BY Pieces
<1>4. Mapped
  <2>1. owner[v] \in All /\ heap[owner[v]].kind = "factory"
    BY <1>3 DEF TypeOK, CreateInstance, Owns, IsA
  <2>. QED
    BY <2>1, FactoryKnown
<1>5. s \in Objects \cup {Null} /\ (s # Null => heap[s].kind = "services")
  BY OfferedServices
<1>6. /\ HeapOK(heap', Plus(ext, o))
      /\ heap'[o].kind = "plugin"
      /\ \A q \in All : q # o => SameRole(heap[q], heap'[q])
      /\ heap'[Factory] = heap[Factory]
  BY <1>1, <1>2, <1>3, <1>5, ExtType, NewPlugin
<1>. QED
  BY <1>1, <1>2, <1>4, <1>6, ReceiveNew, Names

LEMMA InitializeInv ==
  ASSUME IInv, NEW v \in Vars, Initialize(v)
  PROVE  IInv'
<1> DEFINE p == owner[v]
<1>1. PICK s \in Services : heap' = KeepHost(heap, p, s)
  BY DEF Initialize
<1>2. TypeOK /\ HeapOK(heap, ext) /\ RouterInv /\ UNCHANGED <<owner, raw, owed, loading>>
  BY Pieces DEF Initialize
<1>3. p \in Objects /\ heap[p].kind = "plugin"
  BY OwnsObject DEF Initialize
<1>4. s \in Objects \cup {Null} /\ (s # Null => heap[s].kind = "services")
  BY OfferedServices
<1> HIDE DEF p
<1>5. /\ HeapOK(heap', ext)
      /\ \A q \in All : SameRole(heap[q], heap'[q])
      /\ heap'[Factory] = heap[Factory]
  BY <1>1, <1>2, <1>3, <1>4, ExtType, HeapKeepHost
<1>6. ext' = ext
  BY <1>2 DEF ext
<1>7. RouterInv'
  <2>1. \A r \in Objects : Router(r) => StillOwned(r)
    BY <1>2 DEF Router, StillOwned
  <2>. QED
    BY <1>2, <1>5, <2>1, RoutersKept, Names
<1>8. /\ owner' \in [Vars -> All \cup {Null}] /\ raw' \in All \cup {Null}
      /\ owed' \in [Threads -> All \cup {Null}] /\ UNCHANGED loading
  BY <1>2 DEF TypeOK
<1>9. \A q \in Objects : heap'[q].kind = heap[q].kind
  BY <1>5, Names DEF SameRole
<1>. QED
  BY <1>5, <1>6, <1>7, <1>8, <1>9, ObjectsStep

-----------------------------------------------------------------------------
(* The module                                                              *)

\* After these steps the module is mapped.
LEMMA MappedStep ==
  ASSUME HeapOK(heap', ext'), owner' \in [Vars -> All \cup {Null}],
         raw' \in All \cup {Null}, owed' \in [Threads -> All \cup {Null}],
         module' \in BOOLEAN, pinned' \in 0 .. MaxPinned, leaked' \in Nat,
         Mapped', leaked' > 0 => pinned' > 0,
         heap'[Factory].kind = "factory",
         heap'[Factory].refs
           = 1 + (IF module' THEN 1 ELSE 0) + pinned' + leaked' + ext'[Factory],
         RouterInv'
  PROVE  IInv'
BY DEF IInv, TypeOK, FactoryInv, CodeOutlivesObjects, HeapOK

\* The factory as a load finds it or makes it anew, counted once more than before.
LEMMA TakenFactory ==
  ASSUME IInv
  PROVE  LET g == FactoryTaken(heap)
         IN  /\ HeapOK(g, ext)
             /\ \A o \in Objects : g[o] = heap[o]
             /\ g[Factory].kind = "factory"
             /\ g[Factory].refs
                  = 2 + (IF module THEN 1 ELSE 0) + pinned + leaked + ext[Factory]
<1>1. TypeOK /\ HeapOK(heap, ext) /\ FactoryInv /\ heap \in [All -> Object]
  BY Pieces DEF HeapOK
<1>2. /\ pinned \in Nat /\ leaked \in Nat /\ ext[Factory] \in Nat /\ module \in BOOLEAN
      /\ (IF module THEN 1 ELSE 0) \in Nat
  BY <1>1, ExtType, Names, ObjectsConstants DEF TypeOK, ObjectsConstants
<1>3. CASE Mapped
  <2> DEFINE g == AddRef(heap, Factory)
             x == [heap[Factory] EXCEPT !.refs = heap[Factory].refs + 1]
  <2>1. FactoryTaken(heap) = g
    BY <1>3 DEF FactoryTaken
  <2>2. /\ Updates(g, heap, Factory, x)
        /\ SameRole(heap[Factory], g[Factory])
        /\ g[Factory].refs = heap[Factory].refs + 1
        /\ \A q \in All : q # Factory => g[q] = heap[q]
    BY <1>1, Names, AddRefUpdates
  <2> HIDE DEF g, x
  <2>3. HeapOK(g, ext)
    BY <1>1, <2>2, ExtType, HeapFactory
  <2>4. /\ heap[Factory].kind = "factory"
        /\ heap[Factory].refs = 1 + (IF module THEN 1 ELSE 0) + pinned + leaked + ext[Factory]
    BY <1>1, <1>3 DEF FactoryInv
  <2>5. g[Factory].refs = 2 + (IF module THEN 1 ELSE 0) + pinned + leaked + ext[Factory]
    BY <1>2, <2>2, <2>4
  <2>. QED
    BY <2>1, <2>2, <2>3, <2>4, <2>5, Names DEF SameRole
<1>4. CASE ~Mapped
  <2> DEFINE n == NewObject("factory")
             x == [n EXCEPT !.refs = 2]
             g == [heap EXCEPT ![Factory] = x]
  <2>1. FactoryTaken(heap) = g
    BY <1>4 DEF FactoryTaken
  <2>2. n \in Object /\ n.kind = "factory"
    BY FreshFields DEF Kinds
  <2> HIDE DEF n
  <2>3. x \in Object /\ x.kind = "factory" /\ x.refs = 2
    BY <2>2, RefsOnly
  <2> HIDE DEF x
  <2>4. Updates(g, heap, Factory, x)
    BY <1>1, <2>3, Names, Updated
  <2> HIDE DEF g
  <2>5. HeapOK(g, ext)
    BY <1>1, <2>4, ExtType, HeapFactory
  <2>6. ~module /\ pinned = 0 /\ leaked = 0 /\ ext[Factory] = 0
    BY <1>1, <1>2, <1>4 DEF FactoryInv, Mapped
  <2>7. /\ g[Factory].kind = "factory" /\ g[Factory].refs = 2
        /\ \A o \in Objects : g[o] = heap[o]
    BY <2>3, <2>4, Names DEF Updates
  <2>. QED
    BY <2>1, <2>5, <2>6, <2>7
<1>. QED
  BY <1>3, <1>4

\* No variable changes, and of the heap the factory at most.
LEMMA ModuleOnly ==
  ASSUME IInv, UNCHANGED <<owner, raw, owed>>, \A o \in Objects : heap'[o] = heap[o]
  PROVE  /\ ext' = ext /\ RouterInv'
         /\ owner' \in [Vars -> All \cup {Null}] /\ raw' \in All \cup {Null}
         /\ owed' \in [Threads -> All \cup {Null}]
<1>1. TypeOK /\ RouterInv
  BY Pieces
<1>2. ext' = ext
  BY DEF ext
<1>3. RouterInv'
  <2>1. \A r \in Objects : Router(r) => StillOwned(r)
    BY DEF Router, StillOwned
  <2>2. \A q \in Objects : SameRole(heap[q], heap'[q])
    BY DEF SameRole
  <2>. QED
    BY <1>1, <2>1, <2>2, RoutersKept, Names
<1>. QED
  BY <1>1, <1>2, <1>3 DEF TypeOK

LEMMA LoadInv ==
  ASSUME IInv, Load \/ LoadFails
  PROVE  IInv'
<1> DEFINE g == FactoryTaken(heap)
<1>1. /\ HeapOK(g, ext)
      /\ \A o \in Objects : g[o] = heap[o]
      /\ g[Factory].kind = "factory"
      /\ g[Factory].refs = 2 + (IF module THEN 1 ELSE 0) + pinned + leaked + ext[Factory]
  BY TakenFactory
<1>2. heap' = g /\ ~module /\ UNCHANGED <<owner, raw, owed, pinned>>
  BY DEF Load, LoadFails
<1> HIDE DEF g
<1>3. TypeOK /\ FactoryInv
  BY Pieces
<1>4. /\ ext' = ext /\ RouterInv'
      /\ owner' \in [Vars -> All \cup {Null}] /\ raw' \in All \cup {Null}
      /\ owed' \in [Threads -> All \cup {Null}]
  BY <1>1, <1>2, ModuleOnly
<1>5. /\ pinned \in 0 .. MaxPinned /\ pinned \in Nat /\ leaked \in Nat /\ ext[Factory] \in Nat
  BY <1>3, ExtType, Names, ObjectsConstants DEF TypeOK, ObjectsConstants
<1>6. /\ module' \in BOOLEAN /\ leaked' \in Nat /\ Mapped'
      /\ leaked' > 0 => pinned' > 0
      /\ (IF module' THEN 1 ELSE 0) + leaked' = 1 + leaked
  <2>1. CASE Load
    BY <1>2, <1>3, <1>5, <2>1 DEF Load, Mapped, FactoryInv
  <2>2. CASE LoadFails
    <3>1. module' = FALSE
      BY <1>2, <1>3, <2>2 DEF LoadFails, TypeOK
    <3>2. leaked' = leaked + 1 /\ pinned' = pinned /\ pinned > 0
      BY <2>2 DEF LoadFails
    <3>3. Mapped'
      BY <3>2 DEF Mapped
    <3>4. (IF module' THEN 1 ELSE 0) = 0
      BY <3>1
    <3>5. leaked' \in Nat /\ (IF module' THEN 1 ELSE 0) + leaked' = 1 + leaked
      BY <1>5, <3>2, <3>4
    <3>. QED
      BY <3>1, <3>2, <3>3, <3>5
  <2>. QED
    BY <2>1, <2>2
<1>7. heap'[Factory].refs
        = 1 + (IF module' THEN 1 ELSE 0) + pinned' + leaked' + ext'[Factory]
  <2>1. (IF module THEN 1 ELSE 0) = 0 /\ (IF module' THEN 1 ELSE 0) \in Nat
    BY <1>2
  <2>2. heap'[Factory].refs = 2 + pinned + leaked + ext[Factory]
    BY <1>1, <1>2, <1>5, <2>1
  <2>3. pinned' = pinned /\ ext' = ext
    BY <1>2, <1>4
  <2> DEFINE m == IF module' THEN 1 ELSE 0
  <2>4. m \in Nat /\ m + leaked' = 1 + leaked /\ leaked' \in Nat
    BY <1>6, <2>1
  <2> HIDE DEF m
  <2>5. heap'[Factory].refs = 1 + m + pinned' + leaked' + ext'[Factory]
    BY <1>5, <2>2, <2>3, <2>4
  <2>. QED
    BY <2>5 DEF m
<1>8. HeapOK(heap', ext') /\ heap'[Factory].kind = "factory" /\ pinned' \in 0 .. MaxPinned
  BY <1>1, <1>2, <1>4, <1>5
<1>. QED
  BY <1>4, <1>6, <1>7, <1>8, MappedStep

LEMMA UnloadInv ==
  ASSUME IInv, Unload
  PROVE  IInv'
<1>1. /\ TypeOK /\ HeapOK(heap, ext) /\ FactoryInv /\ CodeOutlivesObjects
      /\ heap \in [All -> Object]
  BY Pieces DEF HeapOK
<1>2. /\ module = TRUE /\ module' = FALSE /\ UNCHANGED <<owner, raw, owed, pinned, leaked>>
      /\ NobodyOwns({"plugin", "service", "factory"})
  BY <1>1 DEF Unload, NothingOfModule, TypeOK
<1>3. /\ heap[Factory].kind = "factory"
      /\ heap[Factory].refs = 2 + pinned + leaked + ext[Factory]
      /\ pinned \in 0 .. MaxPinned /\ pinned \in Nat /\ leaked \in Nat
  <2>1. Mapped /\ (IF module THEN 1 ELSE 0) = 1
    BY <1>2 DEF Mapped
  <2>2. /\ heap[Factory].kind = "factory"
        /\ heap[Factory].refs = 1 + (IF module THEN 1 ELSE 0) + pinned + leaked + ext[Factory]
    BY <1>1, <2>1 DEF FactoryInv
  <2>3. pinned \in 0 .. MaxPinned /\ pinned \in Nat /\ leaked \in Nat
    BY <1>1, ObjectsConstants DEF TypeOK, ObjectsConstants
  <2>4. ext[Factory] \in Nat
    BY ExtType, Names
  <2>. QED
    BY <2>1, <2>2, <2>3, <2>4
<1>4. ext[Factory] = 0
  BY <1>2, <1>3, NobodyPoints, Names
<1>5. \A o \in Objects : heap[o].kind \notin {"plugin", "service"}
  <2>1. \A o \in Objects : heap[o].kind \in {"plugin", "service"} => ext[o] = 0
    BY <1>2, NobodyPoints, Names
  <2>. QED
    BY <1>1, <2>1, ExtType, NoneLeft
<1>6. CASE pinned > 0
  <2> DEFINE n == heap[Factory].refs - 1  x == [heap[Factory] EXCEPT !.refs = n]
  <2>1. heap' = [heap EXCEPT ![Factory] = x]
    BY <1>6 DEF Unload, FactoryGone
  <2>2. heap[Factory] \in Object /\ n \in Int
    BY <1>1, Names, HeldIsObject
  <2>3. x \in Object /\ x.refs = n /\ x.kind = heap[Factory].kind
    BY <2>2, RefsOnly
  <2> HIDE DEF x
  <2>4. Updates(heap', heap, Factory, x)
    BY <1>1, <2>1, <2>3, Names, Updated
  <2>5. \A o \in Objects : heap'[o] = heap[o]
    BY <2>4, Names DEF Updates
  <2>6. /\ ext' = ext /\ RouterInv'
        /\ owner' \in [Vars -> All \cup {Null}] /\ raw' \in All \cup {Null}
        /\ owed' \in [Threads -> All \cup {Null}]
    BY <1>2, <2>5, ModuleOnly
  <2>7. HeapOK(heap', ext')
    BY <1>1, <2>4, <2>6, ExtType, HeapFactory
  <2>8. heap'[Factory].kind = "factory" /\ heap'[Factory].refs = 1 + pinned + leaked + ext[Factory]
    BY <1>3, <1>4, <2>3, <2>4 DEF Updates
  <2>9. Mapped' /\ pinned' \in 0 .. MaxPinned /\ leaked' \in Nat /\ (leaked' > 0 => pinned' > 0)
    BY <1>2, <1>3, <1>6 DEF Mapped
  <2>10. heap'[Factory].refs
           = 1 + (IF module' THEN 1 ELSE 0) + pinned' + leaked' + ext'[Factory]
    <3>1. (IF module' THEN 1 ELSE 0) = 0
      BY <1>2
    <3>. QED
      BY <1>2, <1>3, <1>4, <2>6, <2>8, <3>1
  <2>11. module' \in BOOLEAN
    BY <1>2
  <2>. QED
    BY <2>6, <2>7, <2>8, <2>9, <2>10, <2>11, MappedStep
<1>7. CASE ~(pinned > 0)
  <2>1. heap' = [heap EXCEPT ![Factory] = Free]
    BY <1>7 DEF Unload, FactoryGone
  <2>2. Updates(heap', heap, Factory, Free)
    BY <1>1, <2>1, Names, Updated, FreshFields
  <2>3. \A o \in Objects : heap'[o] = heap[o]
    BY <2>2, Names DEF Updates
  <2>4. /\ ext' = ext /\ RouterInv'
        /\ owner' \in [Vars -> All \cup {Null}] /\ raw' \in All \cup {Null}
        /\ owed' \in [Threads -> All \cup {Null}]
    BY <1>2, <2>3, ModuleOnly
  <2>5. HeapOK(heap', ext')
    BY <1>1, <2>2, <2>4, ExtType, HeapFactory
  <2>6. heap'[Factory].kind = "free"
    BY <2>2, FreshFields DEF Updates
  <2>7. ~Mapped' /\ leaked' = 0
    <3>1. leaked = 0
      BY <1>1, <1>3, <1>7 DEF FactoryInv
    <3>. QED
      BY <1>2, <1>7, <3>1 DEF Mapped
  <2>8. FactoryInv'
    BY <1>4, <2>4, <2>6, <2>7 DEF FactoryInv
  <2>9. CodeOutlivesObjects'
    <3>1. \A o \in Objects : heap'[o].kind \notin {"plugin", "service", "factory"}
      BY <1>1, <1>5, <2>3 DEF HeapOK, Held
    <3>. QED
      BY <2>6, <3>1 DEF CodeOutlivesObjects, All
  <2>10. TypeOK'
    <3>1. module' \in BOOLEAN /\ pinned' \in 0 .. MaxPinned /\ leaked' \in Nat
      BY <1>2, <1>3
    <3>2. heap' \in [All -> Object]
      BY <2>5 DEF HeapOK
    <3>. QED
      BY <2>4, <3>1, <3>2 DEF TypeOK
  <2>. QED
    BY <2>4, <2>5, <2>8, <2>9, <2>10 DEF IInv
<1>. QED
  BY <1>6, <1>7

LEMMA GetFactoryInv ==
  ASSUME IInv, NEW u \in Vars, GetFactory(u)
  PROVE  IInv'
<1>1. /\ Idle(ThreadOf[u]) /\ ~(ThreadOf[u] = HostThread /\ Owns(u, "router"))
      /\ heap' = AddRef(heap, Factory) /\ Receives(u, Factory)
      /\ UNCHANGED <<raw, loading>> /\ Mapped
  BY Filled DEF GetFactory, Mapped
<1>. QED
  BY <1>1, ReceiveFactory

LEMMA CreatePluginInv ==
  ASSUME IInv, NEW u \in Vars, CreatePlugin(u)
  PROVE  IInv'
<1> DEFINE g == FactoryTaken(heap)
<1>1. PICK o \in Objects, s \in Services :
        FreshObject(o) /\ heap' = Made(g, o, s) /\ Receives(u, o)
  BY DEF CreatePlugin, Made
<1>2. /\ Idle(ThreadOf[u]) /\ ~(ThreadOf[u] = HostThread /\ Owns(u, "router"))
      /\ UNCHANGED <<raw, leaked>> /\ ~module /\ heap[o].kind = "free"
      /\ \/ module' = TRUE /\ pinned' = pinned
         \/ module' = module /\ pinned < MaxPinned /\ pinned' = pinned + 1
  BY <1>1, Filled DEF CreatePlugin, FreshObject
<1>3. TypeOK /\ RouterInv /\ FactoryInv
  BY Pieces
<1>4. /\ HeapOK(g, ext)
      /\ \A q \in Objects : g[q] = heap[q]
      /\ g[Factory].kind = "factory"
      /\ g[Factory].refs = 2 + (IF module THEN 1 ELSE 0) + pinned + leaked + ext[Factory]
  BY TakenFactory
<1> HIDE DEF g
<1>5. s \in Objects \cup {Null} /\ (s # Null => g[s].kind = "services")
  BY <1>4, OfferedServices
<1>6. /\ HeapOK(heap', Plus(ext, o))
      /\ heap'[o].kind = "plugin"
      /\ \A q \in All : q # o => SameRole(g[q], heap'[q])
      /\ heap'[Factory] = g[Factory]
  BY <1>1, <1>2, <1>4, <1>5, ExtType, NewPlugin
<1>7. ext' = Plus(ext, o)
  BY <1>1, <1>2, <1>3, ReceivesExt
<1>8. ext'[Factory] = ext[Factory]
  BY <1>7, ExtType, PlusNat, Names
<1>9. /\ owner' \in [Vars -> All \cup {Null}] /\ owed' \in [Threads -> All \cup {Null}]
      /\ raw' \in All \cup {Null}
  <2>1. owner' \in [Vars -> All \cup {Null}] /\ owed' \in [Threads -> All \cup {Null}]
    BY <1>1, <1>3, Names, ReceivesTyped
  <2>. QED
    BY <1>2, <1>3, <2>1 DEF TypeOK
<1>10. RouterInv'
  <2>1. \A r \in Objects : Router(r) => StillOwned(r)
    BY <1>1, <1>2, <1>3, Names, ReceivesKeeps
  <2>2. \A q \in Objects : q # o => SameRole(heap[q], heap'[q])
    BY <1>4, <1>6, Names
  <2>3. ~Router(o)
    BY <1>2 DEF Router
  <2>. QED
    BY <1>3, <1>6, <2>1, <2>2, <2>3, RoutersKept
<1>11. /\ pinned \in 0 .. MaxPinned /\ pinned \in Nat /\ leaked \in Nat
       /\ ext[Factory] \in Nat /\ MaxPinned \in Nat /\ (leaked > 0 => pinned > 0)
  BY <1>3, ExtType, Names, ObjectsConstants DEF TypeOK, ObjectsConstants, FactoryInv
<1>12. /\ module' \in BOOLEAN /\ pinned' \in 0 .. MaxPinned /\ pinned' \in Nat
       /\ Mapped' /\ pinned' >= pinned
       /\ (IF module' THEN 1 ELSE 0) + pinned' = 1 + pinned
  <2>1. CASE module' = TRUE /\ pinned' = pinned
    BY <1>11, <2>1 DEF Mapped
  <2>2. CASE module' = module /\ pinned < MaxPinned /\ pinned' = pinned + 1
    <3>1. module' = FALSE
      BY <1>2, <1>3, <2>2 DEF TypeOK
    <3>2. pinned' > 0 /\ pinned' \in 0 .. MaxPinned /\ pinned' \in Nat
      BY <1>11, <2>2
    <3>3. Mapped'
      BY <3>2 DEF Mapped
    <3>4. (IF module' THEN 1 ELSE 0) = 0
      BY <3>1
    <3>5. pinned' >= pinned /\ (IF module' THEN 1 ELSE 0) + pinned' = 1 + pinned
      BY <1>11, <2>2, <3>4
    <3>. QED
      BY <3>1, <3>2, <3>3, <3>5
  <2>. QED
    BY <1>2, <2>1, <2>2
<1>13. heap'[Factory].refs
         = 1 + (IF module' THEN 1 ELSE 0) + pinned' + leaked' + ext'[Factory]
  <2>1. (IF module THEN 1 ELSE 0) = 0 /\ (IF module' THEN 1 ELSE 0) \in Nat
    BY <1>2
  <2>. QED
    BY <1>2, <1>4, <1>6, <1>8, <1>11, <1>12, <2>1
<1>14. /\ HeapOK(heap', ext') /\ heap'[Factory].kind = "factory"
       /\ leaked' \in Nat /\ (leaked' > 0 => pinned' > 0)
  BY <1>2, <1>4, <1>6, <1>7, <1>11, <1>12
<1>. QED
  BY <1>9, <1>10, <1>12, <1>13, <1>14, MappedStep

\* What an instance that is made changes: its own place, and the count of the
\* services it keeps.
LEMMA MadeFields ==
  ASSUME NEW h \in [All -> Object], NEW o \in Objects, NEW s \in Objects \cup {Null}, s # o
  PROVE  LET g == Made(h, o, s)
         IN  /\ g \in [All -> Object] /\ g[o].holds = s
             /\ \A q \in All : q # o /\ q # s => g[q] = h[q]
             /\ s # Null => /\ g[s].refs = h[s].refs + 1
                            /\ g[s].holds = h[s].holds /\ SameRole(h[s], g[s])
<1> DEFINE n == NewObject("plugin")
           b == [h EXCEPT ![o] = n]
<1>1. n \in Object /\ n.holds = Null
  BY FreshFields DEF Kinds
<1>2. Made(h, o, s) = KeepHost(b, o, s)
  BY DEF Made
<1> HIDE DEF n
<1>3. Updates(b, h, o, n)
  BY <1>1, Names, Updated
<1> HIDE DEF b
<1>4. b \in [All -> Object] /\ b[o] = n /\ \A q \in All : q # o => b[q] = h[q]
  BY <1>3 DEF Updates
<1>5. CASE s = Null
  <2>1. Made(h, o, s) = b
    BY <1>2, <1>5 DEF KeepHost
  <2>. QED
    BY <1>1, <1>4, <1>5, <2>1
<1>6. CASE s # Null
  <2> DEFINE a == AddRef(b, s)
             x == [a[o] EXCEPT !.holds = s]
             g == [a EXCEPT ![o] = x]
  <2>1. s \in Objects /\ s \in All /\ o \in All
    BY <1>6, Names
  <2>2. /\ a \in [All -> Object] /\ a[s].refs = b[s].refs + 1
        /\ SameRole(b[s], a[s]) /\ a[s].holds = b[s].holds
        /\ \A q \in All : q # s => a[q] = b[q]
    BY <1>4, <2>1, AddRefUpdates
  <2>3. Made(h, o, s) = g
    BY <1>1, <1>2, <1>4, <1>6 DEF KeepHost
  <2> HIDE DEF a
  <2>4. a[o] \in Object
    BY <2>1, <2>2
  <2>5. x \in Object /\ x.holds = s
    BY <2>1, <2>4, HoldsOnly
  <2> HIDE DEF x
  <2>6. Updates(g, a, o, x)
    BY <2>1, <2>2, <2>5, Updated
  <2>7. g \in [All -> Object] /\ g[o] = x /\ \A q \in All : q # o => g[q] = a[q]
    BY <2>6 DEF Updates
  <2> HIDE DEF g
  <2>8. g[s] = a[s] /\ b[s] = h[s]
    BY <1>4, <2>1, <2>7
  <2>9. \A q \in All : q # o /\ q # s => g[q] = h[q]
    BY <1>4, <2>2, <2>7
  <2>. QED
    BY <2>2, <2>3, <2>5, <2>7, <2>8, <2>9
<1>. QED
  BY <1>5, <1>6

LEMMA CreatePluginFailsInv ==
  ASSUME IInv, NEW u \in Vars, CreatePluginFails(u)
  PROVE  IInv'
<1>1. PICK o \in Objects, s \in Services :
        /\ FreshObject(o)
        /\ LET made == Made(heap, o, s)
               held == made[o].holds
           IN  heap' = [(IF held = Null THEN made ELSE [made EXCEPT ![held].refs = @ - 1])
                          EXCEPT ![o] = Free]
  BY DEF CreatePluginFails, Made
<1> DEFINE made == Made(heap, o, s)
           n == made[s].refs - 1
           x == [made[s] EXCEPT !.refs = n]
           back == [made EXCEPT ![s] = x]
<1>2. /\ Idle(ThreadOf[u]) /\ ~(ThreadOf[u] = HostThread /\ Owns(u, "router"))
      /\ Receives(u, Null) /\ UNCHANGED <<raw, loading>> /\ heap[o].kind = "free"
  BY <1>1, Filled DEF CreatePluginFails, FreshObject
<1>3. TypeOK /\ RouterInv /\ HeapOK(heap, ext) /\ heap \in [All -> Object]
  BY Pieces DEF HeapOK
<1>4. s \in Objects \cup {Null} /\ (s # Null => heap[s].kind = "services")
  BY OfferedServices
<1>5. s # o
  BY <1>2, <1>4, Names
<1>6. /\ made \in [All -> Object] /\ made[o].holds = s
      /\ \A q \in All : q # o /\ q # s => made[q] = heap[q]
      /\ s # Null => /\ made[s].refs = heap[s].refs + 1
                     /\ made[s].holds = heap[s].holds /\ SameRole(heap[s], made[s])
  BY <1>3, <1>4, <1>5, MadeFields
<1>7. heap' = [(IF s = Null THEN made ELSE back) EXCEPT ![o] = Free]
  BY <1>1, <1>6
<1> HIDE DEF made
<1>8. /\ heap' \in [All -> Object] /\ heap'[o] = Free
      /\ \A q \in All : q # o =>
           /\ heap'[q].refs = heap[q].refs /\ heap'[q].holds = heap[q].holds
           /\ SameRole(heap[q], heap'[q])
  <2>1. CASE s = Null
    <3>1. Updates(heap', made, o, Free)
      BY <1>6, <1>7, <2>1, Names, Updated, FreshFields
    <3>2. \A q \in All : q # o => heap'[q] = heap[q]
      BY <1>6, <2>1, <3>1, Names DEF Updates
    <3>. QED
      BY <3>1, <3>2 DEF Updates, SameRole
  <2>2. CASE s # Null
    <3>1. s \in All /\ made[s] \in Object /\ n \in Int
      BY <1>4, <1>6, <2>2, Names, HeldIsObject
    <3>2. /\ x \in Object /\ x.refs = n /\ x.kind = made[s].kind /\ x.holds = made[s].holds
          /\ x.extra_qi_ctx = made[s].extra_qi_ctx
      BY <3>1, RefsOnly
    <3>3. heap[s].refs \in Int
      BY <1>3, <3>1, HeldIsObject
    <3>4. x.refs = heap[s].refs
      BY <1>6, <2>2, <3>2, <3>3
    <3> HIDE DEF x
    <3>5. Updates(back, made, s, x)
      BY <1>6, <3>1, <3>2, Updated
    <3>6. back \in [All -> Object] /\ back[s] = x /\ \A q \in All : q # s => back[q] = made[q]
      BY <3>5 DEF Updates
    <3> HIDE DEF back
    <3>7. Updates(heap', back, o, Free)
      BY <1>7, <2>2, <3>6, Names, Updated, FreshFields
    <3>8. heap' \in [All -> Object] /\ heap'[o] = Free /\ \A q \in All : q # o => heap'[q] = back[q]
      BY <3>7 DEF Updates
    <3>9. heap'[s] = x /\ SameRole(heap[s], x) /\ x.holds = heap[s].holds
      BY <1>5, <1>6, <2>2, <3>1, <3>2, <3>6, <3>8 DEF SameRole
    <3>10. \A q \in All : q # o /\ q # s => heap'[q] = heap[q]
      BY <1>6, <3>6, <3>8
    <3>11. ASSUME NEW q \in All, q # o
           PROVE  /\ heap'[q].refs = heap[q].refs /\ heap'[q].holds = heap[q].holds
                  /\ SameRole(heap[q], heap'[q])
      <4>1. CASE q = s
        BY <3>4, <3>9, <4>1
      <4>2. CASE q # s
        BY <3>10, <3>11, <4>2 DEF SameRole
      <4>. QED
        BY <4>1, <4>2
    <3>. QED
      BY <3>8, <3>11
  <2>. QED
    BY <2>1, <2>2
<1>9. HeapOK(heap', ext)
  <2>1. heap[o].refs = 0 /\ heap[o].holds = Null
    BY <1>2, <1>3 DEF HeapOK, Balanced, Held
  <2>2. ASSUME NEW q \in Objects
        PROVE  /\ heap'[q].refs = heap[q].refs /\ heap'[q].holds = heap[q].holds
               /\ heap'[q].kind = heap[q].kind
    <3>1. CASE q = o
      BY <1>2, <1>8, <2>1, <3>1, FreshFields
    <3>2. CASE q # o
      BY <1>8, <3>2, Names DEF SameRole
    <3>. QED
      BY <3>1, <3>2
  <2>. QED
    BY <1>3, <1>8, <2>2, ExtType, HeapSame
<1>10. ext' = ext
  BY <1>2, <1>3, ReceivesExt, PlusNull, ExtType
<1>11. /\ owner' \in [Vars -> All \cup {Null}] /\ owed' \in [Threads -> All \cup {Null}]
       /\ raw' \in All \cup {Null}
  <2>1. owner' \in [Vars -> All \cup {Null}] /\ owed' \in [Threads -> All \cup {Null}]
    BY <1>2, <1>3, ReceivesTyped
  <2>. QED
    BY <1>2, <1>3, <2>1 DEF TypeOK
<1>12. RouterInv'
  <2>1. \A r \in Objects : Router(r) => StillOwned(r)
    BY <1>2, <1>3, ReceivesKeeps
  <2>2. ~Router(o) /\ heap'[o].kind = "free"
    BY <1>2, <1>8, FreshFields DEF Router
  <2>3. \A q \in Objects : q # o => SameRole(heap[q], heap'[q])
    BY <1>8, Names
  <2>. QED
    BY <1>3, <2>1, <2>2, <2>3, RoutersKept
<1>13. \A q \in Objects : heap'[q].kind \in {"plugin", "service"} =>
         heap[q].kind \in {"plugin", "service"}
  BY <1>8, FreshFields, Names DEF SameRole
<1>14. heap'[Factory] = heap[Factory]
  <2>1. Factory # o /\ Factory # s /\ Factory \in All
    BY <1>4, Names
  <2>2. made[Factory] = heap[Factory]
    BY <1>6, <2>1
  <2>3. CASE s = Null
    BY <1>6, <1>7, <2>1, <2>2, <2>3
  <2>4. CASE s # Null
    BY <1>6, <1>7, <2>1, <2>2, <2>4
  <2>. QED
    BY <2>3, <2>4
<1>. QED
  BY <1>2, <1>9, <1>10, <1>11, <1>12, <1>13, <1>14, ObjectsStep

-----------------------------------------------------------------------------
(* The invariant                                                           *)

LEMMA InitIInv ==
  ASSUME Init
  PROVE  IInv
<1>1. \A o \in All : heap[o] = Free
  BY DEF Init
<1>2. TypeOK
  <2>1. Free \in Object
    BY FreshFields
  <2>2. heap \in [All -> Object] /\ pinned \in 0 .. MaxPinned
    BY <2>1, ObjectsConstants DEF Init, ObjectsConstants
  <2>. QED
    BY <2>2 DEF Init, TypeOK
<1>3. ext \in [All -> Nat] /\ \A o \in All : ext[o] = 0
  <2>1. ASSUME NEW o \in All
        PROVE  ext[o] = 0
    <3>1. raw # o /\ (\A v \in Vars : owner[v] # o) /\ \A t \in Threads : owed[t] # o
      BY Names DEF Init
    <3>. QED
      BY <3>1, ExtZero
  <2>. QED
    BY <2>1, ExtType
<1>4. HeapOK(heap, ext)
  <2>1. \A p \in Objects : heap[p].kind = "free" /\ heap[p].holds = Null /\ heap[p].refs = 0
    BY <1>1, FreshFields, Names
  <2>2. \A o \in Objects : Holders(heap, o) = 0
    BY <2>1, HoldersNat, Names
  <2>3. Balanced(heap, ext)
    BY <1>3, <2>1, <2>2, Names DEF Balanced
  <2>4. Held(heap)
    BY <2>1 DEF Held
  <2>. QED
    BY <1>2, <2>3, <2>4 DEF TypeOK, HeapOK
<1>5. \A o \in All : heap[o].kind = "free"
  BY <1>1, FreshFields
<1>6. FactoryInv
  <2>1. ~Mapped /\ leaked = 0
    BY DEF Init, Mapped
  <2>2. heap[Factory].kind = "free" /\ ext[Factory] = 0
    BY <1>3, <1>5, Names
  <2>. QED
    BY <2>1, <2>2 DEF FactoryInv
<1>7. CodeOutlivesObjects
  BY <1>5 DEF CodeOutlivesObjects
<1>8. RouterInv
  BY <1>5, Names DEF RouterInv
<1>. QED
  BY <1>2, <1>4, <1>6, <1>7, <1>8 DEF IInv

LEMMA StutterInv ==
  ASSUME IInv, UNCHANGED vars
  PROVE  IInv'
<1>1. UNCHANGED <<heap, owner, raw, owed, module, pinned, leaked>>
  BY DEF vars
<1>. QED
  BY <1>1 DEF IInv, TypeOK, HeapOK, ext, FactoryInv, Mapped, CodeOutlivesObjects, RouterInv

LEMMA NextInv ==
  ASSUME IInv, [Next]_vars
  PROVE  IInv'
<1>1. CASE Load \/ LoadFails
  BY <1>1, LoadInv
<1>2. CASE Unload
  BY <1>2, UnloadInv
<1>3. ASSUME NEW t \in Threads, GiveBack(t)
      PROVE  IInv'
  BY <1>3, GiveBackInv
<1>4. ASSUME NEW v \in Vars,
             \/ Reset(v) \/ Detach(v) \/ Adopt(v)
             \/ CreateRouter(v) \/ CreateServices(v) \/ SetUiWindow(v)
             \/ Initialize(v) \/ ServiceStart(v) \/ ServiceStop(v) \/ Terminate(v)
             \/ GetFactory(v) \/ CreatePlugin(v) \/ CreatePluginFails(v)
      PROVE  IInv'
  <2>1. CASE Reset(v)
    BY <2>1, ResetInv
  <2>2. CASE Detach(v)
    BY <2>2, DetachInv
  <2>3. CASE Adopt(v)
    BY <2>3, AdoptInv
  <2>4. CASE CreateRouter(v)
    BY <2>4, CreateRouterInv
  <2>5. CASE CreateServices(v)
    BY <2>5, CreateServicesInv
  <2>6. CASE SetUiWindow(v)
    BY <2>6, SetUiWindowInv
  <2>7. CASE Initialize(v)
    BY <2>7, InitializeInv
  <2>8. CASE ServiceStart(v) \/ ServiceStop(v) \/ Terminate(v)
    BY <2>8, RunningInv
  <2>9. CASE GetFactory(v)
    BY <2>9, GetFactoryInv
  <2>10. CASE CreatePlugin(v)
    BY <2>10, CreatePluginInv
  <2>11. CASE CreatePluginFails(v)
    BY <2>11, CreatePluginFailsInv
  <2>. QED
    BY <1>4, <2>1, <2>2, <2>3, <2>4, <2>5, <2>6, <2>7, <2>8, <2>9, <2>10, <2>11
<1>5. ASSUME NEW u \in Vars, NEW v \in Vars,
             \/ MoveAssign(u, v) \/ AddRefTo(u, v)
             \/ QueryUI(u, v) \/ QueryEvents(u, v) \/ QueryFails(u, v)
             \/ CreateInstance(u, v) \/ QueryService(u, v)
      PROVE  IInv'
  <2>1. CASE MoveAssign(u, v)
    BY <2>1, MoveAssignInv
  <2>2. CASE AddRefTo(u, v)
    BY <2>2, AddRefToInv
  <2>3. CASE QueryUI(u, v) \/ QueryService(u, v)
    BY <2>3, QueriesInv
  <2>4. CASE QueryEvents(u, v)
    BY <2>4, QueryEventsInv
  <2>5. CASE QueryFails(u, v)
    BY <2>5, QueryFailsInv
  <2>6. CASE CreateInstance(u, v)
    BY <2>6, CreateInstanceInv
  <2>. QED
    BY <1>5, <2>1, <2>2, <2>3, <2>4, <2>5, <2>6
<1>6. CASE UNCHANGED vars
  BY <1>6, StutterInv
<1>. QED
  BY <1>1, <1>2, <1>3, <1>4, <1>5, <1>6 DEF Next

\* The counts, the lifetimes and what the operations rely on hold together,
\* whatever owners, plugins and loads the host interleaves.
THEOREM AlwaysIInv == Spec => []IInv
<1>1. Init => IInv
  BY InitIInv
<1>2. IInv /\ [Next]_vars => IInv'
  BY NextInv
<1>. QED
  BY <1>1, <1>2, PTL DEF Spec

-----------------------------------------------------------------------------
(* What follows                                                            *)

LEMMA FactoryHeldByNobody ==
  ASSUME IInv
  PROVE  Holders(heap, Factory) = 0
<1>1. \A p \in Objects : heap[p].holds # Factory
  BY Pieces, Names, HeldIsObject DEF TypeOK
<1>. QED
  BY <1>1, HoldersNat

LEMMA PointersCounted ==
  ASSUME NEW o \in All
  PROVE  Pointers(o) = ext[o] + Holders(heap, o)
<1>1. ext[o] = Count(Vars, owner, o) + Same(raw, o) + Count(Threads, owed, o)
  BY DEF ext, Ext
<1>. QED
  BY <1>1 DEF Pointers, Count, Same, Holders

\* Every object is counted exactly as often as it is pointed to, so that it is
\* freed with its last pointer, not before and not never, whichever owners moved,
\* copied, queried or gave up references in whichever thread (pi_cpp.h and the
\* release functions of pi_plugin_host.c).
THEOREM ReferencesCountedExactly == Spec => []CountsExact
<1>1. ASSUME IInv
      PROVE  CountsExact
  <2>1. TypeOK /\ HeapOK(heap, ext) /\ FactoryInv
    BY <1>1, Pieces
  <2>2. \A o \in Objects : /\ heap[o].refs = Pointers(o)
                           /\ heap[o].kind = "free" <=> Pointers(o) = 0
    BY <2>1, PointersCounted, Names DEF HeapOK, Balanced
  <2>3. Pointers(Factory) = ext[Factory]
    <3>1. ext[Factory] \in Nat
      BY ExtType, Names
    <3>. QED
      BY <1>1, <3>1, PointersCounted, FactoryHeldByNobody, Names
  <2>4. Mapped => heap[Factory].refs =
          1 + (IF module THEN 1 ELSE 0) + pinned + leaked + Pointers(Factory)
    BY <2>1, <2>3 DEF FactoryInv
  <2>. QED
    BY <2>1, <2>2, <2>4 DEF CountsExact
<1>. QED
  BY <1>1, AlwaysIInv, PTL

\* No instance, service wrapper or factory of the module is left in any thread
\* when the module is unmapped (pi_unload_module()).
THEOREM NothingOutlivesItsCode == Spec => []CodeOutlivesObjects
<1>1. IInv => CodeOutlivesObjects
  BY Pieces
<1>. QED
  BY <1>1, AlwaysIInv, PTL

\* Whoever can still reach host services finds the router that their query hook
\* lends out alive, although they do not count it.
THEOREM RouterOutlives == Spec => []RouterOutlivesServices
<1>1. IInv => RouterOutlivesServices
  BY Pieces DEF RouterInv, RouterOutlivesServices
<1>. QED
  BY <1>1, AlwaysIInv, PTL

=============================================================================
