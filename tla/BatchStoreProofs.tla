-------------------------- MODULE BatchStoreProofs --------------------------
(***************************************************************************)
(* Theorems about BatchStore, for rings of every size and any set of        *)
(* packets, with and without faults.                                        *)
(***************************************************************************)
EXTENDS BatchUpload, TLAPS, FiniteSetTheorems, WellFoundedInduction

(* The ring has at least two slots. *)
LEMMA RingSize == MAX_FILE \in Nat /\ MAX_FILE > 1
  BY RingAssumption

-----------------------------------------------------------------------------
(* A set of naturals that is not empty has a least element.                  *)
LEMMA LeastNatural ==
    ASSUME NEW D, D \subseteq Nat, D # {}
    PROVE  \E d \in D : \A e \in D : d <= e
<1> DEFINE R == {ss \in Nat \X Nat : ss[1] < ss[2]}
<1>1. IsWellFoundedOn(R, Nat)
  <2>1. R = OpToRel(<, Nat)
    BY Zenon DEF OpToRel
  <2> QED
    BY <2>1, NatLessThanWellFounded, Zenon
<1>2. PICK d \in D : \A e \in D : ~ (<<e, d>> \in R)
  <2> HIDE DEF R
  <2> QED
    BY <1>1, WFMin
<1>3. SUFFICES ASSUME NEW e \in D PROVE d <= e
  OBVIOUS
<1>4. ~ (e < d)
  BY <1>2
<1> QED
  BY <1>4

(* The head's skipping loop stops at a slot of the ring: there is always a   *)
(* slot to stop at (the tail), and of those the nearest one is taken.        *)
LEMMA FirstStopInRing ==
    ASSUME NEW t, t.head \in Slots, t.tail \in Slots
    PROVE  /\ FirstStop(t) \in Stops(t)
           /\ \A r \in Stops(t) : Ahead(t, FirstStop(t)) <= Ahead(t, r)
<1> DEFINE D == {Ahead(t, r) : r \in Stops(t)}
<1>1. \A r \in Stops(t) : Ahead(t, r) \in Nat
  BY RingSize DEF Stops, Ahead, Slots
<1>2. D \subseteq Nat /\ D # {}
  BY <1>1 DEF Stops
<1>3. PICK d \in D : \A e \in D : d <= e
  <2> HIDE DEF D
  <2> QED
    BY <1>2, LeastNatural
<1>4. PICK s \in Stops(t) : d = Ahead(t, s)
  OBVIOUS
<1>5. \A r \in Stops(t) : Ahead(t, s) <= Ahead(t, r)
  BY <1>3, <1>4
<1> QED
  BY <1>5 DEF FirstStop

-----------------------------------------------------------------------------
(* What the operations make of a well-formed table is well formed.           *)

LEMMA EmptyTableType == EmptyTable \in Tables
  BY RingSize DEF EmptyTable, Tables, Slots, Types

LEMMA StoreType ==
    ASSUME NEW t \in Tables, NEW ty \in Types
    PROVE  MakeRoom(t) \in Tables /\ StoreIn(t, ty) \in Tables
<1> DEFINE r == MakeRoom(t)
<1>1. r \in Tables /\ r.total < MAX_FILE
  <2>1. CASE t.total >= MAX_FILE
    <3>1. Succ(t.head) \in Slots
      BY RingSize DEF Succ, Slots, Tables
    <3>2. t.total - 1 \in 0 .. MAX_FILE /\ t.total - 1 < MAX_FILE
      <4>1. t.total \in 0 .. MAX_FILE
        BY DEF Tables
      <4>2. MAX_FILE \in Nat /\ MAX_FILE > 1
        BY RingSize
      <4> QED
        BY <2>1, <4>1, <4>2
    <3> QED
      BY <2>1, <3>1, <3>2 DEF MakeRoom, DropOldest, Tables
  <2>2. CASE ~ (t.total >= MAX_FILE)
    BY <2>2, RingSize DEF MakeRoom, Tables
  <2> QED
    BY <2>1, <2>2
<1>2. AddAtTail(r, ty) \in Tables
  <2> HIDE DEF r
  <2>1. Succ(r.tail) \in Slots
    BY <1>1, RingSize DEF Succ, Slots, Tables
  <2>2. r.total + 1 \in 0 .. MAX_FILE
    BY <1>1, RingSize DEF Tables
  <2> QED
    BY <1>1, <2>1, <2>2 DEF AddAtTail, Tables
<1> QED
  BY <1>1, <1>2 DEF StoreIn

LEMMA DeleteType ==
    ASSUME NEW t \in Tables, NEW s \in Slots, t.total > 0
    PROVE  DeleteIn(t, s) \in Tables
<1> DEFINE c == ClearSlot(t, s)
           p == PullTail(c, s)
           h == SkipHead(p, s)
<1>1. c \in Tables /\ c.total > 0
  BY DEF ClearSlot, Tables, Types
<1>2. p \in Tables /\ p.total > 0
  BY <1>1 DEF PullTail, Tables
<1>3. h \in Tables /\ h.total > 0
  <2> HIDE DEF p
  <2>1. FirstStop(p) \in Slots
    BY <1>2, FirstStopInRing DEF Tables, Stops
  <2> QED
    BY <1>2, <2>1 DEF SkipHead, Tables
<1>4. CountDown(h) \in Tables
  <2> HIDE DEF h
  <2>1. h.total \in 0 .. MAX_FILE /\ h.total # 0
    BY <1>3 DEF Tables
  <2>2. h.total - 1 \in 0 .. MAX_FILE
    BY <2>1, RingSize
  <2> QED
    BY <1>3, <2>1, <2>2 DEF CountDown, Tables
<1> QED
  BY <1>4 DEF DeleteIn

LEMMA VisibleFinite ==
    ASSUME NEW t
    PROVE  Cardinality(Visible(t)) \in 0 .. MAX_FILE
<1>1. IsFiniteSet(Slots) /\ Cardinality(Slots) = MAX_FILE
  BY RingSize, FS_Interval DEF Slots
<1>2. Visible(t) \subseteq Slots
  BY DEF Visible
<1>3. /\ IsFiniteSet(Visible(t))
      /\ Cardinality(Visible(t)) <= MAX_FILE
  BY <1>1, <1>2, FS_Subset
<1> QED
  BY <1>3, FS_CardinalityType, RingSize

LEMMA RepairType ==
    ASSUME NEW t \in Tables
    PROVE  RepairIn(t) \in Tables
BY VisibleFinite DEF RepairIn, Tables

LEMMA ReloadType ==
    ASSUME TypeOK
    PROVE  Reload \in Tables
BY EmptyTableType DEF TypeOK, Reload, Tables

-----------------------------------------------------------------------------
(* TypeOK: neither table ever leaves its ranges; in particular no count      *)
(* wraps around below zero and none exceeds the ring.                        *)

LEMMA UpdateType ==
    ASSUME TypeOK, NEW t \in Tables, NEW d \in [Slots -> Packets \cup {Blank}],
           table' = t, UpdateFileTable(t, d)
    PROVE  TypeOK'
BY DEF TypeOK, UpdateFileTable, NoData

LEMMA TypeStep ==
    ASSUME TypeOK, [Next]_vars
    PROVE  TypeOK'
<1>1. Reload \in Tables
  BY ReloadType
<1>2. ASSUME NEW p \in Packets, Store(p) PROVE TypeOK'
  <2>1. TypeOf(p) \in Types
    BY DEF TypeOf, Types
  <2>2. MakeRoom(Reload) \in Tables /\ StoreIn(Reload, TypeOf(p)) \in Tables
    BY <1>1, <2>1, StoreType
  <2>3. [data EXCEPT ![MakeRoom(Reload).tail] = p]
            \in [Slots -> Packets \cup {Blank}]
    BY <2>2 DEF TypeOK, Tables
  <2> QED
    BY <1>2, <2>2, <2>3, UpdateType DEF Store
<1>3. ASSUME NEW p \in Packets, StoreFails(p) PROVE TypeOK'
  <2>1. MakeRoom(Reload) \in Tables
    BY <1>1, StoreType DEF Types
  <2> QED
    BY <1>3, <2>1 DEF StoreFails, TypeOK, Tables
<1>4. ASSUME NEW p \in Packets, StoreCut(p) PROVE TypeOK'
  BY <1>4, EmptyTableType DEF StoreCut, TypeOK
<1>5. ASSUME NEW s \in Slots, Delete(s) PROVE TypeOK'
  <2>1. Reload.total > 0
    BY <1>1, <1>5 DEF Delete, Visible, Tables
  <2>2. DeleteIn(Reload, s) \in Tables
    BY <1>1, <2>1, DeleteType
  <2> QED
    BY <1>5, <2>2, UpdateType DEF Delete, TypeOK
<1>6. ASSUME Repair PROVE TypeOK'
  <2>1. RepairIn(Reload) \in Tables
    BY <1>1, RepairType
  <2> QED
    BY <1>6, <2>1, UpdateType DEF Repair, TypeOK
<1>7. CASE Clear
  BY <1>7, EmptyTableType DEF Clear, TypeOK, NoData
<1>8. CASE Reboot
  BY <1>8, EmptyTableType DEF Reboot, TypeOK
<1>9. CASE UNCHANGED vars
  BY <1>9 DEF vars, TypeOK
<1>10. CASE ReloadFails
  BY <1>10, EmptyTableType, UpdateType DEF ReloadFails, TypeOK
<1>11. ASSUME NEW p \in Packets, StoreUnread(p) PROVE TypeOK'
  <2>1. TypeOf(p) \in Types
    BY DEF TypeOf, Types
  <2>2. StoreIn(EmptyTable, TypeOf(p)) \in Tables
    BY <2>1, EmptyTableType, StoreType
  <2>3. [data EXCEPT ![EmptyTable.tail] = p] \in [Slots -> Packets \cup {Blank}]
    BY EmptyTableType DEF TypeOK, Tables
  <2> QED
    BY <1>11, <2>2, <2>3, UpdateType DEF StoreUnread
<1> QED
  BY <1>2, <1>3, <1>4, <1>5, <1>6, <1>7, <1>8, <1>9, <1>10, <1>11 DEF Next

LEMMA TypeInit ==
    ASSUME Init
    PROVE  TypeOK
BY EmptyTableType DEF Init, TypeOK, NoData

(* Whatever is stored, deleted, repaired, cleared or lost, in any order and  *)
(* with any failure of the file system, the table stays well formed.         *)
THEOREM TypeCorrect == Spec => []TypeOK
<1>1. Init => TypeOK
  BY TypeInit
<1>2. TypeOK /\ [Next]_vars => TypeOK'
  BY TypeStep
<1> QED
  BY <1>1, <1>2, PTL DEF Spec

-----------------------------------------------------------------------------
(* RingHasNoGap.  It is inductive together with TypeOK: a store fills the    *)
(* slot at the tail, which a ring without a gap has free once the oldest     *)
(* packet has made room, and the deletion of the newest packet pulls the     *)
(* tail back and leaves the head where it is.                                *)

LEMMA EmptyNoGap == NoGap(EmptyTable)
  BY RingSize DEF NoGap, EmptyTable, InWindow, Slots

LEMMA RoomNoGap ==
    ASSUME NEW t \in Tables, NoGap(t)
    PROVE  NoGap(MakeRoom(t)) /\ MakeRoom(t).total < MAX_FILE
<1>0. /\ MAX_FILE \in Nat /\ MAX_FILE > 1
      /\ t.head \in Slots /\ t.tail \in Slots /\ t.total \in 0 .. MAX_FILE
  BY RingSize DEF Tables
<1>1. CASE t.total >= MAX_FILE
  <2>1. /\ t.head = t.tail /\ t.total = MAX_FILE /\ t.head \in Slots
        /\ \A s \in Slots : t.valid[s]
    <3>1. t.head = t.tail /\ t.total = MAX_FILE
      BY <1>0, <1>1 DEF NoGap, Slots
    <3>2. \A s \in Slots : InWindow(t, s)
      BY <1>0, <3>1 DEF InWindow, Slots
    <3> QED
      BY <1>0, <3>1, <3>2 DEF NoGap
  <2> DEFINE r == DropOldest(t)
  <2>2. /\ r.head = Succ(t.head) /\ r.tail = t.head /\ r.total = MAX_FILE - 1
        /\ \A s \in Slots : r.valid[s] <=> s # t.head
    BY <2>1 DEF DropOldest, Tables
  <2>3. NoGap(r)
    <3> HIDE DEF r
    <3>1. /\ r.head < r.tail => r.total = r.tail - r.head
          /\ r.tail < r.head => r.total = r.tail - r.head + MAX_FILE
          /\ r.head = r.tail => r.total \in {0, MAX_FILE}
      BY <1>0, <2>1, <2>2 DEF Succ, Slots
    <3>2. ASSUME NEW s \in Slots PROVE InWindow(r, s) <=> s # t.head
      BY <1>0, <2>1, <2>2 DEF InWindow, Succ, Slots
    <3> QED
      BY <2>2, <3>1, <3>2 DEF NoGap
  <2> QED
    BY <1>1, <2>2, <2>3, RingSize DEF MakeRoom
<1>2. CASE ~ (t.total >= MAX_FILE)
  BY <1>2, RingSize DEF MakeRoom, Tables
<1> QED
  BY <1>1, <1>2

LEMMA StoreNoGap ==
    ASSUME NEW t \in Tables, NoGap(t), NEW ty \in Types
    PROVE  NoGap(StoreIn(t, ty))
<1> DEFINE r == MakeRoom(t)
           u == AddAtTail(r, ty)
<1>1. r \in Tables /\ NoGap(r) /\ r.total < MAX_FILE
  BY StoreType, RoomNoGap
<1>2. /\ u.head = r.head /\ u.tail = Succ(r.tail) /\ u.total = r.total + 1
      /\ \A s \in Slots : u.valid[s] <=> s = r.tail \/ r.valid[s]
  <2> HIDE DEF r
  <2> QED
    BY <1>1 DEF AddAtTail, Tables
<1>3. NoGap(u)
  <2> HIDE DEF r, u
  <2>1. /\ r.head \in Slots /\ r.tail \in Slots
        /\ r.total \in 0 .. MAX_FILE - 1
        /\ MAX_FILE \in Nat /\ MAX_FILE > 1
    <3>1. MAX_FILE \in Nat /\ MAX_FILE > 1
      BY RingSize
    <3>2. r.head \in Slots /\ r.tail \in Slots /\ r.total \in 0 .. MAX_FILE
      BY <1>1 DEF Tables
    <3> QED
      BY <1>1, <3>1, <3>2
  <2>2. /\ u.head < u.tail => u.total = u.tail - u.head
        /\ u.tail < u.head => u.total = u.tail - u.head + MAX_FILE
        /\ u.head = u.tail => u.total \in {0, MAX_FILE}
    BY <1>1, <1>2, <2>1 DEF NoGap, Succ, Slots
  <2>3. ASSUME NEW s \in Slots
        PROVE  InWindow(u, s) <=> s = r.tail \/ InWindow(r, s)
    <3>1. /\ r.head < r.tail => r.total = r.tail - r.head
          /\ r.tail < r.head => r.total = r.tail - r.head + MAX_FILE
          /\ r.head = r.tail => r.total = 0
      BY <1>1, <2>1 DEF NoGap
    <3> QED
      BY <1>2, <2>1, <3>1 DEF InWindow, Succ, Slots
  <2> QED
    BY <1>1, <1>2, <2>2, <2>3 DEF NoGap
<1> QED
  BY <1>3 DEF StoreIn

LEMMA PopNoGap ==
    ASSUME NEW t \in Tables, NoGap(t), t.total > 0,
           NEW s \in Slots, s = Pred(t.tail)
    PROVE  NoGap(DeleteIn(t, s))
<1> DEFINE c == ClearSlot(t, s)
           p == PullTail(c, s)
           h == SkipHead(p, s)
           u == CountDown(h)
<1>1. /\ t.head \in Slots /\ t.tail \in Slots
      /\ t.total \in 0 .. MAX_FILE
      /\ MAX_FILE \in Nat
  BY RingSize DEF Tables
<1>2. /\ p.head = t.head /\ p.tail = s /\ p.total = t.total
      /\ \A r \in Slots : p.valid[r] <=> r # s /\ t.valid[r]
  BY DEF PullTail, ClearSlot, Tables
<1>3. s = t.head => t.total = 1
  BY <1>1, RingSize DEF NoGap, Pred, Slots
<1>4. h = p
  BY <1>2, <1>3 DEF SkipHead
<1>5. /\ u.head = t.head /\ u.tail = s /\ u.total = t.total - 1
      /\ \A r \in Slots : u.valid[r] <=> r # s /\ t.valid[r]
  <2>1. p \in Tables
    BY DEF PullTail, ClearSlot, Tables, Types
  <2> HIDE DEF p
  <2> QED
    BY <1>1, <1>2, <1>4, <2>1 DEF CountDown, Tables
<1>6. NoGap(u)
  <2> HIDE DEF u
  <2>1. MAX_FILE > 1
    BY RingSize
  <2>2. /\ u.head < u.tail => u.total = u.tail - u.head
        /\ u.tail < u.head => u.total = u.tail - u.head + MAX_FILE
        /\ u.head = u.tail => u.total \in {0, MAX_FILE}
    BY <1>1, <1>5, <2>1 DEF NoGap, Pred, Slots
  <2>3. ASSUME NEW r \in Slots
        PROVE  InWindow(u, r) <=> r # s /\ InWindow(t, r)
    <3>1. /\ t.head < t.tail => t.total = t.tail - t.head
          /\ t.tail < t.head => t.total = t.tail - t.head + MAX_FILE
          /\ t.head = t.tail => t.total = MAX_FILE
      BY <1>1 DEF NoGap
    <3> QED
      BY <1>1, <1>5, <2>1, <3>1 DEF InWindow, Pred, Slots
  <2> QED
    BY <1>5, <2>2, <2>3 DEF NoGap
<1> QED
  BY <1>6 DEF DeleteIn

LEMMA NoGapStep ==
    ASSUME TypeOK, RingHasNoGap, [LifoNext]_vars
    PROVE  RingHasNoGap'
<1>1. Reload \in Tables /\ NoGap(Reload)
  BY ReloadType DEF RingHasNoGap
<1>2. ASSUME index' = index PROVE RingHasNoGap'
  BY <1>1, <1>2 DEF RingHasNoGap, Reload
<1>3. ASSUME index' = NoIndex PROVE RingHasNoGap'
  BY <1>3, EmptyNoGap DEF RingHasNoGap, Reload
<1>4. ASSUME NEW t \in Tables, NoGap(t), NEW d, UpdateFileTable(t, d)
      PROVE  RingHasNoGap'
  <2>1. CASE index' = t
    BY <1>4, <2>1, EmptyNoGap DEF RingHasNoGap, Reload
  <2> QED
    BY <1>2, <1>3, <1>4, <2>1 DEF UpdateFileTable
<1>5. ASSUME NEW p \in Packets, Store(p) PROVE RingHasNoGap'
  <2>1. TypeOf(p) \in Types
    BY DEF TypeOf, Types
  <2>2. StoreIn(Reload, TypeOf(p)) \in Tables /\ NoGap(StoreIn(Reload, TypeOf(p)))
    BY <1>1, <2>1, StoreType, StoreNoGap
  <2> QED
    BY <1>4, <1>5, <2>2 DEF Store
<1>6. ASSUME NEW p \in Packets, StoreFails(p) PROVE RingHasNoGap'
  BY <1>2, <1>6 DEF StoreFails
<1>7. ASSUME DeleteNewest PROVE RingHasNoGap'
  <2>1. PICK s \in Slots : s = Pred(Reload.tail) /\ Delete(s)
    BY <1>7 DEF DeleteNewest
  <2>2. Reload.total > 0
    BY <1>1, <2>1 DEF Delete, Visible, Tables
  <2>3. DeleteIn(Reload, s) \in Tables /\ NoGap(DeleteIn(Reload, s))
    BY <1>1, <2>1, <2>2, DeleteType, PopNoGap
  <2> QED
    BY <1>4, <2>1, <2>3 DEF Delete
<1>8. CASE Clear
  BY <1>2, <1>3, <1>8 DEF Clear
<1>9. CASE Reboot
  BY <1>2, <1>9 DEF Reboot
<1>10. CASE UNCHANGED vars
  BY <1>2, <1>10 DEF vars
<1>11. CASE ReloadFails
  BY <1>4, <1>11, EmptyTableType, EmptyNoGap DEF ReloadFails
<1>12. ASSUME NEW p \in Packets, StoreUnread(p) PROVE RingHasNoGap'
  <2>1. TypeOf(p) \in Types
    BY DEF TypeOf, Types
  <2>2. /\ StoreIn(EmptyTable, TypeOf(p)) \in Tables
        /\ NoGap(StoreIn(EmptyTable, TypeOf(p)))
    BY <2>1, EmptyTableType, EmptyNoGap, StoreType, StoreNoGap
  <2> QED
    BY <1>4, <1>12, <2>2 DEF StoreUnread
<1> QED
  BY <1>5, <1>6, <1>7, <1>8, <1>9, <1>10, <1>11, <1>12 DEF LifoNext

(* From a ring without a gap, the deletion of the newest packet, stores,      *)
(* clearing and restarts lead to a ring without a gap, for every size of the *)
(* ring and with every fault.                                                *)
THEOREM LifoLeavesNoGap == Spec => LifoKeepsNoGap
<1>1. TypeOK => [RingHasNoGap /\ LifoNext => RingHasNoGap']_vars
  BY NoGapStep
<1> QED
  BY <1>1, TypeCorrect, PTL DEF Spec, LifoKeepsNoGap

-----------------------------------------------------------------------------
(* The count and the packets.  CountCoversRing is not inductive: a ring with *)
(* gaps that has wrapped keeps valid slots outside its window, which come    *)
(* back into it when the tail meets the head.  What holds throughout is that *)
(* the count is exact, or covers the valid slots wherever they are.          *)

Found(t)  == {s \in Slots : InWindow(t, s) /\ t.valid[s]}
Valids(t) == {s \in Slots : t.valid[s]}

Accounted(t) == \/ Cardinality(Found(t)) = t.total
                \/ Cardinality(Valids(t)) <= t.total

LEMMA SlotSets ==
    ASSUME NEW S, S \subseteq Slots
    PROVE  /\ IsFiniteSet(S)
           /\ Cardinality(S) \in 0 .. MAX_FILE
           /\ \A T \in SUBSET S : Cardinality(T) <= Cardinality(S)
<1>1. IsFiniteSet(Slots) /\ Cardinality(Slots) = MAX_FILE
  BY RingSize, FS_Interval DEF Slots
<1>2. IsFiniteSet(S) /\ Cardinality(S) <= MAX_FILE
  BY <1>1, FS_Subset
<1>3. \A T \in SUBSET S : Cardinality(T) <= Cardinality(S)
  BY <1>2, FS_Subset
<1> QED
  BY <1>2, <1>3, FS_CardinalityType, RingSize

LEMMA TableFields ==
    ASSUME NEW t \in Tables
    PROVE  /\ t.head \in Slots /\ t.tail \in Slots
           /\ t.head \in Nat /\ t.tail \in Nat
           /\ t.head < MAX_FILE /\ t.tail < MAX_FILE
           /\ t.total \in Nat /\ t.total <= MAX_FILE
           /\ MAX_FILE \in Nat /\ MAX_FILE > 1
  BY RingSize DEF Tables, Slots

LEMMA FoundIsValid ==
    ASSUME NEW t \in Tables
    PROVE  /\ Found(t) \subseteq Valids(t) /\ Valids(t) \subseteq Slots
           /\ Cardinality(Found(t)) \in Nat /\ Cardinality(Valids(t)) \in Nat
           /\ Cardinality(Found(t)) <= Cardinality(Valids(t))
<1>1. Found(t) \subseteq Valids(t) /\ Valids(t) \subseteq Slots
  BY DEF Found, Valids
<1> QED
  BY <1>1, SlotSets

LEMMA EmptyAccounted == Accounted(EmptyTable)
<1>1. Found(EmptyTable) = {}
  BY DEF Found, EmptyTable
<1> QED
  BY <1>1, FS_EmptySet DEF Accounted, EmptyTable

(* Room is made by giving up the slot at the head, which one slot less can   *)
(* be valid after, wherever the others are.                                  *)
LEMMA RoomAccounted ==
    ASSUME NEW t \in Tables, Accounted(t)
    PROVE  Accounted(MakeRoom(t)) /\ MakeRoom(t).total < MAX_FILE
<1> DEFINE r == DropOldest(t)
<1>1. CASE t.total >= MAX_FILE
  <2>1. r.total = MAX_FILE - 1 /\ Valids(r) = Valids(t) \ {t.head}
    BY <1>1, TableFields DEF DropOldest, Valids, Tables
  <2>2. Cardinality(Slots \ {t.head}) = MAX_FILE - 1
    <3>1. IsFiniteSet(Slots) /\ Cardinality(Slots) = MAX_FILE
      BY RingSize, FS_Interval DEF Slots
    <3> QED
      BY <3>1, TableFields, FS_RemoveElement
  <2>3. Cardinality(Valids(r)) <= MAX_FILE - 1
    <3>1. Valids(r) \in SUBSET (Slots \ {t.head})
      BY <2>1 DEF Valids
    <3> QED
      BY <2>2, <3>1, SlotSets
  <2>4. MakeRoom(t) = r
    BY <1>1 DEF MakeRoom
  <2> HIDE DEF r
  <2> QED
    BY <2>1, <2>3, <2>4, RingSize DEF Accounted
<1>2. CASE ~ (t.total >= MAX_FILE)
  BY <1>2, TableFields DEF MakeRoom
<1> QED
  BY <1>1, <1>2

(* The packet at the tail adds one to the count and at most one to what is   *)
(* valid; it adds one to what is found unless the window closes on itself.   *)
LEMMA AddAccounted ==
    ASSUME NEW r \in Tables, Accounted(r), r.total < MAX_FILE, NEW ty \in Types
    PROVE  Accounted(AddAtTail(r, ty))
<1> DEFINE u == AddAtTail(r, ty)
<1>1. /\ u.head = r.head /\ u.tail = Succ(r.tail) /\ u.total = r.total + 1
      /\ \A s \in Slots : u.valid[s] <=> s = r.tail \/ r.valid[s]
  BY DEF AddAtTail, Tables
<1> SUFFICES Accounted(u)
  OBVIOUS
<1> HIDE DEF u
<1>2. Valids(u) = Valids(r) \cup {r.tail}
  BY <1>1, TableFields DEF Valids
<1>3. CASE Cardinality(Valids(r)) <= r.total
  <2>1. Cardinality(Valids(u)) <= Cardinality(Valids(r)) + 1
    <3>1. IsFiniteSet(Valids(r)) /\ Cardinality(Valids(r)) \in Nat
      BY FoundIsValid, SlotSets
    <3> QED
      BY <1>2, <3>1, FS_AddElement
  <2>2. Valids(u) \subseteq Slots
    BY DEF Valids
  <2>3. Cardinality(Valids(u)) \in Nat /\ Cardinality(Valids(r)) \in Nat
    BY <2>2, SlotSets, FoundIsValid, RingSize
  <2> QED
    BY <1>1, <1>3, <2>1, <2>3, TableFields DEF Accounted
<1>4. CASE ~ (Cardinality(Valids(r)) <= r.total)
  <2>1. Cardinality(Found(r)) = r.total
    BY <1>4 DEF Accounted
  <2>2. r.head = r.tail => r.total = 0
    <3>1. ASSUME r.head = r.tail, r.total # 0 PROVE FALSE
      <4>1. Found(r) = Valids(r)
        BY <3>1, TableFields DEF Found, Valids, InWindow
      <4> QED
        BY <1>4, <2>1, <4>1, FoundIsValid
    <3> QED
      BY <3>1
  <2>3. ASSUME NEW s \in Slots
        PROVE  InWindow(u, s) <=> s = r.tail \/ InWindow(r, s)
    <3>1. u.total > 0
      BY <1>1, TableFields
    <3> QED
      BY <1>1, <2>2, <3>1, TableFields DEF InWindow, Succ, Slots
  <2>4. ~ InWindow(r, r.tail)
    BY <2>2, TableFields DEF InWindow
  <2>5. Found(u) = Found(r) \cup {r.tail} /\ r.tail \notin Found(r)
    BY <1>1, <2>3, <2>4, TableFields DEF Found
  <2>6. Cardinality(Found(u)) = Cardinality(Found(r)) + 1
    <3>1. Found(r) \subseteq Slots
      BY DEF Found
    <3> QED
      BY <2>5, <3>1, SlotSets, FS_AddElement
  <2> QED
    BY <1>1, <2>1, <2>6 DEF Accounted
<1> QED
  BY <1>3, <1>4

LEMMA StoreAccounted ==
    ASSUME NEW t \in Tables, Accounted(t), NEW ty \in Types
    PROVE  Accounted(StoreIn(t, ty))
<1>1. MakeRoom(t) \in Tables
  BY StoreType
<1> QED
  BY <1>1, RoomAccounted, AddAccounted DEF StoreIn

(* What DeleteDataBatchSlot does to the fields of the table.                 *)
LEMMA DeleteFields ==
    ASSUME NEW t \in Tables, NEW s \in Slots, t.total > 0
    PROVE  LET p == PullTail(ClearSlot(t, s), s)
               u == DeleteIn(t, s)
           IN /\ p \in Tables /\ p.head = t.head /\ p.total = t.total
              /\ p.tail = u.tail
              /\ \A r \in Slots : p.valid[r] <=> r # s /\ t.valid[r]
              /\ u.total = t.total - 1
              /\ u.tail = IF s = Pred(t.tail) THEN s ELSE t.tail
              /\ u.head = IF s = t.head /\ t.total > 1 THEN FirstStop(p) ELSE t.head
              /\ \A r \in Slots : u.valid[r] <=> r # s /\ t.valid[r]
<1> DEFINE c == ClearSlot(t, s)
           p == PullTail(c, s)
           h == SkipHead(p, s)
<1>1. /\ p \in Tables /\ p.head = t.head /\ p.total = t.total
      /\ p.tail = IF s = Pred(t.tail) THEN s ELSE t.tail
      /\ \A r \in Slots : p.valid[r] <=> r # s /\ t.valid[r]
  BY DEF PullTail, ClearSlot, Tables, Types
<1> HIDE DEF p
<1>2. /\ h.total = t.total /\ h.tail = p.tail /\ h.valid = p.valid
      /\ h.head = IF s = t.head /\ t.total > 1 THEN FirstStop(p) ELSE t.head
      /\ h = [total |-> h.total, head |-> h.head, tail |-> h.tail,
              valid |-> h.valid, packet |-> h.packet]
  BY <1>1 DEF SkipHead, Tables
<1> HIDE DEF h
<1>3. /\ DeleteIn(t, s).total = t.total - 1
      /\ DeleteIn(t, s).head = h.head /\ DeleteIn(t, s).tail = h.tail
      /\ DeleteIn(t, s).valid = h.valid
  <2>1. DeleteIn(t, s) = CountDown(h)
    BY DEF DeleteIn, h, p
  <2> QED
    BY <1>2, <2>1, TableFields DEF CountDown
<1> QED
  BY <1>1, <1>2, <1>3 DEF p

(* Deleting a packet passes over no other: while there is another one, what  *)
(* was found is found, and nothing else is.                                  *)
LEMMA DeleteKeepsFound ==
    ASSUME NEW t \in Tables, NEW s \in Found(t), t.total > 1,
           NEW r \in Found(t) \ {s}
    PROVE  r \in Found(DeleteIn(t, s))
<1> DEFINE p == PullTail(ClearSlot(t, s), s)
           u == DeleteIn(t, s)
<1>1. /\ s \in Slots /\ r \in Slots /\ r # s
      /\ InWindow(t, s) /\ InWindow(t, r) /\ t.valid[r]
  BY DEF Found
<1>2. /\ p \in Tables /\ p.head = t.head /\ p.tail = u.tail /\ p.valid[r]
      /\ u.total = t.total - 1 /\ u.total > 0
      /\ u.tail = IF s = Pred(t.tail) THEN s ELSE t.tail
      /\ u.head = IF s = t.head THEN FirstStop(p) ELSE t.head
      /\ u.valid[r]
  BY <1>1, DeleteFields, TableFields
<1>3. /\ FirstStop(p) \in Slots
      /\ Ahead(p, FirstStop(p)) <= Ahead(p, r)
  <2> HIDE DEF p, u
  <2>1. r \in Stops(p) /\ p.head \in Slots /\ p.tail \in Slots
    BY <1>1, <1>2, TableFields DEF Stops
  <2>2. FirstStop(p) \in Stops(p) /\ Ahead(p, FirstStop(p)) <= Ahead(p, r)
    BY <2>1, FirstStopInRing
  <2> QED
    BY <2>2 DEF Stops
<1> SUFFICES InWindow(u, r)
  BY <1>1, <1>2 DEF Found
<1> DEFINE f == FirstStop(p)
<1>4. IF t.head < f THEN f - t.head <= (IF t.head < r THEN r - t.head ELSE r - t.head + MAX_FILE)
      ELSE f - t.head + MAX_FILE <= (IF t.head < r THEN r - t.head ELSE r - t.head + MAX_FILE)
  <2> HIDE DEF p, u
  <2> QED
    BY <1>2, <1>3 DEF Ahead
<1> HIDE DEF p, u, f
<1>5. CASE s = t.head
  <2>1. u.head = f /\ f \in Slots
    BY <1>2, <1>3, <1>5 DEF f
  <2>2. /\ t.head < t.tail => t.head <= r /\ r < t.tail
        /\ t.tail < t.head => t.head <= r \/ r < t.tail
    BY <1>1 DEF InWindow
  <2>3. CASE s = Pred(t.tail)
    BY <1>1, <1>2, <1>4, <1>5, <2>1, <2>2, <2>3, TableFields DEF InWindow, Pred, Slots
  <2>4. CASE s # Pred(t.tail)
    <3>1. u.tail = t.tail
      BY <1>2, <2>4
    <3>2. CASE t.head < t.tail
      BY <1>1, <1>4, <1>5, <2>1, <2>2, <3>1, <3>2, TableFields DEF InWindow, Slots
    <3>3. CASE t.tail < t.head
      BY <1>1, <1>4, <1>5, <2>1, <2>2, <3>1, <3>3, TableFields DEF InWindow, Slots
    <3>4. CASE t.tail = t.head
      <4>1. r \in Nat /\ f \in Nat /\ r < MAX_FILE /\ f < MAX_FILE /\ r # t.head
        BY <1>1, <1>5, <2>1, TableFields DEF Slots
      <4>2. f < t.head => f <= r /\ r < t.head
        BY <1>4, <4>1, TableFields
      <4>3. t.head < f => f <= r \/ r < t.head
        BY <1>4, <4>1, TableFields
      <4> QED
        BY <1>2, <2>1, <3>1, <3>4, <4>2, <4>3 DEF InWindow
    <3> QED
      BY <3>2, <3>3, <3>4, TableFields
  <2> QED
    BY <2>3, <2>4
<1>6. CASE s # t.head
  BY <1>1, <1>2, <1>6, TableFields DEF InWindow, Pred, Slots
<1> QED
  BY <1>5, <1>6

LEMMA DeleteFindsNoOther ==
    ASSUME NEW t \in Tables, NEW s \in Found(t), t.total > 0,
           t.total = 1 => Found(t) = {s},
           t.total > 1 => \E r \in Found(t) : r # s
    PROVE  Found(DeleteIn(t, s)) \subseteq Found(t) \ {s}
<1> DEFINE p == PullTail(ClearSlot(t, s), s)
           u == DeleteIn(t, s)
<1>1. s \in Slots /\ InWindow(t, s)
  BY DEF Found
<1>2. /\ p \in Tables /\ p.head = t.head /\ p.tail = u.tail
      /\ \A q \in Slots : p.valid[q] <=> q # s /\ t.valid[q]
      /\ u.total = t.total - 1
      /\ u.tail = IF s = Pred(t.tail) THEN s ELSE t.tail
      /\ u.head = IF s = t.head /\ t.total > 1 THEN FirstStop(p) ELSE t.head
      /\ \A q \in Slots : u.valid[q] <=> q # s /\ t.valid[q]
  BY <1>1, DeleteFields, TableFields
<1> HIDE DEF u
<1> SUFFICES ASSUME NEW q \in Slots, InWindow(u, q), q # s PROVE InWindow(t, q)
  BY <1>2 DEF Found, u
<1>3. CASE t.head = t.tail
  BY <1>3, TableFields DEF InWindow
<1>4. CASE t.head # t.tail /\ u.head = t.head
  <2>1. t.total > 1 => \E r \in Slots : r # s /\ InWindow(t, r)
    BY DEF Found
  <2>2. u.total > 0 <=> t.total > 1
    BY <1>2, TableFields
  <2>3. CASE s = Pred(t.tail)
    BY <1>1, <1>2, <1>4, <2>1, <2>2, <2>3, TableFields DEF InWindow, Pred, Slots
  <2>4. CASE s # Pred(t.tail)
    BY <1>2, <1>4, <2>4 DEF InWindow
  <2> QED
    BY <2>3, <2>4
<1>5. CASE t.head # t.tail /\ u.head # t.head
  <2>1. PICK r \in Found(t) : r # s
    BY <1>2, <1>5
  <2>2. r \in Slots /\ InWindow(t, r) /\ p.valid[r]
    BY <1>2, <2>1 DEF Found
  <2>3. s = t.head /\ t.total > 1 /\ u.head = FirstStop(p)
    BY <1>2, <1>5
  <2> HIDE DEF p
  <2>4. /\ FirstStop(p) \in Slots
        /\ Ahead(p, FirstStop(p)) <= Ahead(p, r)
    <3>1. r \in Stops(p) /\ p.head \in Slots /\ p.tail \in Slots
      BY <1>2, <2>2, TableFields DEF Stops
    <3>2. FirstStop(p) \in Stops(p) /\ Ahead(p, FirstStop(p)) <= Ahead(p, r)
      BY <3>1, FirstStopInRing
    <3> QED
      BY <3>2 DEF Stops
  <2> DEFINE f == FirstStop(p)
  <2>5. IF t.head < f THEN f - t.head <= (IF t.head < r THEN r - t.head ELSE r - t.head + MAX_FILE)
        ELSE f - t.head + MAX_FILE <= (IF t.head < r THEN r - t.head ELSE r - t.head + MAX_FILE)
    BY <1>2, <2>4 DEF Ahead
  <2> HIDE DEF f
  <2>6. f \in Slots /\ u.head = f
    BY <2>3, <2>4 DEF f
  <2> QED
    BY <1>1, <1>2, <1>5, <2>1, <2>2, <2>3, <2>5, <2>6, TableFields DEF InWindow, Pred, Slots
<1> QED
  BY <1>3, <1>4, <1>5

LEMMA DeleteAccounted ==
    ASSUME NEW t \in Tables, NEW s \in Visible(t), Accounted(t)
    PROVE  /\ Accounted(DeleteIn(t, s))
           /\ Visible(t) \ {s} \subseteq Visible(DeleteIn(t, s))
<1> DEFINE u == DeleteIn(t, s)
<1>1. /\ t.total > 0 /\ Visible(t) = Found(t) /\ s \in Found(t) /\ s \in Slots
      /\ s \in Valids(t)
  BY TableFields DEF Visible, Found, Valids
<1>2. u.total = t.total - 1 /\ Valids(u) = Valids(t) \ {s}
  <2>1. u.total = t.total - 1 /\ \A r \in Slots : u.valid[r] <=> r # s /\ t.valid[r]
    BY <1>1, DeleteFields
  <2> QED
    BY <2>1 DEF Valids
<1>3. /\ IsFiniteSet(Found(t)) /\ IsFiniteSet(Valids(t))
      /\ Cardinality(Found(t)) \in Nat /\ Cardinality(Valids(t)) \in Nat
      /\ Cardinality(Found(t)) <= Cardinality(Valids(t))
  BY FoundIsValid, SlotSets
<1>4. /\ Cardinality(Valids(t) \ {s}) = Cardinality(Valids(t)) - 1
      /\ Cardinality(Found(t) \ {s}) = Cardinality(Found(t)) - 1
  BY <1>1, <1>3, FS_RemoveElement
<1>5. Cardinality(Found(t)) <= t.total
  BY <1>3, TableFields DEF Accounted
<1>6. Cardinality(Found(t) \ {s}) \in Nat /\ (Cardinality(Found(t) \ {s}) = 0 <=> Found(t) \ {s} = {})
  BY <1>3, FS_RemoveElement, FS_CardinalityType, FS_EmptySet
<1>7. Found(t) \ {s} # {} => t.total > 1
  BY <1>3, <1>4, <1>5, <1>6, TableFields
<1>8. Found(t) \ {s} \subseteq Found(u)
  BY <1>1, <1>7, DeleteKeepsFound
<1>9. Visible(t) \ {s} \subseteq Visible(u)
  BY <1>1, <1>2, <1>7, <1>8, TableFields DEF Visible, Found
<1> HIDE DEF u
<1>10. CASE Cardinality(Valids(t)) <= t.total
  <2> SUFFICES Cardinality(Valids(u)) <= u.total
    BY <1>9 DEF Accounted, u
  <2> QED
    BY <1>2, <1>3, <1>4, <1>10, TableFields
<1>11. CASE Cardinality(Found(t)) = t.total
  <2>1. t.total = 1 => Found(t) = {s}
    BY <1>1, <1>4, <1>6, <1>11
  <2>2. t.total > 1 => \E r \in Found(t) : r # s
    BY <1>3, <1>4, <1>6, <1>11
  <2>3. Found(u) = Found(t) \ {s}
    BY <1>1, <1>8, <2>1, <2>2, DeleteFindsNoOther DEF u
  <2>4. Cardinality(Found(u)) = u.total
    BY <1>2, <1>4, <1>11, <2>3
  <2> QED
    BY <1>9, <2>4 DEF Accounted, u
<1> QED
  BY <1>10, <1>11 DEF Accounted

LEMMA RepairAccounted ==
    ASSUME NEW t \in Tables, t.total # 0
    PROVE  Accounted(RepairIn(t))
<1> DEFINE u == RepairIn(t)
<1>1. /\ u.total = Cardinality(Found(t)) /\ u.valid = t.valid
      /\ u.head = t.head /\ u.tail = t.tail
  <2>1. Visible(t) = Found(t)
    BY DEF Visible, Found
  <2> QED
    BY <2>1 DEF RepairIn, Tables
<1> HIDE DEF u
<1>2. Found(u) \subseteq Found(t)
  BY <1>1, TableFields DEF Found, InWindow
<1>3. Cardinality(Found(t)) \in Nat /\ (Cardinality(Found(t)) = 0 <=> Found(t) = {})
  BY FoundIsValid, SlotSets, FS_EmptySet
<1>4. Found(u) = Found(t)
  <2>1. CASE Found(t) = {}
    BY <1>2, <2>1
  <2>2. CASE Found(t) # {}
    BY <1>1, <1>3, <2>2 DEF Found, InWindow
  <2> QED
    BY <2>1, <2>2
<1> QED
  BY <1>1, <1>4 DEF Accounted, u

RingAccounted == Accounted(Reload)

LEMMA AccountedStep ==
    ASSUME TypeOK, RingAccounted, [Next]_vars
    PROVE  RingAccounted'
<1>1. Reload \in Tables /\ Accounted(Reload)
  BY ReloadType DEF RingAccounted
<1>2. ASSUME index' = index PROVE RingAccounted'
  BY <1>1, <1>2 DEF RingAccounted, Reload
<1>3. ASSUME index' = NoIndex PROVE RingAccounted'
  BY <1>3, EmptyAccounted DEF RingAccounted, Reload
<1>4. ASSUME NEW t \in Tables, Accounted(t), NEW d, UpdateFileTable(t, d)
      PROVE  RingAccounted'
  <2>1. CASE index' = t
    BY <1>4, <2>1, EmptyAccounted DEF RingAccounted, Reload
  <2> QED
    BY <1>2, <1>3, <1>4, <2>1 DEF UpdateFileTable
<1>5. ASSUME NEW p \in Packets, Store(p) PROVE RingAccounted'
  <2>1. TypeOf(p) \in Types
    BY DEF TypeOf, Types
  <2>2. /\ StoreIn(Reload, TypeOf(p)) \in Tables
        /\ Accounted(StoreIn(Reload, TypeOf(p)))
    BY <1>1, <2>1, StoreType, StoreAccounted
  <2> QED
    BY <1>4, <1>5, <2>2 DEF Store
<1>6. ASSUME NEW p \in Packets, StoreFails(p) \/ StoreCut(p) PROVE RingAccounted'
  BY <1>2, <1>6 DEF StoreFails, StoreCut
<1>7. ASSUME NEW s \in Slots, Delete(s) PROVE RingAccounted'
  <2>1. s \in Visible(Reload) /\ Reload.total > 0
    BY <1>1, <1>7, TableFields DEF Delete, Visible
  <2>2. DeleteIn(Reload, s) \in Tables /\ Accounted(DeleteIn(Reload, s))
    BY <1>1, <2>1, DeleteType, DeleteAccounted
  <2> QED
    BY <1>4, <1>7, <2>2 DEF Delete
<1>8. CASE Repair
  <2>1. RepairIn(Reload) \in Tables /\ Accounted(RepairIn(Reload))
    BY <1>1, <1>8, RepairType, RepairAccounted DEF Repair
  <2> QED
    BY <1>4, <1>8, <2>1 DEF Repair
<1>9. CASE Clear
  BY <1>2, <1>3, <1>9 DEF Clear
<1>10. CASE Reboot \/ UNCHANGED vars
  BY <1>2, <1>10 DEF Reboot, vars
<1>11. CASE ReloadFails
  BY <1>4, <1>11, EmptyTableType, EmptyAccounted DEF ReloadFails
<1>12. ASSUME NEW p \in Packets, StoreUnread(p) PROVE RingAccounted'
  <2>1. TypeOf(p) \in Types
    BY DEF TypeOf, Types
  <2>2. /\ StoreIn(EmptyTable, TypeOf(p)) \in Tables
        /\ Accounted(StoreIn(EmptyTable, TypeOf(p)))
    BY <2>1, EmptyTableType, EmptyAccounted, StoreType, StoreAccounted
  <2> QED
    BY <1>4, <1>12, <2>2 DEF StoreUnread
<1> QED
  BY <1>5, <1>6, <1>7, <1>8, <1>9, <1>10, <1>11, <1>12 DEF Next

LEMMA AlwaysAccounted == Spec => [](TypeOK /\ RingAccounted)
<1>1. Init => RingAccounted
  BY EmptyAccounted DEF Init, RingAccounted, Reload
<1>2. TypeOK /\ RingAccounted /\ [Next]_vars => RingAccounted'
  BY AccountedStep
<1> QED
  BY <1>1, <1>2, TypeCorrect, PTL DEF Spec

(* The count never says fewer packets than a scan can find, whatever is      *)
(* stored, deleted and repaired in a ring with gaps, for every size of the   *)
(* ring and with every fault.                                                *)
THEOREM CountCoversFound == Spec => []CountCoversRing
<1>1. TypeOK /\ RingAccounted => CountCoversRing
  <2> SUFFICES ASSUME TypeOK, RingAccounted PROVE CountCoversRing
    OBVIOUS
  <2>1. Reload \in Tables /\ Accounted(Reload)
    BY ReloadType DEF RingAccounted
  <2>2. Cardinality(Found(Reload)) <= Reload.total
    BY <2>1, FoundIsValid, TableFields DEF Accounted
  <2> QED
    BY <2>2 DEF CountCoversRing, Found
<1> QED
  BY <1>1, AlwaysAccounted, PTL

(* A deletion takes no other packet out of reach: neither the tail pulled    *)
(* back nor the head moved on passes over one, nor does the count reach zero *)
(* before the last one.                                                      *)
THEOREM DeletionHidesNothing == Spec => DeleteHidesNothingElse
<1>1. TypeOK /\ RingAccounted
        => [\A s \in Slots : (Delete(s) /\ index' = table')
               => Visible(Reload) \ {s} \subseteq Visible(Reload')]_vars
  <2> SUFFICES ASSUME TypeOK, RingAccounted,
                      NEW s \in Slots, Delete(s), index' = table'
               PROVE  Visible(Reload) \ {s} \subseteq Visible(Reload')
    OBVIOUS
  <2>1. Reload \in Tables /\ Accounted(Reload)
    BY ReloadType DEF RingAccounted
  <2>2. /\ s \in Visible(Reload) /\ table' = DeleteIn(Reload, s)
        /\ Reload.total > 0
    BY <2>1, TableFields DEF Delete, Visible
  <2>3. /\ DeleteIn(Reload, s) \in Tables
        /\ Visible(Reload) \ {s} \subseteq Visible(DeleteIn(Reload, s))
    BY <2>1, <2>2, DeleteType, DeleteAccounted
  <2>4. Reload' = DeleteIn(Reload, s)
    <3>1. index' \in Tables /\ index' = DeleteIn(Reload, s)
      BY <2>2, <2>3
    <3>2. index' # NoIndex /\ ~ (index'.total > MAX_FILE)
      BY <3>1, IndexAssumption, TableFields
    <3> QED
      BY <3>1, <3>2 DEF Reload
  <2> QED
    BY <2>3, <2>4
<1> QED
  BY <1>1, AlwaysAccounted, PTL DEF DeleteHidesNothingElse

-----------------------------------------------------------------------------
(* LifoIsStack.  In a ring without a gap, the packet that is the i-th of the *)
(* stack lies i-1 slots from the head, wherever the ring wraps.              *)

At(h, i) == LET s == h + i - 1 IN IF s < MAX_FILE THEN s ELSE s - MAX_FILE

StackOf(t, d) == [i \in 1 .. t.total |-> d[At(t.head, i)]]

Contents == Packets \cup {Blank}

LEMMA SequencesEqual ==
    ASSUME NEW S, NEW a \in Seq(S), NEW b \in Seq(S), Len(a) = Len(b),
           \A i \in 1 .. Len(a) : a[i] = b[i]
    PROVE  a = b
OBVIOUS

LEMMA StackOfIsSequence ==
    ASSUME NEW t \in Tables, NEW d \in [Slots -> Contents]
    PROVE  StackOf(t, d) \in Seq(Contents) /\ Len(StackOf(t, d)) = t.total
<1>1. \A i \in 1 .. t.total : At(t.head, i) \in Slots
  BY TableFields DEF At, Slots
<1> QED
  BY <1>1, TableFields DEF StackOf

(* Where the tail is, and which slots the stack does not reach.              *)
LEMMA TailOfStack ==
    ASSUME NEW t \in Tables, NoGap(t)
    PROVE  /\ t.total < MAX_FILE => t.tail = At(t.head, t.total + 1)
           /\ t.total > 0 => Pred(t.tail) = At(t.head, t.total)
           /\ \A i, j \in 1 .. MAX_FILE :
                 At(t.head, i) = At(t.head, j) => i = j
<1>1. /\ t.head < t.tail => t.total = t.tail - t.head
      /\ t.tail < t.head => t.total = t.tail - t.head + MAX_FILE
      /\ t.head = t.tail => t.total \in {0, MAX_FILE}
  BY DEF NoGap
<1>2. t.total < MAX_FILE => t.tail = At(t.head, t.total + 1)
  BY <1>1, TableFields DEF At
<1>3. t.total > 0 => Pred(t.tail) = At(t.head, t.total)
  BY <1>1, TableFields DEF At, Pred
<1>4. \A i, j \in 1 .. MAX_FILE : At(t.head, i) = At(t.head, j) => i = j
  BY TableFields DEF At
<1> QED
  BY <1>2, <1>3, <1>4

LEMMA AddPushes ==
    ASSUME NEW t \in Tables, NoGap(t), t.total < MAX_FILE, NEW ty \in Types,
           NEW d \in [Slots -> Contents], NEW p \in Packets
    PROVE  StackOf(AddAtTail(t, ty), [d EXCEPT ![t.tail] = p])
              = Append(StackOf(t, d), p)
<1> DEFINE u == AddAtTail(t, ty)
           e == [d EXCEPT ![t.tail] = p]
<1>1. u.head = t.head /\ u.total = t.total + 1
  BY DEF AddAtTail, Tables
<1>2. u \in Tables
  <2>1. Succ(t.tail) \in Slots /\ t.total + 1 \in 0 .. MAX_FILE
    BY TableFields DEF Succ, Slots
  <2> QED
    BY <2>1, TableFields DEF AddAtTail, Tables
<1>3. e \in [Slots -> Contents]
  BY DEF Contents
<1> HIDE DEF u, e
<1>4. /\ StackOf(u, e) \in Seq(Contents) /\ Len(StackOf(u, e)) = t.total + 1
      /\ StackOf(t, d) \in Seq(Contents) /\ Len(StackOf(t, d)) = t.total
  BY <1>1, <1>2, <1>3, StackOfIsSequence
<1>5. ASSUME NEW i \in 1 .. t.total PROVE StackOf(u, e)[i] = StackOf(t, d)[i]
  <2>1. /\ At(t.head, i) \in Slots /\ At(t.head, i) # t.tail
        /\ i \in 1 .. t.total + 1
    <3>1. /\ i \in 1 .. MAX_FILE /\ t.total + 1 \in 1 .. MAX_FILE
          /\ i # t.total + 1 /\ i \in 1 .. t.total + 1
      BY TableFields
    <3>2. At(t.head, i) \in Slots
      BY <3>1, TableFields DEF At, Slots
    <3> QED
      BY <3>1, <3>2, TailOfStack
  <2>2. e[At(t.head, i)] = d[At(t.head, i)]
    BY <2>1 DEF e
  <2> QED
    BY <1>1, <2>1, <2>2 DEF StackOf
<1>6. StackOf(u, e)[t.total + 1] = p
  <2>1. t.tail = At(t.head, t.total + 1) /\ t.tail \in Slots /\ t.total + 1 \in 1 .. t.total + 1
    BY TailOfStack, TableFields
  <2>2. e[t.tail] = p
    BY <2>1 DEF e
  <2> QED
    BY <1>1, <2>1, <2>2 DEF StackOf
<1>7. \A s \in Seq(Contents) : /\ Append(s, p) \in Seq(Contents)
                               /\ Len(Append(s, p)) = Len(s) + 1
                               /\ Append(s, p)[Len(s) + 1] = p
                               /\ \A i \in 1 .. Len(s) : Append(s, p)[i] = s[i]
  BY DEF Contents
<1>8. \A i \in 1 .. t.total + 1 : i \in 1 .. t.total \/ i = t.total + 1
  BY TableFields
<1>9. \A i \in 1 .. t.total + 1 : StackOf(u, e)[i] = Append(StackOf(t, d), p)[i]
  BY <1>4, <1>5, <1>6, <1>7, <1>8
<1> QED
  BY <1>4, <1>7, <1>9, SequencesEqual DEF u, e

LEMMA DropTakesBottom ==
    ASSUME NEW t \in Tables, t.total = MAX_FILE, NEW d \in [Slots -> Contents]
    PROVE  StackOf(DropOldest(t), d) = Tail(StackOf(t, d))
<1> DEFINE r == DropOldest(t)
<1>1. r.head = Succ(t.head) /\ r.total = t.total - 1 /\ r \in Tables
  <2>1. Succ(t.head) \in Slots /\ t.total - 1 \in 0 .. MAX_FILE
    BY TableFields DEF Succ, Slots
  <2> QED
    BY <2>1 DEF DropOldest, Tables
<1> HIDE DEF r
<1>2. /\ StackOf(r, d) \in Seq(Contents) /\ Len(StackOf(r, d)) = t.total - 1
      /\ StackOf(t, d) \in Seq(Contents) /\ Len(StackOf(t, d)) = t.total
  BY <1>1, StackOfIsSequence
<1>3. ASSUME NEW i \in 1 .. t.total - 1
      PROVE  StackOf(r, d)[i] = StackOf(t, d)[i + 1]
  <2>1. At(Succ(t.head), i) = At(t.head, i + 1) /\ i + 1 \in 1 .. t.total
    BY TableFields DEF At, Succ
  <2> QED
    BY <1>1, <2>1 DEF StackOf
<1>4. \A s \in Seq(Contents) :
         Len(s) > 0 => /\ Tail(s) \in Seq(Contents) /\ Len(Tail(s)) = Len(s) - 1
                       /\ \A i \in 1 .. Len(s) - 1 : Tail(s)[i] = s[i + 1]
  OBVIOUS
<1> QED
  BY <1>2, <1>3, <1>4, TableFields, SequencesEqual DEF r

LEMMA PopTakesTop ==
    ASSUME NEW t \in Tables, NoGap(t), t.total > 0, NEW d \in [Slots -> Contents]
    PROVE  StackOf(DeleteIn(t, Pred(t.tail)), d)
              = SubSeq(StackOf(t, d), 1, t.total - 1)
<1> DEFINE s == Pred(t.tail)
           u == DeleteIn(t, s)
<1>1. s \in Slots
  BY TableFields DEF Pred, Slots
<1>2. u \in Tables
  BY <1>1, DeleteType
<1>3. u.total = t.total - 1 /\ u.head = t.head
  <2>1. ~ (s = t.head /\ t.total > 1)
    BY TableFields DEF NoGap, Pred
  <2> QED
    BY <1>1, <2>1, DeleteFields
<1> HIDE DEF u, s
<1>4. /\ StackOf(u, d) \in Seq(Contents) /\ Len(StackOf(u, d)) = t.total - 1
      /\ StackOf(t, d) \in Seq(Contents) /\ Len(StackOf(t, d)) = t.total
  BY <1>2, <1>3, StackOfIsSequence
<1>5. \A i \in 1 .. t.total - 1 : StackOf(u, d)[i] = StackOf(t, d)[i]
  BY <1>3, TableFields DEF StackOf
<1>6. /\ SubSeq(StackOf(t, d), 1, t.total - 1) \in Seq(Contents)
      /\ Len(SubSeq(StackOf(t, d), 1, t.total - 1)) = t.total - 1
      /\ \A i \in 1 .. t.total - 1 :
            SubSeq(StackOf(t, d), 1, t.total - 1)[i] = StackOf(t, d)[i]
  BY <1>4, TableFields
<1> QED
  BY <1>4, <1>5, <1>6, SequencesEqual DEF u, s

LEMMA StackedIs ==
    /\ Stacked = StackOf(Reload, data)
    /\ Stacked' = StackOf(Reload', data')
BY Zenon DEF Stacked, StackOf, At

(* What the table is after a write of the index that succeeded.              *)
LEMMA Written ==
    ASSUME NEW t \in Tables, table' = t, index' = table'
    PROVE  Reload' = t
<1>1. index' = t /\ t # NoIndex /\ ~ (t.total > MAX_FILE)
  BY IndexAssumption, TableFields
<1> QED
  BY <1>1 DEF Reload

LEMMA StorePushes ==
    ASSUME TypeOK, RingHasNoGap, NEW p \in Packets,
           Store(p), index' = table', ~ Unstored(p)'
    PROVE  Stack!Push(p)
<1> DEFINE t == Reload
           r == MakeRoom(t)
           u == StoreIn(t, TypeOf(p))
           d == [data EXCEPT ![r.tail] = p]
<1>1. t \in Tables /\ NoGap(t) /\ TypeOf(p) \in Types /\ data \in [Slots -> Contents]
  BY ReloadType DEF RingHasNoGap, TypeOf, Types, TypeOK, Contents
<1>2. r \in Tables /\ u \in Tables /\ NoGap(r) /\ r.total < MAX_FILE
  BY <1>1, StoreType, RoomNoGap
<1>3. Reload' = u
  BY <1>2, Written DEF Store
<1>4. data' = d
  <2>1. Unstored(p)' \/ data' # NoData
    BY PacketAssumption DEF Unstored, NoData, Packets
  <2>2. UpdateFileTable(u, d)
    BY DEF Store
  <2> QED
    BY <2>1, <2>2 DEF UpdateFileTable
<1>5. Stacked' = Append(StackOf(r, data), p)
  <2>1. u = AddAtTail(r, TypeOf(p))
    BY DEF StoreIn
  <2>2. Stacked' = StackOf(u, d)
    BY <1>3, <1>4, StackedIs, Zenon
  <2> HIDE DEF r
  <2>3. StackOf(AddAtTail(r, TypeOf(p)), [data EXCEPT ![r.tail] = p])
           = Append(StackOf(r, data), p)
    BY <1>1, <1>2, AddPushes
  <2> QED
    BY <2>1, <2>2, <2>3
<1>6. Stacked = StackOf(t, data) /\ Len(Stacked) = t.total
  BY <1>1, StackedIs, StackOfIsSequence
<1>7. CASE t.total < MAX_FILE
  <2>1. r = t
    BY <1>1, <1>7, TableFields DEF MakeRoom
  <2> HIDE DEF t
  <2> QED
    BY <1>5, <1>6, <1>7, <2>1 DEF Stack!Push
<1>8. CASE t.total = MAX_FILE
  <2>1. StackOf(r, data) = Tail(Stacked)
    <3>1. r = DropOldest(t)
      BY <1>8, TableFields, <1>1 DEF MakeRoom
    <3> QED
      BY <1>1, <1>6, <1>8, <3>1, DropTakesBottom
  <2> HIDE DEF r, t
  <2> QED
    BY <1>5, <1>6, <1>8, <2>1 DEF Stack!Push
<1> QED
  BY <1>1, <1>7, <1>8, TableFields

LEMMA DeletePops ==
    ASSUME TypeOK, RingHasNoGap, DeleteNewest, index' = table', data' = data
    PROVE  Stack!Pop
<1> DEFINE t == Reload
<1>1. t \in Tables /\ NoGap(t) /\ data \in [Slots -> Contents]
  BY ReloadType DEF RingHasNoGap, TypeOK, Contents
<1>2. PICK s \in Slots : s = Pred(t.tail) /\ Delete(s)
  BY DEF DeleteNewest
<1>3. t.total > 0 /\ table' = DeleteIn(t, s) /\ DeleteIn(t, s) \in Tables
  <2>1. t.total > 0 /\ table' = DeleteIn(t, s)
    BY <1>1, <1>2, TableFields DEF Delete, Visible
  <2> QED
    BY <1>1, <2>1, DeleteType
<1>4. Reload' = DeleteIn(t, s)
  BY <1>3, Written
<1>5. Stacked = StackOf(t, data) /\ Len(Stacked) = t.total
  BY <1>1, StackedIs, StackOfIsSequence
<1>6. Stacked' = SubSeq(Stacked, 1, Len(Stacked) - 1)
  <2>1. Stacked' = StackOf(DeleteIn(t, Pred(t.tail)), data)
    BY <1>2, <1>4, StackedIs
  <2> HIDE DEF t
  <2> QED
    BY <1>1, <1>3, <1>5, <2>1, PopTakesTop
<1>7. Stacked # <<>>
  BY <1>1, <1>3, <1>5, TableFields
<1> QED
  BY <1>6, <1>7 DEF Stack!Pop

(* A ring without a gap is the stack of OfflineStack: a store pushes and, when *)
(* the ring is full, gives up the packet at the bottom; the deletion of the    *)
(* newest packet pops; ClearBatchStorage wipes.                                *)
THEOREM LifoImplementsStack == Spec => LifoIsStack
<1>1. TypeOK
        => [RingHasNoGap =>
              /\ \A p \in Packets :
                    Store(p) /\ index' = table' /\ ~ Unstored(p)' => Stack!Push(p)
              /\ DeleteNewest /\ index' = table' /\ data' = data => Stack!Pop
              /\ Clear /\ index' = NoIndex => Stack!Wipe]_vars
  <2> SUFFICES ASSUME TypeOK, RingHasNoGap
               PROVE  /\ \A p \in Packets :
                            Store(p) /\ index' = table' /\ ~ Unstored(p)' => Stack!Push(p)
                      /\ DeleteNewest /\ index' = table' /\ data' = data => Stack!Pop
                      /\ Clear /\ index' = NoIndex => Stack!Wipe
    OBVIOUS
  <2>1. ASSUME index' = NoIndex PROVE Stack!Wipe
    <3>1. Reload' = EmptyTable
      BY <2>1 DEF Reload
    <3>2. Stacked' = StackOf(EmptyTable, data')
      BY <3>1, StackedIs
    <3> QED
      BY <3>2 DEF StackOf, EmptyTable, Stack!Wipe
  <2> QED
    BY <2>1, StorePushes, DeletePops
<1> QED
  BY <1>1, TypeCorrect, PTL DEF LifoIsStack

-----------------------------------------------------------------------------
(* BatchUpload: the upload and the stores of the other thread.               *)

(* The tables the two threads work on: the one the storer has made room in,  *)
(* the one the uploader has deleted a slot in, and, the rest of the time,    *)
(* the one the next call reloads.                                            *)
Apart == storer.pc = "idle" \/ uploader.pc = "idle"

Storing  == storer.pc # "idle"
Deleting == uploader.pc \in {"sending", "delete"}
Writing  == uploader.pc = "write"

\* What the uploader has left to delete.
Rest == IF Writing THEN Tail(uploader.slots) ELSE uploader.slots

Distinct(q) == \A i, j \in 1 .. Len(q) : q[i] = q[j] => i = j

ShortSeqs == {<<>>} \cup {<<a>> : a \in Slots} \cup {<<a, b>> : a, b \in Slots}

Sound(t) == t \in Tables /\ Accounted(t)

(* While the threads keep apart, every table is sound and what is left to    *)
(* delete can be found in it, so that no deletion takes the count below 0.   *)
TablesInv ==
    /\ Apart
    /\ index \in Tables \cup {NoIndex} /\ Sound(Reload)
    /\ data \in [Slots -> Contents]
    /\ storer \in [pc : {"idle", "data", "mark"}, pkt : Contents, addr : Slots]
    /\ uploader \in [pc : {"idle", "sending", "delete", "write"}, count : 0 .. SlotsMax,
                     slots : ShortSeqs, pkts : SUBSET Contents]
    /\ Storing => Sound(table) /\ table.total < MAX_FILE
    /\ Distinct(uploader.slots)
    /\ uploader.pc \in {"delete", "write"} => uploader.slots # <<>>
    /\ Deleting => \A i \in 1 .. Len(uploader.slots) : uploader.slots[i] \in Visible(Reload)
    /\ Writing => Sound(table) /\ \A i \in 1 .. Len(Rest) : Rest[i] \in Visible(table)

\* A ring of positions without a gap, in which a scan finds what is owed.
Plain(t) == /\ NoGap(t)
            /\ \A s \in Slots : t.packet[s] = "NORMAL"

Holds(t) == owed \subseteq {data[s] : s \in Visible(t)}

\* The slots of q are the newest of t, the newest first.
NewestIn(t, q) == /\ Len(q) > 0 => q[1] = Pred(t.tail)
                  /\ Len(q) > 1 => q[2] = Pred(q[1])

(* With positions only and the threads apart, what is deleted is always the  *)
(* newest packet, the ring keeps no gap, and what is owed is found in it.    *)
CalmInv ==
    /\ foreign = {} /\ owed \subseteq Packets
    /\ Plain(Reload)
    /\ ~ Storing /\ ~ Writing => Holds(Reload)
    /\ Storing => /\ Plain(table) /\ Holds(table)
                  /\ storer.pkt \in NormalPkts /\ storer.addr = table.tail
    /\ storer.pc = "mark" => data[table.tail] = storer.pkt
    /\ Deleting => NewestIn(Reload, uploader.slots)
    /\ uploader.pc = "sending" =>
          \A i \in 1 .. Len(uploader.slots) : data[uploader.slots[i]] \in uploader.pkts
    /\ uploader.pc = "delete" =>
          \A i \in 1 .. Len(uploader.slots) : data[uploader.slots[i]] \notin owed
    /\ Writing => /\ Plain(table) /\ Holds(table) /\ NewestIn(table, Rest)
                  /\ \A i \in 1 .. Len(Rest) : data[Rest[i]] \notin owed

UploadInv ==
    /\ "overlap" \notin world => TablesInv
    /\ world = {} => CalmInv

-----------------------------------------------------------------------------
(* Lists of at most two slots.                                               *)

LEMMA ShortLists ==
    ASSUME NEW q \in ShortSeqs
    PROVE  /\ q \in Seq(Slots) /\ Len(q) \in 0 .. 2
           /\ \A i \in 1 .. Len(q) : q[i] \in Slots
           /\ q # <<>> => /\ Len(q) > 0 /\ Head(q) = q[1] /\ Tail(q) \in ShortSeqs
                          /\ Len(Tail(q)) = Len(q) - 1
                          /\ \A i \in 1 .. Len(Tail(q)) : Tail(q)[i] = q[i + 1]
<1>1. CASE q = <<>>
  BY <1>1
<1>2. ASSUME NEW a \in Slots, q = <<a>> PROVE TRUE
  OBVIOUS
<1>3. CASE \E a \in Slots : q = <<a>>
  <2>1. PICK a \in Slots : q = <<a>>
    BY <1>3
  <2>2. Len(q) = 1 /\ q[1] = a /\ q \in Seq(Slots) /\ Tail(q) = <<>> /\ Head(q) = a
    BY <2>1
  <2>3. \A i \in 1 .. Len(q) : i = 1
    BY <2>2
  <2> QED
    BY <2>1, <2>2, <2>3 DEF ShortSeqs
<1>4. CASE \E a, b \in Slots : q = <<a, b>>
  <2>1. PICK a \in Slots, b \in Slots : q = <<a, b>>
    BY <1>4
  <2>2. /\ Len(q) = 2 /\ q[1] = a /\ q[2] = b /\ q \in Seq(Slots)
        /\ Tail(q) = <<b>> /\ Head(q) = a
    BY <2>1
  <2>3. \A i \in 1 .. Len(q) : i = 1 \/ i = 2
    BY <2>2
  <2>4. /\ Len(Tail(q)) = 1 /\ Tail(q)[1] = q[2] /\ Tail(q) \in ShortSeqs
    BY <2>2 DEF ShortSeqs
  <2> QED
    BY <2>1, <2>2, <2>3, <2>4
<1> QED
  BY <1>1, <1>3, <1>4 DEF ShortSeqs

LEMMA RestOfDistinct ==
    ASSUME NEW q \in ShortSeqs, q # <<>>, Distinct(q)
    PROVE  /\ Distinct(Tail(q))
           /\ \A i \in 1 .. Len(Tail(q)) : Tail(q)[i] # Head(q)
<1>1. /\ Len(q) \in 1 .. 2 /\ Head(q) = q[1] /\ Len(Tail(q)) = Len(q) - 1
      /\ \A i \in 1 .. Len(Tail(q)) : Tail(q)[i] = q[i + 1] /\ i + 1 \in 1 .. Len(q)
  BY ShortLists
<1>2. \A i \in 1 .. Len(Tail(q)) : i = 1
  BY <1>1
<1>3. 1 \in 1 .. Len(q)
  BY <1>1
<1> QED
  BY <1>1, <1>2, <1>3 DEF Distinct

-----------------------------------------------------------------------------
(* What MakeBatchPacket picks.                                               *)

LEMMA AgeOfSlots ==
    ASSUME NEW t \in Tables
    PROVE  /\ \A s \in Slots : Age(t, s) \in Nat
           /\ \A r, s \in Slots : Age(t, r) = Age(t, s) => r = s
           /\ Pred(t.tail) \in Slots /\ Age(t, Pred(t.tail)) = 0
           /\ Pred(Pred(t.tail)) \in Slots /\ Age(t, Pred(Pred(t.tail))) = 1
<1>1. \A s \in Slots : Age(t, s) \in Nat
  BY TableFields DEF Age, Slots
<1>2. \A r, s \in Slots : Age(t, r) = Age(t, s) => r = s
  BY TableFields DEF Age, Slots
<1>3. Pred(t.tail) \in Slots /\ Age(t, Pred(t.tail)) = 0
  BY TableFields DEF Age, Pred, Slots
<1>4. Pred(Pred(t.tail)) \in Slots /\ Age(t, Pred(Pred(t.tail))) = 1
  BY TableFields DEF Age, Pred, Slots
<1> QED
  BY <1>1, <1>2, <1>3, <1>4

LEMMA YoungestExists ==
    ASSUME NEW t \in Tables, NEW S \in SUBSET Slots, S # {}
    PROVE  \E s \in S : \A r \in S \ {s} : Age(t, s) < Age(t, r)
<1> DEFINE D == {Age(t, s) : s \in S}
<1>1. D \subseteq Nat /\ D # {}
  BY AgeOfSlots
<1>2. PICK d \in D : \A e \in D : d <= e
  <2> HIDE DEF D
  <2> QED
    BY <1>1, LeastNatural
<1>3. PICK s \in S : d = Age(t, s)
  OBVIOUS
<1>4. ASSUME NEW r \in S \ {s} PROVE Age(t, s) < Age(t, r)
  <2>1. Age(t, s) <= Age(t, r)
    BY <1>2, <1>3
  <2> QED
    BY <2>1, AgeOfSlots
<1> QED
  BY <1>4

LEMMA NextOfIsNext ==
    ASSUME NEW t \in Tables, NEW S \in SUBSET Slots, S # {}
    PROVE  /\ NextOf(t, S) \in S
           /\ \A r \in S \ {NextOf(t, S)} : Sooner(t, NextOf(t, S), r)
<1> DEFINE A == {s \in S : t.packet[s] = "ALERT"}
<1>1. \A s \in Slots : t.packet[s] \in {"NORMAL", "ALERT"}
  BY DEF Tables, Types
<1>2. CASE A = {}
  <2>1. PICK s \in S : \A r \in S \ {s} : Age(t, s) < Age(t, r)
    BY YoungestExists
  <2>2. \A r \in S \ {s} : Sooner(t, s, r)
    BY <1>1, <1>2, <2>1 DEF Sooner
  <2> QED
    BY <2>2 DEF NextOf
<1>3. CASE A # {}
  <2>1. PICK s \in A : \A r \in A \ {s} : Age(t, s) < Age(t, r)
    BY <1>3, YoungestExists
  <2>2. \A r \in S \ {s} : Sooner(t, s, r)
    BY <1>1, <2>1 DEF Sooner
  <2> QED
    BY <2>2 DEF NextOf
<1> QED
  BY <1>2, <1>3

UsableIn(t) == Usable(t, "ALERT") \cup Usable(t, "NORMAL")

(* What it picks can be found, and is picked once.                           *)
LEMMA PickedIsFound ==
    ASSUME NEW t \in Tables, NEW n \in 0 .. 2
    PROVE  /\ Picked(t, n) \in ShortSeqs /\ Distinct(Picked(t, n))
           /\ \A i \in 1 .. Len(Picked(t, n)) : Picked(t, n)[i] \in Visible(t)
<1> DEFINE all == UsableIn(t)
           a == NextOf(t, all)
           b == NextOf(t, all \ {a})
           q == Picked(t, n)
<1>1. all \subseteq Visible(t) /\ all \subseteq Slots
  BY DEF UsableIn, Usable, Candidates, Visible
<1>2. CASE q = <<>>
  BY <1>2 DEF ShortSeqs, Distinct
<1>3. CASE all # {} /\ q = <<a>>
  <2>1. a \in Visible(t) /\ a \in Slots
    BY <1>1, <1>3, NextOfIsNext
  <2> HIDE DEF q, a
  <2>2. Len(q) = 1 /\ q[1] = a
    BY <1>3
  <2>3. \A i \in 1 .. Len(q) : i = 1
    BY <2>2
  <2> SUFFICES /\ q \in ShortSeqs /\ Distinct(q)
               /\ \A i \in 1 .. Len(q) : q[i] \in Visible(t)
    BY DEF q
  <2> QED
    BY <1>3, <2>1, <2>2, <2>3 DEF ShortSeqs, Distinct
<1>4. CASE all # {} /\ all # {a} /\ q = <<a, b>>
  <2>1. a \in all
    BY <1>1, <1>4, NextOfIsNext
  <2>2. b \in all \ {a}
    <3>1. all \ {a} # {} /\ all \ {a} \in SUBSET Slots
      BY <1>1, <1>4, <2>1
    <3> HIDE DEF all, a
    <3> QED
      BY <3>1, NextOfIsNext
  <2> HIDE DEF q, a, b
  <2>3. Len(q) = 2 /\ q[1] = a /\ q[2] = b
    BY <1>4
  <2>4. \A i \in 1 .. Len(q) : i = 1 \/ i = 2
    BY <2>3
  <2> SUFFICES /\ q \in ShortSeqs /\ Distinct(q)
               /\ \A i \in 1 .. Len(q) : q[i] \in Visible(t)
    BY DEF q
  <2> QED
    BY <1>1, <1>4, <2>1, <2>2, <2>3, <2>4 DEF ShortSeqs, Distinct
<1>5. q = IF n = 0 \/ all = {} THEN <<>>
          ELSE IF n = 1 \/ all = {a} THEN <<a>> ELSE <<a, b>>
  BY DEF Picked, UsableIn
<1> QED
  BY <1>2, <1>3, <1>4, <1>5

-----------------------------------------------------------------------------
(* TablesInv: every table is sound while the threads keep apart.             *)

LEMMA AddSound ==
    ASSUME NEW t, Sound(t), t.total < MAX_FILE, NEW ty \in Types
    PROVE  Sound(AddAtTail(t, ty))
<1>1. MakeRoom(t) = t
  BY TableFields DEF MakeRoom, Sound
<1> QED
  BY <1>1, StoreType, AddAccounted DEF StoreIn, Sound

LEMMA DeleteSound ==
    ASSUME NEW t, Sound(t), NEW s \in Visible(t)
    PROVE  /\ Sound(DeleteIn(t, s))
           /\ Visible(t) \ {s} \subseteq Visible(DeleteIn(t, s))
<1>1. s \in Slots /\ t \in Tables /\ t.total > 0
  BY TableFields DEF Visible, Sound
<1> QED
  BY <1>1, DeleteType, DeleteAccounted DEF Sound

LEMMA RepairSound ==
    ASSUME NEW t, Sound(t), t.total # 0
    PROVE  Sound(RepairIn(t)) /\ Visible(RepairIn(t)) = Visible(t)
<1> DEFINE u == RepairIn(t)
<1>1. /\ u.total = Cardinality(Visible(t)) /\ u.valid = t.valid
      /\ u.head = t.head /\ u.tail = t.tail
  BY DEF RepairIn, Sound, Tables
<1>2. Sound(u)
  BY RepairType, RepairAccounted DEF Sound
<1> SUFFICES Visible(u) = Visible(t)
  BY <1>2
<1> HIDE DEF u
<1>3. Cardinality(Visible(t)) \in Nat /\ (Cardinality(Visible(t)) = 0 <=> Visible(t) = {})
  BY SlotSets, FS_EmptySet DEF Visible
<1>4. CASE Visible(t) = {}
  <2>1. u.total = 0
    BY <1>1, <1>3, <1>4
  <2>2. Visible(u) = {}
    BY <2>1 DEF Visible
  <2> QED
    BY <1>4, <2>2
<1>5. CASE Visible(t) # {}
  <2>1. u.total > 0 /\ t.total > 0
    BY <1>1, <1>3, <1>5, TableFields DEF Sound
  <2>2. \A s \in Slots : InWindow(u, s) <=> InWindow(t, s)
    BY <1>1, <2>1 DEF InWindow
  <2>3. t.total # 0 /\ u.total # 0 /\ u.valid = t.valid
    BY <1>1, <2>1
  <2>4. Visible(u) = Visible(t)
    BY <2>2, <2>3 DEF Visible
  <2> QED
    BY <2>4
<1> QED
  BY <1>4, <1>5

LEMMA ReloadsWritten ==
    ASSUME NEW t, Sound(t), index' = t
    PROVE  Reload' = t
<1>1. t # NoIndex /\ ~ (t.total > MAX_FILE)
  BY IndexAssumption, TableFields DEF Sound
<1> QED
  BY <1>1 DEF Reload

LEMMA ReloadsSame == index' = index => Reload' = Reload
  BY DEF Reload

LEMMA TypeOfType == \A p : TypeOf(p) \in Types
  BY DEF TypeOf, Types

LEMMA WorldStays ==
    ASSUME [UNext]_uvars
    PROVE  world' = world
BY DEF UNext, uvars, StoreLoad, StoreData, StoreMark, MakeBatch, SendFails,
   SendSucceeds, DeleteLoad, DeleteWrite, ChangeIMEI

LEMMA TablesStep ==
    ASSUME "overlap" \notin world, TablesInv, [UNext]_uvars
    PROVE  TablesInv'
<1> USE DEF TablesInv, Apart, Storing, Deleting, Writing, Rest
<1>10. /\ IdleUploader \in [pc : {"idle", "sending", "delete", "write"},
                             count : 0 .. SlotsMax, slots : ShortSeqs,
                             pkts : SUBSET Contents]
       /\ IdleUploader.pc = "idle" /\ Distinct(IdleUploader.slots)
  BY DEF IdleUploader, ShortSeqs, Distinct, SlotsMax
<1>1. ASSUME NEW p \in Packets, StoreLoad(p) PROVE TablesInv'
  <2>1. /\ uploader.pc = "idle" /\ storer.pc = "idle" /\ UNCHANGED <<index, data, uploader>>
        /\ table' = MakeRoom(Reload)
        /\ storer' = [pc |-> "data", pkt |-> p, addr |-> MakeRoom(Reload).tail]
    BY <1>1 DEF StoreLoad
  <2>2. Sound(table') /\ table'.total < MAX_FILE
    BY <2>1, StoreType, RoomAccounted DEF Sound, Types
  <2>3. MakeRoom(Reload).tail \in Slots
    BY <2>1, <2>2, TableFields DEF Sound
  <2> QED
    BY <2>1, <2>2, <2>3, ReloadsSame DEF Contents
<1>2. CASE StoreData
  <2>1. /\ storer' = [storer EXCEPT !.pc = "mark"] /\ UNCHANGED <<index, table, uploader>>
        /\ data' = [data EXCEPT ![storer.addr] = storer.pkt]
    BY <1>2 DEF StoreData
  <2>2. data' \in [Slots -> Contents]
    BY <2>1
  <2> QED
    BY <1>2, <2>1, <2>2, ReloadsSame DEF StoreData
<1>3. CASE StoreMark
  <2>1. /\ uploader.pc = "idle" /\ UNCHANGED uploader
        /\ table' = AddAtTail(table, TypeOf(storer.pkt)) /\ index' = table'
        /\ storer' = IdleStorer /\ UNCHANGED data
    BY <1>3 DEF StoreMark
  <2>2. Sound(table')
    BY <1>3, <2>1, AddSound, TypeOfType DEF StoreMark
  <2>3. Reload' = table'
    BY <2>1, <2>2, ReloadsWritten
  <2>4. IdleStorer \in [pc : {"idle", "data", "mark"}, pkt : Contents, addr : Slots]
        /\ IdleStorer.pc = "idle"
    BY RingSize DEF IdleStorer, Contents, Slots
  <2>5. table' \in Tables
    BY <2>2 DEF Sound
  <2> QED
    BY <2>1, <2>2, <2>3, <2>4, <2>5
<1>4. CASE MakeBatch
  <2> DEFINE t == Reload
             q == Picked(t, BatchSize(t))
  <2>1. storer.pc = "idle" /\ t.total > 0 /\ UNCHANGED <<data, storer>> /\ Sound(t)
    BY <1>4 DEF MakeBatch
  <2>2. BatchSize(t) \in 0 .. 2
    BY <2>1, TableFields DEF BatchSize, SlotsMax, Sound
  <2>3. /\ q \in ShortSeqs /\ Distinct(q)
        /\ \A i \in 1 .. Len(q) : q[i] \in Visible(t)
    BY <2>1, <2>2, PickedIsFound DEF Sound
  <2>4. /\ index' \in Tables \cup {NoIndex} /\ Sound(Reload')
        /\ Visible(Reload') = Visible(t)
    <3>1. CASE index' = index
      BY <3>1, ReloadsSame
    <3>2. CASE index' = RepairIn(t)
      <4>1. Sound(RepairIn(t)) /\ Visible(RepairIn(t)) = Visible(t)
        BY <2>1, RepairSound, TableFields DEF Sound
      <4> QED
        BY <3>2, <4>1, ReloadsWritten DEF Sound
    <3> QED
      BY <1>4, <3>1, <3>2 DEF MakeBatch
  <2>5. uploader' = [pc |-> "sending", count |-> BatchSize(t), slots |-> q,
                     pkts |-> {data[q[i]] : i \in DOMAIN q}]
    BY <1>4 DEF MakeBatch
  <2>6. {data[q[i]] : i \in DOMAIN q} \subseteq Contents
    BY <2>3, ShortLists DEF Visible
  <2> HIDE DEF q, t
  <2> QED
    BY <2>1, <2>2, <2>3, <2>4, <2>5, <2>6 DEF SlotsMax
<1>5. CASE SendFails
  <2>1. uploader' = IdleUploader /\ UNCHANGED <<table, index, data, storer>>
    BY <1>5 DEF SendFails
  <2> QED
    BY <1>10, <2>1, ReloadsSame
<1>6. CASE SendSucceeds
  <2>1. uploader.pc = "sending" /\ UNCHANGED <<table, index, data, storer>>
    BY <1>6 DEF SendSucceeds
  <2>2. CASE uploader.slots = <<>>
    BY <1>6, <1>10, <2>1, <2>2, ReloadsSame DEF SendSucceeds
  <2>3. CASE uploader.slots # <<>>
    BY <1>6, <2>1, <2>3, ReloadsSame DEF SendSucceeds
  <2> QED
    BY <2>2, <2>3
<1>7. CASE DeleteLoad
  <2> DEFINE s == Head(uploader.slots)
  <2>1. uploader.pc = "delete" /\ UNCHANGED <<index, data, storer>>
    BY <1>7 DEF DeleteLoad
  <2>2. /\ uploader.slots \in ShortSeqs /\ uploader.slots # <<>>
        /\ Distinct(uploader.slots) /\ storer.pc = "idle"
    BY <2>1
  <2>3. /\ s \in Visible(Reload) /\ Tail(uploader.slots) \in ShortSeqs
        /\ \A i \in 1 .. Len(Tail(uploader.slots)) :
              Tail(uploader.slots)[i] \in Visible(Reload) \ {s}
    <3>1. /\ Len(uploader.slots) \in 1 .. 2 /\ s = uploader.slots[1]
          /\ Tail(uploader.slots) \in ShortSeqs
          /\ \A i \in 1 .. Len(Tail(uploader.slots)) :
                /\ Tail(uploader.slots)[i] = uploader.slots[i + 1]
                /\ i + 1 \in 1 .. Len(uploader.slots)
      BY <2>2, ShortLists
    <3>2. 1 \in 1 .. Len(uploader.slots)
      BY <3>1
    <3> QED
      BY <2>1, <2>2, <3>1, <3>2, RestOfDistinct
  <2>4. Reload.valid[s]
    BY <2>3 DEF Visible
  <2>5. table' = DeleteIn(Reload, s) /\ uploader' = [uploader EXCEPT !.pc = "write"]
    BY <1>7, <2>4 DEF DeleteLoad
  <2>6. Sound(table') /\ Visible(Reload) \ {s} \subseteq Visible(table')
    BY <2>3, <2>5, DeleteSound
  <2> HIDE DEF s
  <2> QED
    BY <2>1, <2>2, <2>3, <2>5, <2>6, ReloadsSame
<1>8. CASE DeleteWrite
  <2>1. /\ uploader.pc = "write" /\ UNCHANGED <<table, data, storer>> /\ index' = table
        /\ uploader' = IF Rest = <<>> THEN IdleUploader
                       ELSE [uploader EXCEPT !.pc = "delete", !.slots = Rest]
    BY <1>8 DEF DeleteWrite
  <2>2. /\ uploader.slots \in ShortSeqs /\ uploader.slots # <<>> /\ storer.pc = "idle"
        /\ Distinct(uploader.slots)
    BY <2>1
  <2>3. Rest \in ShortSeqs /\ Distinct(Rest)
    BY <2>1, <2>2, ShortLists, RestOfDistinct
  <2>4. Reload' = table /\ Sound(table) /\ table \in Tables
    BY <2>1, ReloadsWritten DEF Sound
  <2>5. CASE Rest = <<>>
    BY <1>10, <2>1, <2>2, <2>4, <2>5
  <2>6. CASE Rest # <<>>
    <3>1. uploader' = [uploader EXCEPT !.pc = "delete", !.slots = Rest]
      BY <2>1, <2>6
    <3> QED
      BY <2>1, <2>2, <2>3, <2>4, <2>6, <3>1
  <2> QED
    BY <2>5, <2>6
<1>9. CASE ChangeIMEI \/ UNCHANGED uvars
  BY <1>9, ReloadsSame DEF ChangeIMEI, uvars
<1> QED
  BY <1>1, <1>2, <1>3, <1>4, <1>5, <1>6, <1>7, <1>8, <1>9 DEF UNext

-----------------------------------------------------------------------------
(* CalmInv: positions only, one thread at a time.                            *)

(* Without a gap the valid slots are the ones of the stack, so the count is  *)
(* their number.                                                             *)
LEMMA NoGapCounts ==
    ASSUME NEW t \in Tables, NoGap(t)
    PROVE  Cardinality(Visible(t)) = t.total
<1> DEFINE f == [i \in 1 .. t.total |-> At(t.head, i)]
<1>1. \A i \in 1 .. t.total : At(t.head, i) \in Visible(t)
  <2> SUFFICES ASSUME NEW i \in 1 .. t.total PROVE At(t.head, i) \in Visible(t)
    OBVIOUS
  <2>1. /\ t.head < t.tail => t.total = t.tail - t.head
        /\ t.tail < t.head => t.total = t.tail - t.head + MAX_FILE
        /\ t.head = t.tail => t.total \in {0, MAX_FILE}
    BY DEF NoGap
  <2>2. At(t.head, i) \in Slots /\ t.total > 0
    BY TableFields DEF At, Slots
  <2>3. InWindow(t, At(t.head, i))
    BY <2>1, <2>2, TableFields DEF At, InWindow
  <2>4. t.valid[At(t.head, i)]
    BY <2>2, <2>3 DEF NoGap
  <2> QED
    BY <2>2, <2>3, <2>4 DEF Visible
<1>2. \A s \in Visible(t) : \E i \in 1 .. t.total : s = At(t.head, i)
  <2> SUFFICES ASSUME NEW s \in Visible(t)
               PROVE  \E i \in 1 .. t.total : s = At(t.head, i)
    OBVIOUS
  <2>1. /\ t.head < t.tail => t.total = t.tail - t.head
        /\ t.tail < t.head => t.total = t.tail - t.head + MAX_FILE
        /\ t.head = t.tail => t.total \in {0, MAX_FILE}
    BY DEF NoGap
  <2>2. s \in Slots /\ InWindow(t, s) /\ t.total > 0
    BY TableFields DEF Visible
  <2> DEFINE i == IF t.head <= s THEN s - t.head + 1 ELSE s - t.head + 1 + MAX_FILE
  <2>3. i \in 1 .. t.total
    <3>1. s \in Nat /\ s < MAX_FILE
      BY <2>2, TableFields DEF Slots
    <3>2. CASE t.head <= s
      BY <2>1, <2>2, <3>1, <3>2, TableFields DEF InWindow
    <3>3. CASE s < t.head
      BY <2>1, <2>2, <3>1, <3>3, TableFields DEF InWindow
    <3> QED
      BY <3>1, <3>2, <3>3, TableFields
  <2>4. s = At(t.head, i)
    BY <2>2, TableFields DEF At, Slots
  <2> QED
    BY <2>3, <2>4
<1>3. \A i, j \in 1 .. t.total : At(t.head, i) = At(t.head, j) => i = j
  <2>1. 1 .. t.total \subseteq 1 .. MAX_FILE
    BY TableFields
  <2> QED
    BY <2>1, TailOfStack
<1>4. ExistsBijection(1 .. t.total, Visible(t))
  <2>1. f \in [1 .. t.total -> Visible(t)]
    BY <1>1
  <2>2. f \in Bijection(1 .. t.total, Visible(t))
    <3>1. f \in Injection(1 .. t.total, Visible(t))
      BY <1>3, <2>1 DEF Injection, IsInjective
    <3>2. f \in Surjection(1 .. t.total, Visible(t))
      BY <1>2, <2>1 DEF Surjection
    <3> QED
      BY <3>1, <3>2 DEF Bijection
  <2> QED
    BY <2>2 DEF ExistsBijection
<1>5. IsFiniteSet(1 .. t.total) /\ Cardinality(1 .. t.total) = t.total
  <2>1. t.total \in Nat /\ t.total \in Int /\ 1 \in Int
    BY TableFields
  <2>2. /\ IsFiniteSet(1 .. t.total)
        /\ Cardinality(1 .. t.total) = IF 1 > t.total THEN 0 ELSE t.total - 1 + 1
    BY <2>1, FS_Interval
  <2> QED
    BY <2>1, <2>2
<1> QED
  BY <1>4, <1>5, FS_Bijection

LEMMA TailIsFree ==
    ASSUME NEW t \in Tables, NoGap(t), t.total < MAX_FILE
    PROVE  t.tail \notin Visible(t)
BY TableFields DEF NoGap, Visible, InWindow

LEMMA RoomPlain ==
    ASSUME NEW t \in Tables, Plain(t)
    PROVE  /\ Plain(MakeRoom(t))
           /\ t.total < MAX_FILE => MakeRoom(t) = t
           /\ t.total = MAX_FILE =>
                 /\ Visible(t) \ {t.head} \subseteq Visible(MakeRoom(t))
                 /\ Cardinality(Visible(t)) = MAX_FILE
<1> DEFINE r == DropOldest(t)
<1>1. t.total < MAX_FILE => MakeRoom(t) = t
  BY TableFields DEF MakeRoom
<1>2. t.total = MAX_FILE => MakeRoom(t) = r
  BY TableFields DEF MakeRoom
<1>3. NoGap(MakeRoom(t))
  BY RoomNoGap DEF Plain
<1>4. /\ r.total = t.total - 1 /\ r.packet = t.packet
      /\ \A s \in Slots : r.valid[s] <=> s # t.head /\ t.valid[s]
  BY DEF DropOldest, Tables
<1> HIDE DEF r
<1>5. Plain(MakeRoom(t))
  BY <1>1, <1>2, <1>3, <1>4, TableFields DEF Plain
<1>6. ASSUME t.total = MAX_FILE PROVE Visible(t) \ {t.head} \subseteq Visible(r)
  <2>1. NoGap(r)
    BY <1>2, <1>3, <1>6
  <2>2. r.total # 0
    BY <1>4, <1>6, RingSize
  <2> QED
    BY <1>4, <2>1, <2>2 DEF Visible, NoGap
<1>7. t.total = MAX_FILE => Cardinality(Visible(t)) = MAX_FILE
  BY NoGapCounts DEF Plain
<1> QED
  BY <1>1, <1>2, <1>5, <1>6, <1>7

LEMMA AddPlain ==
    ASSUME NEW t \in Tables, Plain(t), t.total < MAX_FILE
    PROVE  /\ Plain(AddAtTail(t, "NORMAL"))
           /\ Visible(t) \cup {t.tail} \subseteq Visible(AddAtTail(t, "NORMAL"))
<1> DEFINE u == AddAtTail(t, "NORMAL")
<1>1. MakeRoom(t) = t
  BY TableFields DEF MakeRoom
<1>2. NoGap(u)
  BY <1>1, StoreNoGap DEF StoreIn, Types, Plain
<1>3. /\ u.total = t.total + 1
      /\ \A s \in Slots : u.valid[s] <=> s = t.tail \/ t.valid[s]
      /\ \A s \in Slots : u.packet[s] = "NORMAL"
  BY DEF AddAtTail, Tables, Plain
<1> HIDE DEF u
<1>4. Plain(u)
  BY <1>2, <1>3 DEF Plain
<1>5. Visible(t) \cup {t.tail} \subseteq Visible(u)
  <2>1. u.total # 0
    BY <1>3, TableFields
  <2> QED
    BY <1>2, <1>3, <2>1, TableFields DEF Visible, NoGap
<1> QED
  BY <1>4, <1>5 DEF u

LEMMA PopPlain ==
    ASSUME NEW t \in Tables, Plain(t), t.total > 0
    PROVE  /\ Plain(DeleteIn(t, Pred(t.tail)))
           /\ DeleteIn(t, Pred(t.tail)).tail = Pred(t.tail)
<1> DEFINE s == Pred(t.tail)
           u == DeleteIn(t, s)
<1>1. s \in Slots
  BY TableFields DEF Pred, Slots
<1>2. NoGap(u)
  BY <1>1, PopNoGap DEF Plain
<1>3. u.tail = s
  BY <1>1, DeleteFields
<1>4. \A r \in Slots : u.packet[r] = "NORMAL"
  <2> DEFINE c == ClearSlot(t, s)
             p == PullTail(c, s)
             h == SkipHead(p, s)
  <2>1. c.packet \in [Slots -> Types] /\ \A r \in Slots : c.packet[r] = "NORMAL"
    BY <1>1 DEF ClearSlot, Tables, Plain, Types
  <2>2. p.packet = c.packet /\ h.packet = p.packet
    BY DEF PullTail, SkipHead, ClearSlot, Tables
  <2>3. u.packet = h.packet
    BY DEF DeleteIn, CountDown, PullTail, SkipHead, ClearSlot, Tables
  <2> QED
    BY <2>1, <2>2, <2>3
<1> QED
  BY <1>2, <1>3, <1>4 DEF Plain

(* What is picked in a ring of positions without a gap are its newest slots. *)
LEMMA PickedIsNewest ==
    ASSUME NEW t \in Tables, Plain(t), foreign = {},
           NEW n \in 0 .. 2, n <= t.total
    PROVE  NewestIn(t, Picked(t, n))
<1> DEFINE all == UsableIn(t)
           a == NextOf(t, all)
           b == NextOf(t, all \ {a})
           q == Picked(t, n)
<1>1. all = Visible(t)
  BY DEF UsableIn, Usable, Candidates, Visible, Plain
<1>2. q = IF n = 0 \/ all = {} THEN <<>>
          ELSE IF n = 1 \/ all = {a} THEN <<a>> ELSE <<a, b>>
  BY DEF Picked, UsableIn
<1>3. ASSUME NEW S \in SUBSET Visible(t), NEW s \in S,
             \A r \in S \ {s} : Age(t, s) < Age(t, r)
      PROVE  NextOf(t, S) = s
  <2>1. NextOf(t, S) \in S /\ \A r \in S \ {NextOf(t, S)} : Sooner(t, NextOf(t, S), r)
    BY <1>3, NextOfIsNext DEF Visible
  <2>2. ASSUME NextOf(t, S) # s PROVE FALSE
    <3>1. Age(t, NextOf(t, S)) < Age(t, s) /\ Age(t, s) < Age(t, NextOf(t, S))
      BY <1>3, <2>1, <2>2 DEF Sooner, Plain, Visible
    <3> QED
      BY <1>3, <2>1, <3>1, AgeOfSlots DEF Visible
  <2> QED
    BY <2>2
<1>4. t.total > 0 => Pred(t.tail) \in Visible(t)
  <2>1. t.total > 0 => InWindow(t, Pred(t.tail))
    BY TableFields DEF NoGap, Plain, InWindow, Pred
  <2> QED
    BY <2>1, AgeOfSlots DEF NoGap, Plain, Visible
<1>5. t.total > 1 => Pred(Pred(t.tail)) \in Visible(t)
  <2>1. t.total > 1 => InWindow(t, Pred(Pred(t.tail)))
    BY TableFields DEF NoGap, Plain, InWindow, Pred
  <2> QED
    BY <2>1, AgeOfSlots DEF NoGap, Plain, Visible
<1> HIDE DEF all, a, b, q
<1>6. t.total > 0 => a = Pred(t.tail)
  <2>1. \A r \in Visible(t) \ {Pred(t.tail)} : Age(t, Pred(t.tail)) < Age(t, r)
    BY AgeOfSlots DEF Visible
  <2> QED
    BY <1>1, <1>3, <1>4, <2>1 DEF a
<1>7. t.total > 1 => b = Pred(a)
  <2>1. ASSUME t.total > 1, NEW r \in Visible(t) \ {a}, r # Pred(a)
        PROVE  Age(t, Pred(a)) < Age(t, r)
    <3>1. r \in Slots /\ r # Pred(t.tail) /\ a = Pred(t.tail)
      BY <1>6, <2>1, TableFields DEF Visible
    <3>2. Age(t, r) \in Nat /\ Age(t, r) # 0 /\ Age(t, r) # 1 /\ Age(t, Pred(a)) = 1
      BY <2>1, <3>1, AgeOfSlots
    <3> QED
      BY <3>2
  <2>2. ASSUME t.total > 1 PROVE a = Pred(t.tail) /\ Pred(a) \in Visible(t) \ {a}
    <3>1. a = Pred(t.tail)
      BY <1>6, <2>2, TableFields
    <3> QED
      BY <1>5, <2>2, <3>1, AgeOfSlots
  <2>3. Visible(t) \ {a} \in SUBSET Visible(t)
    OBVIOUS
  <2> QED
    BY <1>1, <1>3, <2>1, <2>2, <2>3 DEF b
<1> SUFFICES NewestIn(t, q)
  BY DEF q
<1>8. CASE n = 0 \/ all = {}
  BY <1>2, <1>8 DEF NewestIn
<1>9. CASE n # 0 /\ all # {} /\ (n = 1 \/ all = {a})
  <2>1. q = <<a>> /\ t.total > 0
    BY <1>2, <1>9, TableFields
  <2>2. Len(q) = 1 /\ q[1] = a
    BY <2>1
  <2> QED
    BY <1>6, <2>1, <2>2 DEF NewestIn
<1>10. CASE n # 0 /\ all # {} /\ n # 1 /\ all # {a}
  <2>1. q = <<a, b>> /\ t.total > 1
    BY <1>2, <1>10, TableFields
  <2>2. Len(q) = 2 /\ q[1] = a /\ q[2] = b /\ t.total > 0
    BY <2>1, TableFields
  <2> QED
    BY <1>6, <1>7, <2>1, <2>2 DEF NewestIn
<1> QED
  BY <1>8, <1>9, <1>10

LEMMA CalmStep ==
    ASSUME world = {}, TablesInv, CalmInv, [UNext]_uvars
    PROVE  CalmInv'
<1> USE DEF Storing, Deleting, Writing, Rest
<1>1. /\ Sound(Reload) /\ Reload \in Tables /\ NoGap(Reload) /\ Plain(Reload)
      /\ Apart /\ foreign = {} /\ owed \subseteq Packets /\ data \in [Slots -> Contents]
  BY DEF TablesInv, CalmInv, Sound, Plain
<1>2. ASSUME NEW p \in Packets, StoreLoad(p) PROVE CalmInv'
  <2> DEFINE t == Reload
             r == MakeRoom(t)
  <2>1. /\ storer.pc = "idle" /\ uploader.pc = "idle" /\ UNCHANGED <<index, data, uploader>>
        /\ table' = r /\ storer' = [pc |-> "data", pkt |-> p, addr |-> r.tail]
        /\ p \in NormalPkts /\ foreign' = {} \ {p}
        /\ owed' = IF Cardinality(Visible(t)) = MAX_FILE
                   THEN owed \ {data[t.head]} ELSE owed
    BY <1>1, <1>2 DEF StoreLoad
  <2>2. Reload' = t
    BY <2>1, ReloadsSame
  <2>3. Plain(r)
    BY <1>1, RoomPlain
  <2>4. owed' \subseteq {data[s] : s \in Visible(r)}
    <3>1. owed \subseteq {data[s] : s \in Visible(t)}
      BY <2>1 DEF CalmInv, Holds
    <3>2. CASE t.total < MAX_FILE
      BY <1>1, <2>1, <3>1, <3>2, RoomPlain
    <3>3. CASE t.total = MAX_FILE
      <4>1. /\ Visible(t) \ {t.head} \subseteq Visible(r)
            /\ owed' = owed \ {data[t.head]}
        BY <1>1, <2>1, <3>3, RoomPlain
      <4> QED
        BY <3>1, <4>1
    <3> QED
      BY <1>1, <3>2, <3>3, TableFields
  <2> HIDE DEF t, r
  <2> QED
    BY <1>1, <2>1, <2>2, <2>3, <2>4 DEF CalmInv, Holds, t
<1>3. CASE StoreData
  <2>1. /\ storer' = [storer EXCEPT !.pc = "mark"] /\ UNCHANGED <<index, table, uploader, foreign, owed>>
        /\ data' = [data EXCEPT ![storer.addr] = storer.pkt] /\ storer.pc = "data"
        /\ uploader.pc = "idle"
    BY <1>1, <1>3 DEF StoreData, Apart
  <2>2. /\ Sound(table) /\ table \in Tables /\ table.total < MAX_FILE /\ Plain(table)
        /\ Holds(table) /\ storer.pkt \in NormalPkts /\ storer.addr = table.tail
        /\ storer \in [pc : {"idle", "data", "mark"}, pkt : Contents, addr : Slots]
    BY <2>1 DEF TablesInv, CalmInv, Sound
  <2>3. /\ storer'.pc = "mark" /\ storer'.pkt = storer.pkt /\ storer'.addr = storer.addr
    BY <2>1, <2>2
  <2>4. table.tail \notin Visible(table) /\ table.tail \in Slots
    BY <2>2, TailIsFree, TableFields DEF Plain
  <2>5. data'[table.tail] = storer.pkt /\ data' \in [Slots -> Contents]
    BY <1>1, <2>1, <2>2, <2>4
  <2>6. Holds(table)'
    <3>1. \A s \in Visible(table) : data'[s] = data[s]
      BY <1>1, <2>1, <2>2, <2>4 DEF Visible
    <3>2. Visible(table)' = Visible(table)
      BY <2>1 DEF Visible, InWindow
    <3> QED
      BY <2>1, <2>2, <3>1, <3>2 DEF Holds
  <2>7. Reload' = Reload
    BY <2>1, ReloadsSame
  <2> QED
    BY <1>1, <2>1, <2>2, <2>3, <2>5, <2>6, <2>7 DEF CalmInv, Plain
<1>4. CASE StoreMark
  <2>1. /\ storer' = IdleStorer /\ UNCHANGED <<data, uploader, foreign>>
        /\ table' = AddAtTail(table, TypeOf(storer.pkt)) /\ index' = table'
        /\ owed' = owed \cup {storer.pkt} /\ storer.pc = "mark" /\ uploader.pc = "idle"
    BY <1>1, <1>4 DEF StoreMark, Apart
  <2>2. /\ Sound(table) /\ table \in Tables /\ table.total < MAX_FILE /\ Plain(table)
        /\ Holds(table) /\ storer.pkt \in NormalPkts /\ data[table.tail] = storer.pkt
    BY <2>1 DEF TablesInv, CalmInv, Sound
  <2>3. TypeOf(storer.pkt) = "NORMAL"
    BY <2>2, PacketAssumption DEF TypeOf
  <2>4. /\ Plain(table') /\ Sound(table')
        /\ Visible(table) \cup {table.tail} \subseteq Visible(table')
    BY <2>1, <2>2, <2>3, AddPlain, AddSound, TypeOfType
  <2>5. Reload' = table'
    BY <2>1, <2>4, ReloadsWritten
  <2>6. owed' \subseteq {data[s] : s \in Visible(table')}
    BY <2>1, <2>2, <2>4 DEF Holds
  <2>7. storer'.pc = "idle"
    BY <2>1 DEF IdleStorer
  <2> QED
    BY <1>1, <2>1, <2>2, <2>4, <2>5, <2>6, <2>7 DEF CalmInv, Holds, Packets
<1>5. CASE MakeBatch
  <2> DEFINE t == Reload
             q == Picked(t, BatchSize(t))
  <2>1. /\ storer.pc = "idle" /\ uploader.pc = "idle" /\ t.total > 0
        /\ UNCHANGED <<data, storer, foreign, owed>>
        /\ uploader' = [pc |-> "sending", count |-> BatchSize(t), slots |-> q,
                        pkts |-> {data[q[i]] : i \in DOMAIN q}]
    BY <1>1, <1>5 DEF MakeBatch, Apart
  <2>2. BatchSize(t) \in 0 .. 2 /\ BatchSize(t) <= t.total
    BY <1>1, <2>1, TableFields DEF BatchSize, SlotsMax
  <2>3. q \in ShortSeqs /\ NewestIn(t, q)
    BY <1>1, <2>2, PickedIsFound, PickedIsNewest
  <2>4. Reload' = t
    BY <1>1, <1>5, NoGapCounts, ReloadsSame DEF MakeBatch
  <2>5. DOMAIN q = 1 .. Len(q)
    BY <2>3, ShortLists
  <2>6. Holds(t)
    BY <2>1 DEF CalmInv
  <2> HIDE DEF q, t
  <2> QED
    BY <1>1, <2>1, <2>3, <2>4, <2>5, <2>6 DEF CalmInv, Holds, t
<1>6. CASE SendFails
  <2>1. /\ uploader' = IdleUploader /\ UNCHANGED <<table, index, data, storer, foreign, owed>>
        /\ uploader.pc = "sending" /\ IdleUploader.pc = "idle"
    BY <1>6 DEF SendFails, IdleUploader
  <2>2. Reload' = Reload
    BY <2>1, ReloadsSame
  <2> QED
    BY <1>1, <2>1, <2>2 DEF CalmInv, Holds, Apart
<1>7. CASE SendSucceeds
  <2>1. /\ UNCHANGED <<table, index, data, storer, foreign>> /\ uploader.pc = "sending"
        /\ owed' = owed \ uploader.pkts /\ storer.pc = "idle" /\ Holds(Reload)
        /\ NewestIn(Reload, uploader.slots)
        /\ \A i \in 1 .. Len(uploader.slots) : data[uploader.slots[i]] \in uploader.pkts
    BY <1>1, <1>7 DEF SendSucceeds, Apart, CalmInv
  <2>2. Reload' = Reload
    BY <2>1, ReloadsSame
  <2>3. \/ uploader'.pc = "idle"
        \/ uploader'.pc = "delete" /\ uploader'.slots = uploader.slots
    BY <1>7 DEF SendSucceeds, IdleUploader, TablesInv
  <2>4. owed' \subseteq {data[s] : s \in Visible(Reload)}
    BY <2>1 DEF Holds
  <2> QED
    BY <1>1, <2>1, <2>2, <2>3, <2>4 DEF CalmInv, Holds
<1>8. CASE DeleteLoad
  <2> DEFINE t == Reload
             q == uploader.slots
             s == Head(q)
  <2>1. /\ UNCHANGED <<index, data, storer, foreign, owed>> /\ uploader.pc = "delete"
        /\ storer.pc = "idle" /\ Holds(t) /\ NewestIn(t, q)
        /\ q \in ShortSeqs /\ q # <<>>
        /\ \A i \in 1 .. Len(q) : q[i] \in Visible(t) /\ data[q[i]] \notin owed
    BY <1>1, <1>8 DEF DeleteLoad, Apart, CalmInv, TablesInv
  <2>2. /\ Len(q) \in 1 .. 2 /\ s = q[1] /\ Len(Tail(q)) = Len(q) - 1
        /\ \A i \in 1 .. Len(Tail(q)) : i = 1 /\ Tail(q)[i] = q[i + 1] /\ i + 1 \in 1 .. Len(q)
        /\ 1 \in 1 .. Len(q)
    <3>1. /\ Len(q) \in 1 .. 2 /\ s = q[1] /\ Len(Tail(q)) = Len(q) - 1
          /\ \A i \in 1 .. Len(Tail(q)) : Tail(q)[i] = q[i + 1]
      BY <2>1, ShortLists
    <3> QED
      BY <3>1
  <2>3. s \in Visible(t) /\ s = Pred(t.tail) /\ data[s] \notin owed /\ t.valid[s] /\ t.total > 0
    <3>1. s \in Visible(t) /\ data[s] \notin owed
      BY <2>1, <2>2
    <3>2. s = Pred(t.tail)
      BY <2>1, <2>2 DEF NewestIn
    <3>3. t.valid[s] /\ t.total # 0
      BY <3>1 DEF Visible
    <3>4. t.total \in Nat
      BY <1>1, TableFields
    <3> HIDE DEF t, q, s
    <3> QED
      BY <3>1, <3>2, <3>3, <3>4
  <2>4. table' = DeleteIn(t, s) /\ uploader' = [uploader EXCEPT !.pc = "write"]
    BY <1>8, <2>3 DEF DeleteLoad
  <2>5. /\ Plain(table') /\ table'.tail = s
        /\ Visible(t) \ {s} \subseteq Visible(table')
    BY <1>1, <2>3, <2>4, PopPlain, DeleteSound
  <2>6. uploader'.pc = "write" /\ uploader'.slots = q
    BY <2>4 DEF TablesInv
  <2>7. NewestIn(table', Tail(q)) /\ \A i \in 1 .. Len(Tail(q)) : data[Tail(q)[i]] \notin owed
    <3>1. Len(Tail(q)) > 0 => Tail(q)[1] = Pred(q[1])
      BY <2>1, <2>2 DEF NewestIn
    <3> QED
      BY <2>1, <2>2, <2>3, <2>5, <3>1 DEF NewestIn
  <2>8. owed \subseteq {data[x] : x \in Visible(table')}
    BY <2>1, <2>3, <2>5 DEF Holds
  <2>9. Reload' = t
    BY <2>1, ReloadsSame
  <2> HIDE DEF t, q, s
  <2> QED
    BY <1>1, <2>1, <2>4, <2>5, <2>6, <2>7, <2>8, <2>9 DEF CalmInv, Holds, t
<1>9. CASE DeleteWrite
  <2>1. /\ uploader.pc = "write" /\ UNCHANGED <<table, data, storer, foreign, owed>> /\ index' = table
        /\ uploader' = IF Rest = <<>> THEN IdleUploader
                       ELSE [uploader EXCEPT !.pc = "delete", !.slots = Rest]
    BY <1>9 DEF DeleteWrite
  <2>2. /\ Sound(table) /\ Plain(table) /\ Holds(table) /\ NewestIn(table, Rest)
        /\ \A i \in 1 .. Len(Rest) : data[Rest[i]] \notin owed
        /\ storer.pc = "idle"
    BY <1>1, <2>1 DEF CalmInv, TablesInv, Apart
  <2>3. Reload' = table
    BY <2>1, <2>2, ReloadsWritten
  <2>4. \/ uploader'.pc = "idle"
        \/ uploader'.pc = "delete" /\ uploader'.slots = Rest
    BY <2>1 DEF IdleUploader, TablesInv
  <2>5. Visible(table)' = Visible(table) /\ Plain(table)' /\ Holds(table)'
    BY <2>1, <2>2 DEF Visible, InWindow, Plain, Holds
  <2>6. Plain(Reload') /\ Holds(Reload)'
    BY <2>1, <2>2, <2>3 DEF Holds
  <2>7. CASE uploader'.pc = "idle"
    BY <2>1, <2>2, <2>6, <2>7 DEF CalmInv
  <2>8. CASE uploader'.pc = "delete" /\ uploader'.slots = Rest
    <3> DEFINE q == Rest
    <3>1. /\ uploader'.slots = q /\ uploader'.pc = "delete" /\ Reload' = table
          /\ NewestIn(table, q) /\ \A i \in 1 .. Len(q) : data[q[i]] \notin owed
      BY <2>2, <2>3, <2>8
    <3> HIDE DEF q
    <3>2. NewestIn(Reload', uploader'.slots)
      BY <3>1
    <3> QED
      BY <1>1, <2>1, <2>2, <2>6, <3>1, <3>2 DEF CalmInv
  <2> QED
    BY <2>4, <2>7, <2>8
<1>10. CASE ChangeIMEI
  BY <1>10 DEF ChangeIMEI
<1>11. CASE UNCHANGED uvars
  <2>1. UNCHANGED <<index, table, data, storer, uploader, foreign, owed>>
    BY <1>11 DEF uvars
  <2>2. Reload' = Reload
    BY <2>1, ReloadsSame
  <2>3. \A t : Holds(t)' <=> Holds(t')
    BY <2>1 DEF Holds
  <2> QED
    BY <1>1, <2>1, <2>2 DEF CalmInv, Holds
<1> QED
  BY <1>2, <1>3, <1>4, <1>5, <1>6, <1>7, <1>8, <1>9, <1>10, <1>11 DEF UNext

LEMMA UploadInit ==
    ASSUME UInit
    PROVE  UploadInv
<1>1. Reload = EmptyTable /\ Sound(EmptyTable)
  BY EmptyTableType, EmptyAccounted DEF UInit, Init, Reload, Sound
<1>2. /\ IdleStorer \in [pc : {"idle", "data", "mark"}, pkt : Contents, addr : Slots]
      /\ IdleUploader \in [pc : {"idle", "sending", "delete", "write"}, count : 0 .. SlotsMax,
                           slots : ShortSeqs, pkts : SUBSET Contents]
      /\ IdleStorer.pc = "idle" /\ IdleUploader.pc = "idle" /\ Distinct(IdleUploader.slots)
  BY RingSize DEF IdleStorer, IdleUploader, ShortSeqs, Distinct, SlotsMax, Contents, Slots
<1>3. TablesInv
  BY <1>1, <1>2 DEF UInit, Init, TablesInv, Apart, Storing, Deleting, Writing, NoData, Contents
<1>4. Plain(EmptyTable)
  BY EmptyNoGap DEF Plain, EmptyTable
<1>5. CalmInv
  BY <1>1, <1>2, <1>4 DEF UInit, Init, CalmInv, Storing, Deleting, Writing, Holds
<1> QED
  BY <1>3, <1>5 DEF UploadInv

LEMMA UploadStep ==
    ASSUME UploadInv, [UNext]_uvars
    PROVE  UploadInv'
<1>1. world' = world
  BY WorldStays
<1>2. "overlap" \notin world => TablesInv'
  BY TablesStep DEF UploadInv
<1>3. world = {} => CalmInv'
  BY CalmStep DEF UploadInv
<1> QED
  BY <1>1, <1>2, <1>3 DEF UploadInv

(* Store-and-forward, with a store and an upload by two threads: while only  *)
(* positions are stored and one thread works at a time, what is owed can be  *)
(* found by a scan, and no index is written that ReadFileTable rejects,      *)
(* unless stores overlap with uploads.                                       *)
THEOREM UploadKeepsStore == USpec => []StoreIsKept
<1>1. UploadInv => StoreIsKept
  <2>1. UploadInv => IndexIsAccepted
    <3> SUFFICES ASSUME UploadInv, "overlap" \notin world, index # NoIndex
                 PROVE  index.total <= MAX_FILE
      BY DEF IndexIsAccepted
    <3>1. index \in Tables
      BY DEF UploadInv, TablesInv
    <3> QED
      BY <3>1, TableFields
  <2>2. UploadInv => OwedIsStored
    BY DEF UploadInv, CalmInv, OwedIsStored, Quiet, Holds, Storing, Writing
  <2> QED
    BY <2>1, <2>2 DEF StoreIsKept
<1>2. UInit => UploadInv
  BY UploadInit
<1>3. UploadInv /\ [UNext]_uvars => UploadInv'
  BY UploadStep
<1> QED
  BY <1>1, <1>2, <1>3, PTL DEF USpec

-----------------------------------------------------------------------------
(* TypeOKU: the count stays in range even while stores overlap with uploads. *)

\* The slots the uploader has yet to delete.
Members(q) == {q[i] : i \in 1 .. Len(q)}
Pending == Members(Rest)

\* The count of t covers those of S that are valid in it, one or two of them.
Enough(t, S) ==
    /\ \A s \in S : t.valid[s] => t.total >= 1
    /\ \A r, s \in S : r # s /\ t.valid[r] /\ t.valid[s] => t.total >= 2

(* Whatever the two threads do to the table between each other's steps: it   *)
(* counts no more than one packet too many, none while a store is under way, *)
(* and at least what is yet to be deleted, so no deletion wraps the count.   *)
RaceInv ==
    /\ world \in Worlds
    /\ table \in TablesU /\ index \in TablesU \cup {NoIndex}
    /\ data \in [Slots -> Contents]
    /\ storer \in [pc : {"idle", "data", "mark"}, pkt : Contents, addr : Slots]
    /\ uploader \in [pc : {"idle", "sending", "delete", "write"}, count : 0 .. SlotsMax,
                     slots : ShortSeqs, pkts : SUBSET Contents]
    /\ foreign \subseteq Packets /\ owed \subseteq Packets
    /\ Storing => storer.pkt \in Packets
    /\ Distinct(uploader.slots)
    /\ uploader.pc \in {"delete", "write"} => uploader.slots # <<>>
    /\ Storing => table \in Tables
    /\ Enough(Reload, Pending)
    /\ Storing \/ Writing => Enough(table, Pending)

LEMMA TablesAreTablesU ==
    /\ Tables \subseteq TablesU
    /\ \A t \in TablesU : t.total \in Nat /\ (t.total <= MAX_FILE => t \in Tables)
<1>1. CountSlack \in {0, 1}
  BY DEF CountSlack
<1> QED
  BY <1>1, RingSize DEF Tables, TablesU

LEMMA EnoughOfFewer ==
    ASSUME NEW t, NEW S, NEW T, Enough(t, S), T \subseteq S
    PROVE  Enough(t, T)
BY DEF Enough

LEMMA EmptyIsEnough ==
    ASSUME NEW S, S \subseteq Slots
    PROVE  Enough(EmptyTable, S)
BY DEF Enough, EmptyTable

LEMMA RoomIsEnough ==
    ASSUME NEW t \in Tables, NEW S, S \subseteq Slots, Enough(t, S)
    PROVE  Enough(MakeRoom(t), S)
<1> DEFINE u == MakeRoom(t)
<1>1. CASE t.total < MAX_FILE
  <2>1. u = t
    BY <1>1, TableFields DEF MakeRoom
  <2> QED
    BY <2>1
<1>2. CASE t.total = MAX_FILE
  <2>1. /\ u.total = MAX_FILE - 1
        /\ \A s \in Slots : u.valid[s] <=> t.valid[s] /\ s # t.head
    BY <1>2, TableFields DEF MakeRoom, DropOldest, Tables
  <2> HIDE DEF u
  <2>2. \A s \in S : u.valid[s] => u.total >= 1
    BY <2>1, RingSize
  <2>3. ASSUME NEW r \in S, NEW s \in S, r # s, u.valid[r], u.valid[s]
        PROVE  u.total >= 2
    <3>1. r # t.head /\ s # t.head /\ r \in Slots /\ s \in Slots /\ t.head \in Slots
      BY <2>1, <2>3, TableFields
    <3>2. MAX_FILE > 2
      BY <2>3, <3>1, RingSize DEF Slots
    <3> QED
      BY <2>1, <3>2, RingSize
  <2> QED
    BY <2>2, <2>3 DEF Enough, u
<1> QED
  BY <1>1, <1>2, TableFields

LEMMA AddIsEnough ==
    ASSUME NEW t \in Tables, NEW S, S \subseteq Slots, Enough(t, S), NEW ty \in Types
    PROVE  Enough(AddAtTail(t, ty), S)
<1> DEFINE u == AddAtTail(t, ty)
<1>1. /\ u.total = t.total + 1 /\ t.total \in Nat
      /\ \A s \in Slots : u.valid[s] <=> t.valid[s] \/ s = t.tail
  BY TableFields DEF AddAtTail, Tables
<1> HIDE DEF u
<1>2. \A s \in S : u.valid[s] => u.total >= 1
  BY <1>1
<1>3. ASSUME NEW r \in S, NEW s \in S, r # s, u.valid[r], u.valid[s]
      PROVE  u.total >= 2
  <2>1. t.valid[r] \/ t.valid[s]
    BY <1>1, <1>3
  <2> QED
    BY <1>1, <2>1 DEF Enough
<1> QED
  BY <1>2, <1>3 DEF Enough, u

LEMMA AddTypeU ==
    ASSUME NEW t \in Tables, NEW ty \in Types,
           "overlap" \notin world => t.total < MAX_FILE
    PROVE  AddAtTail(t, ty) \in TablesU
<1>1. /\ Succ(t.tail) \in Slots
      /\ t.total + 1 \in 0 .. MAX_FILE + CountSlack
  BY TableFields DEF Succ, Slots, CountSlack
<1> QED
  BY <1>1 DEF AddAtTail, Tables, TablesU, Types

LEMMA MembersAre ==
    ASSUME NEW q \in ShortSeqs
    PROVE  /\ Members(q) \subseteq Slots
           /\ q # <<>> => /\ Head(q) \in Members(q)
                          /\ Members(Tail(q)) \subseteq Members(q)
           /\ q # <<>> /\ Distinct(q) =>
                 /\ Head(q) \notin Members(Tail(q))
                 /\ \A r, s \in Members(Tail(q)) : r = s
<1>1. Members(q) \subseteq Slots
  BY ShortLists DEF Members
<1>2. ASSUME q # <<>>
      PROVE  /\ Head(q) \in Members(q) /\ Members(Tail(q)) \subseteq Members(q)
             /\ \A r, s \in Members(Tail(q)) : r = s
  <2>1. /\ Head(q) = q[1] /\ Len(q) \in 1 .. 2 /\ Len(Tail(q)) = Len(q) - 1
        /\ \A i \in 1 .. Len(Tail(q)) : Tail(q)[i] = q[i + 1] /\ i + 1 \in 1 .. Len(q)
    BY <1>2, ShortLists
  <2>2. \A n \in 1 .. 2 : 1 \in 1 .. n /\ \A i \in 1 .. n - 1 : i = 1
    OBVIOUS
  <2>3. 1 \in 1 .. Len(q) /\ \A i \in 1 .. Len(Tail(q)) : i = 1
    BY <2>1, <2>2
  <2> QED
    BY <2>1, <2>3 DEF Members
<1>3. ASSUME q # <<>>, Distinct(q)
      PROVE  Head(q) \notin Members(Tail(q))
  BY <1>3, RestOfDistinct DEF Members
<1> QED
  BY <1>1, <1>2, <1>3

LEMMA DeleteIsEnough ==
    ASSUME NEW t \in Tables, NEW q \in ShortSeqs, q # <<>>, Distinct(q),
           Enough(t, Members(q)), t.valid[Head(q)]
    PROVE  /\ DeleteIn(t, Head(q)) \in Tables
           /\ Enough(DeleteIn(t, Head(q)), Members(Tail(q)))
<1> DEFINE s == Head(q)
           u == DeleteIn(t, s)
           S == Members(Tail(q))
<1>1. /\ s \in Members(q) /\ s \in Slots /\ s \notin S /\ S \subseteq Members(q)
      /\ S \subseteq Slots /\ \A r, v \in S : r = v
  BY MembersAre
<1>2. t.total > 0 /\ t.total \in Nat
  BY <1>1, TableFields DEF Enough
<1>3. /\ u \in Tables /\ u.total = t.total - 1
      /\ \A r \in Slots : u.valid[r] <=> t.valid[r] /\ r # s
  BY <1>1, <1>2, DeleteType, DeleteFields
<1> HIDE DEF u, S, s
<1>4. ASSUME NEW r \in S, u.valid[r] PROVE u.total >= 1
  <2>1. t.valid[r] /\ r # s /\ r \in Members(q)
    BY <1>1, <1>3, <1>4
  <2>2. t.total >= 2
    BY <1>1, <2>1 DEF Enough, s
  <2> QED
    BY <1>2, <1>3, <2>2
<1> QED
  BY <1>1, <1>3, <1>4 DEF Enough, u, S, s

(* A batch is of no more packets than the table counts, before and after a   *)
(* repair of the count.                                                      *)
LEMMA PickIsEnough ==
    ASSUME NEW t \in Tables, t.total > 0
    PROVE  /\ Picked(t, BatchSize(t)) \in ShortSeqs /\ Distinct(Picked(t, BatchSize(t)))
           /\ Enough(t, Members(Picked(t, BatchSize(t))))
           /\ Enough(RepairIn(t), Members(Picked(t, BatchSize(t))))
<1> DEFINE n == BatchSize(t)
           q == Picked(t, n)
           P == Members(q)
           u == RepairIn(t)
<1>1. n \in 0 .. 2 /\ n <= t.total /\ t.total \in Nat
  BY TableFields DEF BatchSize, SlotsMax
<1>2. /\ q \in ShortSeqs /\ Distinct(q)
      /\ P \subseteq Visible(t)
  BY <1>1, PickedIsFound DEF Members
<1>3. Len(q) <= n
  <2> DEFINE all == UsableIn(t)
             a   == NextOf(t, all)
             b   == NextOf(t, all \ {a})
  <2>1. q = IF n = 0 \/ all = {} THEN <<>>
            ELSE IF n = 1 \/ all = {a} THEN <<a>> ELSE <<a, b>>
    BY DEF Picked, UsableIn
  <2> HIDE DEF q, n, a, b, all
  <2>2. CASE n = 0 \/ all = {}
    BY <1>1, <2>1, <2>2
  <2>3. CASE n # 0 /\ all # {} /\ (n = 1 \/ all = {a})
    BY <1>1, <2>1, <2>3
  <2>4. CASE n # 0 /\ all # {} /\ n # 1 /\ all # {a}
    BY <1>1, <2>1, <2>4
  <2> QED
    BY <2>2, <2>3, <2>4
<1>4. ASSUME NEW r \in P, NEW s \in P, r # s PROVE n = 2
  <2>1. PICK i \in 1 .. Len(q) : r = q[i]
    BY DEF Members
  <2>2. PICK k \in 1 .. Len(q) : s = q[k]
    BY DEF Members
  <2>3. i # k /\ Len(q) \in 0 .. 2
    BY <1>2, <1>4, <2>1, <2>2, ShortLists
  <2> HIDE DEF q, n
  <2> QED
    BY <1>1, <1>3, <2>1, <2>2, <2>3
<1>5. Enough(t, P)
  BY <1>1, <1>4 DEF Enough
<1>6. u.total = Cardinality(Visible(t)) /\ IsFiniteSet(Visible(t))
      /\ Cardinality(Visible(t)) \in Nat
  BY SlotSets DEF RepairIn, Tables, Visible
<1>7. ASSUME NEW s \in P PROVE u.total >= 1
  <2>1. Visible(t) # {}
    BY <1>2
  <2> HIDE DEF u
  <2> QED
    BY <1>6, <2>1, FS_EmptySet
<1>8. ASSUME NEW r \in P, NEW s \in P, r # s PROVE u.total >= 2
  <2>1. {r, s} \subseteq Visible(t) /\ {r, s} \subseteq Slots
    BY <1>2 DEF Visible
  <2>2. Cardinality({r, s}) = 2 /\ Cardinality({r, s}) <= Cardinality(Visible(t))
    <3>1. IsFiniteSet({s}) /\ Cardinality({s}) = 1
      BY FS_Singleton
    <3>2. Cardinality({s} \cup {r}) = 2
      BY <1>8, <3>1, FS_AddElement
    <3>3. {s} \cup {r} = {r, s}
      OBVIOUS
    <3> QED
      BY <1>6, <2>1, <3>2, <3>3, FS_Subset
  <2> HIDE DEF u
  <2> QED
    BY <1>6, <2>2
<1>9. Enough(u, P)
  BY <1>7, <1>8 DEF Enough
<1> QED
  BY <1>2, <1>5, <1>9

LEMMA ReloadIsEnough ==
    ASSUME NEW t \in TablesU, NEW S, S \subseteq Slots, Enough(t, S), index' = t
    PROVE  Enough(Reload', S)
<1>1. Reload' = t \/ Reload' = EmptyTable
  BY DEF Reload
<1> QED
  BY <1>1, EmptyIsEnough

LEMMA ReloadInTables ==
    ASSUME index \in TablesU \cup {NoIndex}
    PROVE  Reload \in Tables
<1>1. CASE index = NoIndex \/ index.total > MAX_FILE
  BY <1>1, EmptyTableType DEF Reload
<1>2. CASE index # NoIndex /\ ~ (index.total > MAX_FILE)
  <2>1. index \in TablesU /\ index.total <= MAX_FILE
    BY <1>2, TablesAreTablesU, RingSize
  <2> QED
    BY <1>2, <2>1, TablesAreTablesU DEF Reload
<1> QED
  BY <1>1, <1>2

LEMMA RaceStep ==
    ASSUME RaceInv, "overlap" \notin world => TablesInv, [UNext]_uvars
    PROVE  RaceInv'
<1> USE DEF RaceInv
<1>0. /\ Reload \in Tables /\ Tables \subseteq TablesU /\ world' = world
      /\ uploader.slots \in ShortSeqs /\ Rest \in ShortSeqs /\ Pending \subseteq Slots
      /\ \A t : t \in TablesU' <=> t \in TablesU
  <2>1. Rest \in ShortSeqs
    BY ShortLists DEF Rest, Writing
  <2>2. world' = world
    BY WorldStays
  <2>3. TablesU' = TablesU
    BY <2>2 DEF TablesU, CountSlack
  <2> QED
    BY <2>1, <2>2, <2>3, MembersAre, ReloadInTables, TablesAreTablesU DEF Pending
<1>1. ASSUME NEW p \in Packets, StoreLoad(p) PROVE RaceInv'
  <2> DEFINE r == MakeRoom(Reload)
  <2>1. /\ UNCHANGED <<index, data, uploader>> /\ table' = r
        /\ storer' = [pc |-> "data", pkt |-> p, addr |-> r.tail]
        /\ owed' \subseteq owed /\ foreign' \subseteq foreign
    BY <1>1 DEF StoreLoad
  <2>2. r \in Tables /\ Enough(r, Pending)
    BY <1>0, StoreType, RoomIsEnough DEF Types
  <2>3. r.tail \in Slots
    BY <2>2, TableFields
  <2>4. Reload' = Reload /\ Pending' = Pending
    BY <2>1, ReloadsSame DEF Pending, Rest, Writing
  <2> HIDE DEF r
  <2> QED
    BY <1>0, <2>1, <2>2, <2>3, <2>4 DEF Contents
<1>2. CASE StoreData
  <2>1. /\ storer.pc = "data" /\ storer' = [storer EXCEPT !.pc = "mark"]
        /\ UNCHANGED <<index, table, uploader, foreign, owed>>
        /\ data' = [data EXCEPT ![storer.addr] = storer.pkt]
    BY <1>2 DEF StoreData
  <2>2. Reload' = Reload /\ Pending' = Pending
    BY <2>1, ReloadsSame DEF Pending, Rest, Writing
  <2>3. data' \in [Slots -> Contents]
    BY <2>1
  <2>4. /\ storer' \in [pc : {"idle", "data", "mark"}, pkt : Contents, addr : Slots]
        /\ storer'.pkt = storer.pkt /\ Storing
    BY <2>1 DEF Storing
  <2> QED
    BY <1>0, <2>1, <2>2, <2>3, <2>4 DEF Writing
<1>3. CASE StoreMark
  <2> DEFINE u == AddAtTail(table, TypeOf(storer.pkt))
  <2>1. /\ UNCHANGED <<data, uploader, foreign>> /\ Storing
        /\ table' = u /\ index' = u /\ storer' = IdleStorer
        /\ owed' = owed \cup {storer.pkt}
    BY <1>3 DEF StoreMark, Storing
  <2>2. u \in TablesU /\ Enough(u, Pending)
    <3>1. table \in Tables /\ Enough(table, Pending) /\ TypeOf(storer.pkt) \in Types
      BY <2>1, TypeOfType
    <3>2. "overlap" \notin world => table.total < MAX_FILE
      BY <2>1 DEF TablesInv
    <3> QED
      BY <1>0, <3>1, <3>2, AddTypeU, AddIsEnough
  <2>3. IdleStorer \in [pc : {"idle", "data", "mark"}, pkt : Contents, addr : Slots]
        /\ IdleStorer.pc = "idle"
    BY RingSize DEF IdleStorer, Contents, Slots
  <2>4. Pending' = Pending
    BY <2>1 DEF Pending, Rest, Writing
  <2> HIDE DEF u
  <2>5. Enough(Reload', Pending)
    BY <1>0, <2>1, <2>2, ReloadIsEnough
  <2> QED
    BY <1>0, <2>1, <2>2, <2>3, <2>4, <2>5 DEF Storing
<1>4. CASE MakeBatch
  <2> DEFINE t == Reload
             q == Picked(t, BatchSize(t))
  <2>1. /\ t.total > 0 /\ UNCHANGED <<data, storer, foreign, owed>>
        /\ \/ index' = index /\ table' = t
           \/ index' = RepairIn(t) /\ table' = RepairIn(t)
        /\ uploader' = [pc |-> "sending", count |-> BatchSize(t), slots |-> q,
                        pkts |-> {data[q[i]] : i \in DOMAIN q}]
    BY <1>4 DEF MakeBatch
  <2>2. /\ q \in ShortSeqs /\ Distinct(q)
        /\ Enough(t, Members(q)) /\ Enough(RepairIn(t), Members(q))
    BY <1>0, <2>1, PickIsEnough
  <2>3. Members(q) \subseteq Slots /\ {data[q[i]] : i \in DOMAIN q} \subseteq Contents
    BY <2>2, MembersAre, ShortLists
  <2>4. BatchSize(t) \in 0 .. SlotsMax
    BY <1>0, TableFields DEF BatchSize, SlotsMax
  <2> HIDE DEF q
  <2>5. Pending' = Members(q) /\ ~ Writing'
    BY <2>1 DEF Pending, Rest, Writing
  <2>6. table' \in Tables /\ Enough(table', Members(q))
    BY <1>0, <2>1, <2>2, RepairType
  <2>7. Enough(Reload', Members(q)) /\ index' \in TablesU \cup {NoIndex}
    <3>1. CASE index' = index
      BY <2>2, <3>1, ReloadsSame
    <3>2. CASE index' = table'
      BY <1>0, <2>3, <2>6, <3>2, ReloadIsEnough
    <3> QED
      BY <2>1, <3>1, <3>2
  <2> HIDE DEF t
  <2> QED
    BY <1>0, <2>1, <2>2, <2>3, <2>4, <2>5, <2>6, <2>7 DEF Storing
<1>10. /\ IdleUploader \in [pc : {"idle", "sending", "delete", "write"},
                            count : 0 .. SlotsMax, slots : ShortSeqs,
                            pkts : SUBSET Contents]
       /\ IdleUploader.pc = "idle" /\ Distinct(IdleUploader.slots)
       /\ Members(IdleUploader.slots) = {}
  BY DEF IdleUploader, ShortSeqs, Distinct, SlotsMax, Members
<1>11. \A t : Enough(t, {})
  BY DEF Enough
<1>12. ASSUME uploader' = IdleUploader PROVE Pending' = {} /\ ~ Writing'
  BY <1>10, <1>12 DEF Pending, Rest, Writing
<1>5. CASE SendFails
  <2>1. uploader' = IdleUploader /\ UNCHANGED <<table, index, data, storer, foreign, owed>>
    BY <1>5 DEF SendFails
  <2> QED
    BY <1>0, <1>10, <1>11, <1>12, <2>1 DEF Storing
<1>6. CASE SendSucceeds
  <2>1. /\ uploader.pc = "sending" /\ UNCHANGED <<table, index, data, storer, foreign>>
        /\ owed' \subseteq owed
    BY <1>6 DEF SendSucceeds
  <2>2. CASE uploader.slots = <<>>
    <3>1. uploader' = IdleUploader
      BY <1>6, <2>2 DEF SendSucceeds
    <3> QED
      BY <1>0, <1>10, <1>11, <1>12, <2>1, <3>1 DEF Storing
  <2>3. CASE uploader.slots # <<>>
    <3>1. uploader' = [uploader EXCEPT !.pc = "delete"]
      BY <1>6, <2>3 DEF SendSucceeds
    <3>2. /\ uploader'.pc = "delete" /\ uploader'.slots = uploader.slots
          /\ uploader' \in [pc : {"idle", "sending", "delete", "write"},
                            count : 0 .. SlotsMax, slots : ShortSeqs,
                            pkts : SUBSET Contents]
      BY <3>1
    <3>3. Pending' = Pending /\ ~ Writing' /\ Reload' = Reload
      BY <2>1, <3>2, ReloadsSame DEF Pending, Rest, Writing
    <3> QED
      BY <1>0, <2>1, <2>3, <3>2, <3>3 DEF Storing
  <2> QED
    BY <2>2, <2>3
<1>7. CASE DeleteLoad
  <2> DEFINE t == Reload
             q == uploader.slots
             s == Head(q)
  <2>1. /\ uploader.pc = "delete" /\ UNCHANGED <<index, data, storer, foreign, owed>>
        /\ q # <<>> /\ q \in ShortSeqs /\ Distinct(q) /\ Tail(q) \in ShortSeqs
        /\ Distinct(Tail(q)) /\ Pending = Members(q)
    BY <1>0, <1>7, ShortLists, RestOfDistinct DEF DeleteLoad, Pending, Rest, Writing
  <2>2. /\ Members(Tail(q)) \subseteq Members(q) /\ Reload' = t
        /\ Enough(t, Members(q)) /\ Enough(t, Members(Tail(q)))
    BY <2>1, MembersAre, EnoughOfFewer, ReloadsSame
  <2>3. CASE t.valid[s]
    <3>1. table' = DeleteIn(t, s) /\ uploader' = [uploader EXCEPT !.pc = "write"]
      BY <1>7, <2>3 DEF DeleteLoad
    <3>2. table' \in Tables /\ Enough(table', Members(Tail(q)))
      BY <1>0, <2>1, <2>2, <2>3, <3>1, DeleteIsEnough
    <3>3. /\ uploader'.pc = "write" /\ uploader'.slots = q
          /\ uploader' \in [pc : {"idle", "sending", "delete", "write"},
                            count : 0 .. SlotsMax, slots : ShortSeqs,
                            pkts : SUBSET Contents]
      BY <3>1
    <3>4. Pending' = Members(Tail(q))
      BY <3>3 DEF Pending, Rest, Writing
    <3> QED
      BY <1>0, <2>1, <2>2, <3>2, <3>3, <3>4 DEF Storing
  <2>4. CASE ~ t.valid[s]
    <3>1. table' = t /\ table' \in Tables
      BY <1>0, <1>7, <2>4 DEF DeleteLoad
    <3>2. CASE Tail(q) = <<>>
      <4>1. uploader' = IdleUploader
        BY <1>7, <2>4, <3>2 DEF DeleteLoad
      <4> QED
        BY <1>0, <1>10, <1>11, <1>12, <2>1, <3>1, <4>1 DEF Storing
    <3>3. CASE Tail(q) # <<>>
      <4>1. uploader' = [uploader EXCEPT !.slots = Tail(q)]
        BY <1>7, <2>4, <3>3 DEF DeleteLoad
      <4>2. /\ uploader'.pc = "delete" /\ uploader'.slots = Tail(q)
            /\ uploader' \in [pc : {"idle", "sending", "delete", "write"},
                              count : 0 .. SlotsMax, slots : ShortSeqs,
                              pkts : SUBSET Contents]
        BY <2>1, <4>1
      <4>3. Pending' = Members(Tail(q)) /\ ~ Writing'
        BY <4>2 DEF Pending, Rest, Writing
      <4> QED
        BY <1>0, <2>1, <2>2, <3>1, <3>3, <4>2, <4>3 DEF Storing
    <3> QED
      BY <3>2, <3>3
  <2> QED
    BY <2>3, <2>4
<1>8. CASE DeleteWrite
  <2> DEFINE q == uploader.slots
  <2>1. /\ uploader.pc = "write" /\ Writing
        /\ UNCHANGED <<table, data, storer, foreign, owed>> /\ index' = table
        /\ q # <<>> /\ Tail(q) \in ShortSeqs /\ Distinct(Tail(q))
        /\ Pending = Members(Tail(q))
    BY <1>0, <1>8, ShortLists, RestOfDistinct DEF DeleteWrite, Pending, Rest, Writing
  <2>2. Enough(table, Pending) /\ Enough(Reload', Pending)
    BY <1>0, <2>1, ReloadIsEnough
  <2>3. CASE Tail(q) = <<>>
    <3>1. uploader' = IdleUploader
      BY <1>8, <2>3 DEF DeleteWrite
    <3> QED
      BY <1>0, <1>10, <1>11, <1>12, <2>1, <3>1 DEF Storing
  <2>4. CASE Tail(q) # <<>>
    <3>1. uploader' = [uploader EXCEPT !.pc = "delete", !.slots = Tail(q)]
      BY <1>8, <2>4 DEF DeleteWrite
    <3>2. /\ uploader'.pc = "delete" /\ uploader'.slots = Tail(q)
          /\ uploader' \in [pc : {"idle", "sending", "delete", "write"},
                            count : 0 .. SlotsMax, slots : ShortSeqs,
                            pkts : SUBSET Contents]
      BY <2>1, <3>1
    <3>3. Pending' = Pending /\ ~ Writing'
      BY <2>1, <3>2 DEF Pending, Rest, Writing
    <3> QED
      BY <1>0, <2>1, <2>2, <2>4, <3>2, <3>3 DEF Storing
  <2> QED
    BY <2>3, <2>4
<1>9. CASE ChangeIMEI \/ UNCHANGED uvars
  <2>1. UNCHANGED <<index, table, data, storer, uploader, owed>> /\ foreign' \subseteq Packets
    BY <1>9 DEF ChangeIMEI, uvars
  <2>2. Reload' = Reload /\ Pending' = Pending
    BY <2>1, ReloadsSame DEF Pending, Rest, Writing
  <2> QED
    BY <1>0, <2>1, <2>2 DEF Storing, Writing
<1> QED
  BY <1>1, <1>2, <1>3, <1>4, <1>5, <1>6, <1>7, <1>8, <1>9 DEF UNext

LEMMA RaceInit ==
    ASSUME UInit
    PROVE  RaceInv
<1>1. /\ Reload = EmptyTable /\ EmptyTable \in TablesU
      /\ \A t : Enough(t, {})
  BY EmptyTableType, TablesAreTablesU DEF UInit, Init, Reload, Enough
<1>2. /\ IdleStorer \in [pc : {"idle", "data", "mark"}, pkt : Contents, addr : Slots]
      /\ IdleUploader \in [pc : {"idle", "sending", "delete", "write"}, count : 0 .. SlotsMax,
                           slots : ShortSeqs, pkts : SUBSET Contents]
      /\ IdleStorer.pc = "idle" /\ IdleUploader.pc = "idle" /\ Distinct(IdleUploader.slots)
      /\ Members(IdleUploader.slots) = {}
  BY RingSize DEF IdleStorer, IdleUploader, ShortSeqs, Distinct, SlotsMax, Contents, Slots,
                  Members
<1>3. Pending = {} /\ ~ Storing /\ ~ Writing
  BY <1>2 DEF UInit, Pending, Rest, Writing, Storing
<1> QED
  BY <1>1, <1>2, <1>3 DEF UInit, Init, RaceInv, NoData, Contents

(* Both threads stay within the ring and the count stays in range: it never  *)
(* wraps below zero, and it overruns by one packet at most, even while the   *)
(* HTTP thread stores into the FTable the server thread deletes from.        *)
THEOREM UploadTypesHold == USpec => []TypeOKU
<1>1. RaceInv => TypeOKU
  <2> SUFFICES ASSUME RaceInv PROVE TypeOKU
    OBVIOUS
  <2>1. Len(uploader.slots) <= SlotsMax
    <3>1. Len(uploader.slots) \in 0 .. 2
      BY ShortLists DEF RaceInv
    <3>2. \A n \in 0 .. 2 : n <= SlotsMax
      BY DEF SlotsMax
    <3> QED
      BY <3>1, <3>2
  <2> QED
    BY <2>1 DEF RaceInv, TypeOKU, Contents
<1>2. UInit => RaceInv
  BY RaceInit
<1>3. (UploadInv /\ RaceInv) /\ [UNext]_uvars => RaceInv'
  BY RaceStep DEF UploadInv
<1>4. UInit => UploadInv
  BY UploadInit
<1>5. UploadInv /\ [UNext]_uvars => UploadInv'
  BY UploadStep
<1> QED
  BY <1>1, <1>2, <1>3, <1>4, <1>5, PTL DEF USpec

=============================================================================
