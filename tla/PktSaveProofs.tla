---------------------------- MODULE PktSaveProofs ----------------------------
(***************************************************************************)
(* What PktSave promises for every capacity and every set of packets.  The   *)
(* count covers what is owed wherever the power goes but while the count is   *)
(* rewritten; the history is a stack that refuses packets when it is full as  *)
(* long as the power stays.                                                  *)
(***************************************************************************)
EXTENDS PktSave, TLAPS

\* The steps at which the packet at hand is the one at the top of the stack.
AtTop(l) == pc = l \/ (pc \in {"open", "write"} /\ after = l)

CalmInv ==
    /\ TypeOK
    /\ pc = "save" => last < MAX_PACKET_COUNT /\ dataBuffer \in Packets
    /\ pc \notin {"open", "write"} => disk = last \/ (disk = NoCount /\ last = 0)
    /\ \A n \in 1 .. last : files[n] \in Packets
    /\ owed \subseteq {files[n] : n \in 1 .. last}
    /\ AtTop("send") \/ AtTop("delete") => last > 0 /\ dataBuffer = files[last]
    /\ AtTop("delete") => dataBuffer \notin owed
    /\ AtTop("clear") \/ pc = "sweep" => owed = {}

\* What holds with faults and power cuts as well.
TypeInv ==
    /\ TypeOK
    /\ pc = "save" => last < MAX_PACKET_COUNT /\ dataBuffer \in Packets
    /\ AtTop("send") => dataBuffer # Blank

(* Without file faults, wherever the power goes: a packet is in one file at  *)
(* most, and one that was delivered is in none but the file that             *)
(* DeleteLastPacket is about to delete, which BkCount.bin names as the last. *)
DeliveredInv ==
    /\ \A m, n \in Slots : files[m] = files[n] /\ files[m] \in Packets => m = n
    /\ pc = "save" => \A n \in Slots : files[n] # dataBuffer
    /\ \A n \in Slots : files[n] \in delivered => pc = "delete" /\ n = last
    /\ AtTop("send") => last > 0
    /\ AtTop("send") \/ (pc = "delete" /\ last > 0) => dataBuffer = files[last]
    /\ pc \in {"send", "delete"} /\ last > 0 => disk = last
    /\ pc \in {"open", "write"} /\ after = "delete" => last = 0

-----------------------------------------------------------------------------
(* The types, whatever fails and wherever the power goes.                    *)

LEMMA TypeInit == Init => TypeInv
BY CapacityAssumption, ValuesAssumption
DEF Slots, Faulty, Init, TypeInv, TypeOK, Steps, AtTop

LEMMA TypeStep ==
    ASSUME TypeInv, [Next]_vars
    PROVE  TypeInv'
<1> USE CapacityAssumption, ValuesAssumption DEF Slots, Faulty
<1> USE DEF TypeInv, TypeOK, Steps, AtTop
<1>1. ASSUME NEW p \in Packets, Save(p) \/ SaveRefused(p) PROVE TypeInv'
  BY <1>1 DEF Save, SaveRefused
<1>2. CASE SaveWritten \/ SaveFails
  BY <1>2 DEF SaveWritten, SaveFails, UpdateCount
<1>3. CASE OpenCount \/ WriteCount
  BY <1>3 DEF OpenCount, WriteCount
<1>4. CASE ReadLast
  BY <1>4 DEF ReadLast, UpdateCount, Readable, Loaded, CheckPacketCount
<1>5. CASE Invalid \/ SendSucceeds \/ SendFails
  BY <1>5 DEF Invalid, SendSucceeds, SendFails
<1>6. CASE DeleteLast
  BY <1>6 DEF DeleteLast, UpdateCount, Loaded, CheckPacketCount
<1>7. CASE ClearBegins \/ ClearOne \/ ClearEnds
  BY <1>7 DEF ClearBegins, ClearOne, ClearEnds, UpdateCount, Loaded,
     CheckPacketCount
<1>8. CASE SweepBegins \/ Sweep
  BY <1>8 DEF SweepBegins, Sweep, Swept
<1>9. CASE PowerCut
  BY <1>9 DEF PowerCut, Swept
<1>10. CASE UNCHANGED vars
  BY <1>10 DEF vars
<1> QED
  BY <1>1, <1>2, <1>3, <1>4, <1>5, <1>6, <1>7, <1>8, <1>9, <1>10 DEF Next

(* The variables keep their types, whatever fails and wherever the power     *)
(* goes: no file beyond BK_<MAX_PACKET_COUNT>.bin is written, no count is    *)
(* larger, and none goes below 0.                                            *)
THEOREM PktSaveTypeCorrect == Spec => []TypeOK
<1>1. TypeInv => TypeOK
  BY DEF TypeInv
<1> QED
  BY <1>1, TypeInit, TypeStep, PTL DEF Spec

-----------------------------------------------------------------------------
(* The invariant is inductive.                                               *)

LEMMA CalmInit == Init => CalmInv
BY CapacityAssumption, ValuesAssumption
DEF Init, CalmInv, TypeOK, Slots, AtTop, Steps

(* Without faults the count that is loaded is the one at hand.               *)
LEMMA CalmLoaded ==
    ASSUME Calm, TypeOK, disk = last \/ (disk = NoCount /\ last = 0),
           NEW n \in Loaded, CheckPacketCount(n)
    PROVE  n = last /\ disk' = last
BY ValuesAssumption DEF Calm, Faulty, TypeOK, Loaded, CheckPacketCount

LEMMA CalmStep ==
    ASSUME Calm, CalmInv, [Next]_vars
    PROVE  CalmInv'
<1> USE CapacityAssumption, ValuesAssumption DEF Slots, Faulty
<1>1. ASSUME NEW p \in Packets, Save(p) PROVE CalmInv'
  BY <1>1 DEF Save, Calm, CalmInv, TypeOK, AtTop, Steps
<1>2. CASE SaveWritten
  BY <1>2 DEF SaveWritten, UpdateCount, Calm, CalmInv, TypeOK, AtTop, Steps
<1>3. CASE SaveFails
  BY <1>3 DEF SaveFails, Calm
<1>4. ASSUME NEW p \in Packets, SaveRefused(p) PROVE CalmInv'
  BY <1>4 DEF SaveRefused, CalmInv, TypeOK, AtTop, Steps
<1>5. CASE OpenCount
  BY <1>5 DEF OpenCount, Calm, CalmInv, TypeOK, AtTop, Steps
<1>6. CASE WriteCount
  BY <1>6 DEF WriteCount, Calm, CalmInv, TypeOK, AtTop, Steps
<1>7. CASE ReadLast
  BY <1>7, CalmLoaded DEF ReadLast, UpdateCount, Readable, MustRead, Calm,
     CalmInv, TypeOK, AtTop, Steps
<1>8. CASE Invalid \/ SendSucceeds \/ SendFails
  BY <1>8 DEF Invalid, SendSucceeds, SendFails, CalmInv, TypeOK, AtTop, Steps
<1>9. CASE DeleteLast
  BY <1>9, CalmLoaded DEF DeleteLast, UpdateCount, Calm, CalmInv, TypeOK, AtTop,
     Steps
<1>10. CASE ClearBegins
  BY <1>10, CalmLoaded DEF ClearBegins, Calm, CalmInv, TypeOK, AtTop, Steps
<1>11. CASE ClearOne
  BY <1>11 DEF ClearOne, UpdateCount, CalmInv, TypeOK, AtTop, Steps
<1>12. CASE ClearEnds \/ SweepBegins
  BY <1>12 DEF ClearEnds, SweepBegins, CalmInv, TypeOK, AtTop, Steps
<1>13. CASE Sweep
  BY <1>13 DEF Sweep, Swept, Calm, CalmInv, TypeOK, AtTop, Steps
<1>14. CASE PowerCut
  BY <1>14 DEF PowerCut, Calm
<1>15. CASE UNCHANGED vars
  BY <1>15 DEF vars, CalmInv, TypeOK, AtTop
<1> QED
  BY <1>1, <1>2, <1>3, <1>4, <1>5, <1>6, <1>7, <1>8, <1>9, <1>10, <1>11, <1>12,
     <1>13, <1>14, <1>15 DEF Next

LEMMA WorldStays ==
    ASSUME [Next]_vars
    PROVE  world' = world
BY DEF Next, vars, Save, SaveWritten, SaveFails, SaveRefused, OpenCount,
   WriteCount, ReadLast, Invalid, SendSucceeds, SendFails, DeleteLast,
   ClearBegins, ClearOne, ClearEnds, SweepBegins, Sweep, PowerCut

LEMMA CalmAlways == Spec => [](Calm => CalmInv)
<1>1. (Calm => CalmInv) /\ [Next]_vars => (Calm => CalmInv)'
  BY CalmStep, WorldStays DEF Calm
<1> QED
  BY <1>1, CalmInit, PTL DEF Spec

-----------------------------------------------------------------------------
(* The count, with the power going anywhere but while it is rewritten.       *)

\* What is owed is in the first n files.
Covered(n) == owed \subseteq {files[k] : k \in 1 .. n}

CountedInv ==
    /\ TypeInv
    /\ pc = "save" => CountIsRead
    /\ pc \in {"open", "write"} => Covered(last)
    /\ pc \notin {"open", "write"} => Covered(IF disk = NoCount THEN 0 ELSE disk)
    /\ pc \in {"send", "delete", "clear"} => CountIsRead
    /\ AtTop("send") => last > 0 /\ dataBuffer = files[last]
    /\ AtTop("delete") => \A n \in 1 .. last : n = last => files[n] \notin owed
    /\ AtTop("clear") \/ pc = "sweep" => owed = {}

\* Neither faults nor cuts while the count is rewritten, nor saves before it is read.
Counting == world \cap {"faults", "unread", "open", "write"} = {}

LEMMA CountedStep ==
    ASSUME Counting, CountedInv, [Next]_vars
    PROVE  CountedInv'
<1> USE CapacityAssumption, ValuesAssumption DEF Slots, Faulty
<1> USE DEF Counting, CountedInv, Covered, CountIsRead
<1>t. TypeInv'
  BY TypeStep
<1>a. /\ TypeOK /\ TypeInv /\ TypeInv'
      /\ last \in Nat /\ (disk \in Nat \/ disk = NoCount)
  BY <1>t DEF TypeInv, TypeOK
<1>1. ASSUME NEW p \in Packets, Save(p) PROVE CountedInv'
  BY <1>a, <1>1 DEF Save, AtTop, TypeOK
<1>2. CASE SaveWritten
  <2>1. /\ owed \subseteq {files[k] : k \in 1 .. last}
        /\ \A k \in 1 .. last : files'[k] = files[k]
        /\ files'[last + 1] = dataBuffer /\ last' = last + 1
    BY <1>a, <1>2 DEF SaveWritten, TypeInv, TypeOK
  <2>2. owed' \subseteq {files'[k] : k \in 1 .. last'}
    BY <1>a, <1>2, <2>1 DEF SaveWritten
  <2> QED
    BY <1>a, <1>2, <2>2 DEF SaveWritten, UpdateCount, AtTop
<1>3. CASE SaveFails
  BY <1>3 DEF SaveFails
<1>4. ASSUME NEW p \in Packets, SaveRefused(p) PROVE CountedInv'
  BY <1>a, <1>4 DEF SaveRefused, AtTop
<1>5. CASE OpenCount
  BY <1>a, <1>5 DEF OpenCount, AtTop
<1>6. CASE WriteCount
  BY <1>a, <1>6 DEF WriteCount, AtTop, TypeInv, TypeOK
<1>7. CASE ReadLast
  <2>1. PICK n \in Loaded :
           /\ CheckPacketCount(n)
           /\ \E t \in Readable(n) :
                /\ \A u \in MustRead(n) : u <= t
                /\ last' = t
                /\ dataBuffer' = IF t = 0 THEN Blank ELSE files[t]
                /\ IF n = 0 THEN UNCHANGED <<pc, after>>
                   ELSE UpdateCount(IF t = 0 THEN "delete" ELSE "send")
    BY <1>7 DEF ReadLast
  <2>2. /\ n = IF disk = NoCount THEN 0 ELSE disk
        /\ disk' = n /\ n \in Nat
    BY <1>a, <2>1 DEF Loaded, CheckPacketCount
  <2>3. PICK t \in Readable(n) :
                /\ \A u \in MustRead(n) : u <= t
                /\ last' = t
                /\ dataBuffer' = IF t = 0 THEN Blank ELSE files[t]
                /\ IF n = 0 THEN UNCHANGED <<pc, after>>
                   ELSE UpdateCount(IF t = 0 THEN "delete" ELSE "send")
    BY <2>1
  <2>4. t \in 0 .. n /\ (t # 0 => files[t] # Blank)
    BY <2>2, <2>3 DEF Readable
  <2>5. pc = "idle" /\ UNCHANGED <<world, files, owed>> /\ owed \subseteq Packets
    BY <1>a, <1>7 DEF ReadLast, TypeOK
  <2>6. owed \subseteq {files[k] : k \in 1 .. t}
    <3> SUFFICES ASSUME NEW p \in owed PROVE p \in {files[k] : k \in 1 .. t}
      OBVIOUS
    <3>1. PICK k \in 1 .. n : p = files[k]
      BY <2>2, <2>5
    <3>2. k \in MustRead(n)
      BY <2>5, <3>1 DEF MustRead
    <3>3. k <= t
      BY <2>3, <3>2
    <3> QED
      BY <2>2, <2>4, <3>1, <3>3
  <2>7. CASE n = 0
    BY <1>a, <2>2, <2>3, <2>4, <2>5, <2>6, <2>7 DEF AtTop
  <2>8. CASE n # 0
    <3>1. disk' = n /\ disk' # NoCount
      BY <2>2, <1>a
    <3>2. CASE t = 0
      BY <1>a, <2>2, <2>3, <2>5, <2>6, <2>8, <3>1, <3>2 DEF AtTop, UpdateCount
    <3>3. CASE t # 0
      BY <1>a, <2>2, <2>3, <2>4, <2>5, <2>6, <2>8, <3>1, <3>3 DEF AtTop, UpdateCount
    <3> QED
      BY <3>2, <3>3
  <2> QED
    BY <2>7, <2>8
<1>8. CASE Invalid
  BY <1>a, <1>8 DEF Invalid, AtTop, TypeOK
<1>9. CASE SendSucceeds \/ SendFails
  BY <1>a, <1>9 DEF SendSucceeds, SendFails, AtTop
<1>10. CASE DeleteLast
  <2>1. PICK n \in Loaded :
          /\ CheckPacketCount(n)
          /\ \/ /\ n > 0
                /\ files' = [files EXCEPT ![n] = Blank]
                /\ last' = n - 1
                /\ UpdateCount("idle")
             \/ /\ n = 0
                /\ last' = n
                /\ pc' = "idle"
                /\ UNCHANGED <<files, after>>
    BY <1>10 DEF DeleteLast
  <2>2. n = last /\ disk' = n /\ disk' # NoCount /\ owed' = owed /\ pc = "delete"
    BY <1>a, <1>10, <2>1 DEF Loaded, CheckPacketCount, DeleteLast
  <2>3. owed \subseteq {files[k] : k \in 1 .. n}
    BY <1>a, <2>2
  <2>4. CASE n > 0
    <3>1. files[n] \notin owed
      BY <1>a, <2>2, <2>4 DEF AtTop
    <3>2. owed \subseteq {files'[k] : k \in 1 .. n - 1}
      <4> SUFFICES ASSUME NEW p \in owed PROVE p \in {files'[k] : k \in 1 .. n - 1}
        OBVIOUS
      <4>1. PICK k \in 1 .. n : p = files[k]
        BY <2>3
      <4>2. k \in 1 .. n - 1
        BY <1>a, <2>2, <3>1, <4>1
      <4>3. files'[k] = files[k]
        BY <1>a, <2>1, <2>2, <2>4, <4>2 DEF TypeOK
      <4> QED
        BY <4>1, <4>2, <4>3
    <3> QED
      BY <1>a, <2>1, <2>2, <2>4, <3>2 DEF UpdateCount, AtTop
  <2>5. CASE n = 0
    BY <1>a, <2>1, <2>2, <2>3, <2>5 DEF AtTop
  <2> QED
    BY <1>a, <2>2, <2>4, <2>5
<1>11. CASE ClearBegins
  BY <1>a, <1>11 DEF ClearBegins, AtTop, Loaded, CheckPacketCount
<1>12. CASE ClearOne
  BY <1>a, <1>12 DEF ClearOne, UpdateCount, AtTop
<1>13. CASE ClearEnds \/ SweepBegins \/ Sweep
  BY <1>a, <1>13 DEF ClearEnds, SweepBegins, Sweep, AtTop
<1>14. CASE PowerCut
  BY <1>a, <1>14 DEF PowerCut, AtTop, Steps
<1>15. CASE UNCHANGED vars
  BY <1>a, <1>15 DEF vars, AtTop
<1> QED
  BY <1>1, <1>2, <1>3, <1>4, <1>5, <1>6, <1>7, <1>8, <1>9, <1>10, <1>11, <1>12,
     <1>13, <1>14, <1>15 DEF Next

(* ProcessHistoryPacket will come to every packet that was saved and neither *)
(* delivered nor cleared: BkCount.bin covers it whenever the server thread   *)
(* is not at work on the history, wherever the power went before, but for    *)
(* cuts while that file is rewritten and saves before it was read.           *)
THEOREM CountCoversOwed == Spec => []OwedIsCounted
<1> DEFINE Inv == TypeInv /\ (Counting => CountedInv)
<1>1. Init => Inv
  BY TypeInit, ValuesAssumption
  DEF Init, CountedInv, Covered, CountIsRead, AtTop
<1>2. Inv /\ [Next]_vars => Inv'
  BY TypeStep, CountedStep, WorldStays DEF Counting
<1>3. Inv => OwedIsCounted
  <2> SUFFICES ASSUME CountedInv, pc = "idle", owed # {}
               PROVE  disk # NoCount /\ owed \subseteq {files[n] : n \in 1 .. disk}
    BY DEF OwedIsCounted, CountCovers, Counting
  <2> QED
    BY DEF CountedInv, Covered
<1> QED
  BY <1>1, <1>2, <1>3, PTL DEF Spec

-----------------------------------------------------------------------------
(* The history implements the stack.                                         *)

LEMMA PushesOnTop ==
    ASSUME Calm, world' = world, CalmInv, NEW p \in Packets, last < MAX_PACKET_COUNT,
           files' = [files EXCEPT ![last + 1] = p], last' = last + 1
    PROVE  Stack!Push(p)
<1>1. last \in Nat /\ files \in [Slots -> Packets \cup {Blank, Torn}]
  BY CapacityAssumption DEF CalmInv, TypeOK
<1>2. Stacked \in Seq(Packets) /\ Len(Stacked) = last
  BY <1>1 DEF Stacked, CalmInv
<1>3. Stacked' = Append(Stacked, p)
  <2>1. Stacked' = [n \in 1 .. last + 1 |-> files'[n]]
    BY DEF Stacked, Calm
  <2>2. \A n \in 1 .. last : files'[n] = Stacked[n]
    BY <1>1, CapacityAssumption DEF Stacked, Slots
  <2>3. files'[last + 1] = p
    BY <1>1, CapacityAssumption DEF Slots, Faulty
  <2>4. \A n \in 1 .. last + 1 : files'[n] = Append(Stacked, p)[n]
    <3> HIDE DEF Stacked
    <3> QED
      BY <1>1, <1>2, <2>2, <2>3
  <2>5. /\ Stacked' \in Seq(Packets) /\ Len(Stacked') = last + 1
        /\ Append(Stacked, p) \in Seq(Packets)
        /\ Len(Append(Stacked, p)) = last + 1
    <3>1. \A n \in 1 .. last + 1 : files'[n] \in Packets
      BY <1>1, <1>2, <2>2, <2>3 DEF Stacked, CalmInv
    <3>2. Stacked' \in Seq(Packets) /\ Len(Stacked') = last + 1
      BY <1>1, <2>1, <3>1
    <3> HIDE DEF Stacked
    <3> QED
      BY <1>1, <1>2, <3>2
  <2>6. \A n \in 1 .. last + 1 : Stacked'[n] = Append(Stacked, p)[n]
    BY <1>1, <2>1, <2>4
  <2>7. \A s, t \in Seq(Packets) :
           Len(s) = Len(t) /\ (\A n \in 1 .. Len(s) : s[n] = t[n]) => s = t
    OBVIOUS
  <2> QED
    BY <2>5, <2>6, <2>7, Zenon
<1> QED
  BY <1>2, <1>3 DEF Stack!Push

LEMMA PopsTheTop ==
    ASSUME Calm, world' = world, CalmInv, last > 0,
           files' = [files EXCEPT ![last] = Blank], last' = last - 1
    PROVE  Stack!Pop
<1>1. last \in Nat /\ files \in [Slots -> Packets \cup {Blank, Torn}]
  BY CapacityAssumption DEF CalmInv, TypeOK
<1>2. Stacked \in Seq(Packets) /\ Len(Stacked) = last
  BY <1>1 DEF Stacked, CalmInv
<1>3. Stacked' = SubSeq(Stacked, 1, last - 1)
  <2>1. Stacked' = [n \in 1 .. last - 1 |-> files'[n]]
    BY DEF Stacked, Calm
  <2>2. \A n \in 1 .. last - 1 : files'[n] = Stacked[n]
    BY <1>1, CapacityAssumption DEF Stacked, Slots, CalmInv, TypeOK
  <2> HIDE DEF Stacked
  <2> QED
    BY <1>1, <1>2, <2>1, <2>2
<1>4. Stacked # <<>>
  BY <1>1, <1>2
<1> QED
  BY <1>2, <1>3, <1>4 DEF Stack!Pop

LEMMA LeavesTheStack ==
    ASSUME world' = world, last' = last, \A n \in 1 .. last : files'[n] = files[n]
    PROVE  UNCHANGED Stacked
BY DEF Stacked, Calm

LEMMA StackStep ==
    ASSUME Calm, CalmInv, [Next]_vars
    PROVE  [Stack!Next]_Stacked
<1> USE CapacityAssumption, ValuesAssumption DEF Slots, Faulty
<1>1. ASSUME NEW p \in Packets, Save(p) PROVE UNCHANGED Stacked
  BY <1>1, LeavesTheStack DEF Save, Calm, CalmInv, TypeOK
<1>2. CASE SaveWritten
  BY <1>2, PushesOnTop DEF SaveWritten, CalmInv, Stack!Next
<1>3. ASSUME NEW p \in Packets, SaveRefused(p) PROVE UNCHANGED Stacked
  BY <1>3, LeavesTheStack DEF SaveRefused
<1>4. CASE \/ SaveFails \/ OpenCount \/ WriteCount \/ Invalid \/ SendSucceeds
           \/ SendFails \/ ClearEnds \/ SweepBegins \/ UNCHANGED vars
  BY <1>4, LeavesTheStack DEF SaveFails, OpenCount, WriteCount, Invalid,
     SendSucceeds, SendFails, ClearEnds, SweepBegins, vars
<1>5. CASE ReadLast
  <2>1. last' = last
    BY <1>5, CalmLoaded DEF ReadLast, Readable, MustRead, Calm, CalmInv, TypeOK
  <2> QED
    BY <1>5, <2>1, LeavesTheStack DEF ReadLast
<1>6. CASE DeleteLast
  <2> QED
    BY <1>6, CalmLoaded, PopsTheTop, LeavesTheStack
    DEF DeleteLast, Calm, CalmInv, AtTop, Stack!Next
<1>7. CASE ClearBegins
  BY <1>7, CalmLoaded, LeavesTheStack DEF ClearBegins, CalmInv
<1>8. CASE ClearOne
  BY <1>8, PopsTheTop DEF ClearOne, CalmInv, TypeOK, Stack!Next
<1>9. CASE Sweep
  BY <1>9 DEF Sweep, Stacked, Stack!Next, Stack!Wipe
<1>10. CASE PowerCut
  BY <1>10 DEF PowerCut, Calm
<1> QED
  BY <1>1, <1>2, <1>3, <1>4, <1>5, <1>6, <1>7, <1>8, <1>9, <1>10 DEF Next

(* SavePacket pushes, DeleteLastPacket and DeleteAllPackets pop,             *)
(* ClearHistoryStorage wipes, and nothing else changes what is stacked.      *)
THEOREM ImplementsStack == Spec => StackSpec
<1>1. Init => Stack!Init
  BY DEF Init, Stack!Init, Stacked
<1>2. (Calm => CalmInv) /\ [Next]_vars => [Stack!Next]_Stacked
  <2>1. CASE Calm
    BY <2>1, StackStep
  <2>2. ASSUME ~ Calm, [Next]_vars PROVE UNCHANGED Stacked
    BY <2>2, WorldStays DEF Calm, Stacked
  <2> QED
    BY <2>1, <2>2
<1> QED
  BY <1>1, <1>2, CalmAlways, PTL DEF Spec, StackSpec, Stack!Spec

-----------------------------------------------------------------------------
LEMMA DeliveredStep ==
    ASSUME ~ Faulty, TypeInv, DeliveredInv, [Next]_vars
    PROVE  DeliveredInv'
<1> USE CapacityAssumption, ValuesAssumption DEF Slots
<1> USE DEF DeliveredInv, TypeInv, TypeOK, AtTop, Steps
<1>1. ASSUME NEW p \in Packets, Save(p) PROVE DeliveredInv'
  BY <1>1 DEF Save
<1>2. CASE SaveWritten
  BY <1>2 DEF SaveWritten, UpdateCount
<1>3. ASSUME NEW p \in Packets, SaveRefused(p) PROVE DeliveredInv'
  BY <1>3 DEF SaveRefused
<1>4. CASE SaveFails \/ OpenCount \/ WriteCount
  BY <1>4 DEF SaveFails, OpenCount, WriteCount
<1>5. CASE ReadLast
  BY <1>5 DEF ReadLast, UpdateCount, Readable, Loaded, CheckPacketCount
<1>6. CASE Invalid \/ SendSucceeds \/ SendFails
  BY <1>6 DEF Invalid, SendSucceeds, SendFails
<1>7. CASE DeleteLast
  BY <1>7 DEF DeleteLast, UpdateCount, Loaded, CheckPacketCount
<1>8. CASE ClearBegins \/ ClearOne \/ ClearEnds
  BY <1>8 DEF ClearBegins, ClearOne, ClearEnds, UpdateCount
<1>9. CASE SweepBegins \/ Sweep
  BY <1>9 DEF SweepBegins, Sweep, Swept
<1>10. CASE PowerCut
  BY <1>10 DEF PowerCut, Swept
<1>11. CASE UNCHANGED vars
  BY <1>11 DEF vars
<1> QED
  BY <1>1, <1>2, <1>3, <1>4, <1>5, <1>6, <1>7, <1>8, <1>9, <1>10, <1>11 DEF Next

(* Unless file operations fail, a packet that ProcessHistoryPacket has sent   *)
(* is not sent again, although its file and the count are written one after  *)
(* the other and the power may go between any two of these steps, but for    *)
(* the one between the delivery and the deletion.                            *)
THEOREM NoSecondDelivery == Spec => DeliveredOnce
<1> DEFINE Inv == TypeInv /\ (~ Faulty => DeliveredInv)
<1>1. Init => Inv
  BY CapacityAssumption, ValuesAssumption, TypeInit
  DEF Init, DeliveredInv, AtTop, Slots
<1>2. Inv /\ [Next]_vars => Inv'
  BY TypeStep, DeliveredStep, WorldStays DEF Faulty
<1>3. Inv /\ [Next]_vars => [~ Faulty /\ SendSucceeds => dataBuffer \notin delivered]_vars
  <2> SUFFICES ASSUME TypeInv, DeliveredInv, SendSucceeds
               PROVE  dataBuffer \notin delivered
    OBVIOUS
  <2>1. pc = "send" /\ last \in Slots /\ dataBuffer = files[last]
    BY CapacityAssumption DEF SendSucceeds, DeliveredInv, AtTop, TypeInv, TypeOK, Slots
  <2> QED
    BY <2>1 DEF DeliveredInv
<1> QED
  BY <1>1, <1>2, <1>3, PTL DEF Spec, DeliveredOnce

=============================================================================
