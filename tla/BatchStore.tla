----------------------------- MODULE BatchStore -----------------------------
(***************************************************************************)
(* The flash store of packets that could not be delivered (custom/Batch.c): *)
(* a ring of MAX_FILE fixed-size slots in a data file, and an index file    *)
(* holding the table FTable (count, head, tail, and per slot a valid flag   *)
(* and the packet's type).  StoreFileToFlash appends at the tail and, when  *)
(* the count says full, drops the slot at the head; MakeBatchPacket finds   *)
(* packets by scanning backwards from the tail (LIFO, by type) and          *)
(* GetBatchData deletes the slots it has uploaded.                          *)
(*                                                                         *)
(* Each call is one action: in this module the store has a single caller.   *)
(* What two threads do to each other is the subject of BatchUpload.         *)
(***************************************************************************)
EXTENDS Integers, FiniteSets

CONSTANTS
    MAX_FILE,   \* slots in the ring
    NormalPkts, \* packets stored with type NORMAL
    AlertPkts,  \* packets stored with type ALERT
    Blank,      \* what a slot of the data file holds when it is no packet
    NoIndex,    \* an index file that is missing or fails ReadFileTable's checks
    Faults      \* whether file writes fail and the power is cut

\* uint16_t indices; a ring of one slot has no use for a head and a tail
ASSUME RingAssumption == MAX_FILE \in 2 .. 65535
ASSUME PacketAssumption == /\ NormalPkts \cap AlertPkts = {}
                           /\ Blank \notin NormalPkts \cup AlertPkts
ASSUME FaultsAssumption == Faults \in BOOLEAN

VARIABLES
    table,  \* FTable, the copy in RAM
    index,  \* BatchIndex.bin
    data    \* BatchFile.bin, by slot

vars == <<table, index, data>>

Slots   == 0 .. MAX_FILE - 1
Types   == {"NORMAL", "ALERT"}
Packets == NormalPkts \cup AlertPkts

TypeOf(p) == IF p \in AlertPkts THEN "ALERT" ELSE "NORMAL"

Tables == [total : 0 .. MAX_FILE, head : Slots, tail : Slots,
           valid : [Slots -> BOOLEAN], packet : [Slots -> Types]]

\* What is no index is not taken for one.
ASSUME IndexAssumption == NoIndex \notin Tables

EmptyTable == [total |-> 0, head |-> 0, tail |-> 0,
               valid  |-> [s \in Slots |-> FALSE],
               packet |-> [s \in Slots |-> "NORMAL"]]

NoData == [s \in Slots |-> Blank]

Succ(s) == IF s = MAX_FILE - 1 THEN 0 ELSE s + 1
Pred(s) == IF s = 0 THEN MAX_FILE - 1 ELSE s - 1

-----------------------------------------------------------------------------
\* Mutant of InWindow: head = tail is taken for an empty ring.
InWindowNeverFull(t, s) ==
    IF t.head < t.tail THEN t.head <= s /\ s < t.tail
    ELSE t.tail < t.head /\ (t.head <= s \/ s < t.tail)

(* The part of the ring a scan looks at: from tail-1 back to head.  Head and *)
(* tail coincide both when the ring is empty and when it is full; the code   *)
(* tells the two apart by the count.                                         *)
InWindow(t, s) ==
    IF t.head < t.tail THEN t.head <= s /\ s < t.tail
    ELSE IF t.tail < t.head THEN t.head <= s \/ s < t.tail
    ELSE t.total > 0

\* ReadDataBatchExt answers "no files" whenever the count is zero.
Visible(t) == IF t.total = 0 THEN {}
              ELSE {s \in Slots : InWindow(t, s) /\ t.valid[s]}

\* How many steps back from the tail a slot lies, 0 for the newest.
Age(t, s) == IF s < t.tail THEN t.tail - 1 - s ELSE t.tail - 1 - s + MAX_FILE

\* What a scan for one type returns with skip = 0, 1, ...: newest first.
Candidates(t, ty) == {s \in Visible(t) : t.packet[s] = ty}
IsNewest(t, s, S) == s \in S /\ \A r \in S : Age(t, s) <= Age(t, r)

\* ReadFileTable: the table in the index file, or a fresh one.  A count above
\* MAX_FILE fails its range check: that is how an underflow would come back.
\* (ReadFileTable also writes the fresh table over an index it rejects; a missing
\* index and one that holds the fresh table read the same.  A read that fails is
\* ReloadFails and StoreUnread.)
Reload == IF index = NoIndex THEN EmptyTable
          ELSE IF index.total > MAX_FILE THEN EmptyTable ELSE index

-----------------------------------------------------------------------------
(* StoreFileToFlash, on the table it has just reloaded.                      *)

\* Mutant of DropOldest: the head stays.
DropOldestHeadStays(t) == [t EXCEPT !.valid[t.head] = FALSE, !.total = @ - 1]

DropOldest(t) == [t EXCEPT !.valid[t.head] = FALSE,
                           !.head  = Succ(t.head),
                           !.total = @ - 1]

MakeRoom(t) == IF t.total >= MAX_FILE THEN DropOldest(t) ELSE t

AddAtTail(t, ty) == [t EXCEPT !.valid[t.tail]  = TRUE,
                              !.packet[t.tail] = ty,
                              !.tail  = Succ(t.tail),
                              !.total = @ + 1]

StoreIn(t, ty) == AddAtTail(MakeRoom(t), ty)

-----------------------------------------------------------------------------
(* DeleteDataBatchSlot.  Deleting the newest slot pulls the tail back;       *)
(* deleting the slot at the head moves the head over the invalid slots that  *)
(* follow, up to the tail, while the count is above one.  The count itself   *)
(* goes down once, at the end.                                               *)

\* Mutant of ClearSlot: the valid flag stays.
ClearSlotStaysValid(t, s) == [t EXCEPT !.packet[s] = "NORMAL"]

ClearSlot(t, s) == [t EXCEPT !.valid[s] = FALSE, !.packet[s] = "NORMAL"]

\* Mutants of PullTail: always, and never.
PullTailAlways(t, s) == [t EXCEPT !.tail = s]
PullTailNever(t, s) == t

PullTail(t, s) == IF s = Pred(t.tail) THEN [t EXCEPT !.tail = s] ELSE t

\* Slots the skipping loop stops at, and how far each is from the head.
Stops(t) == {s \in Slots : t.valid[s] \/ s = t.tail}
Ahead(t, s) == IF t.head < s THEN s - t.head ELSE s - t.head + MAX_FILE
FirstStop(t) == CHOOSE s \in Stops(t) :
                   \A r \in Stops(t) : Ahead(t, s) <= Ahead(t, r)

SkipHead(t, s) == IF s = t.head /\ t.total > 1
                  THEN [t EXCEPT !.head = FirstStop(t)] ELSE t

\* uint16_t: a count of zero would wrap.
CountDown(t) == [t EXCEPT !.total = IF @ = 0 THEN 65535 ELSE @ - 1]

DeleteIn(t, s) == CountDown(SkipHead(PullTail(ClearSlot(t, s), s), s))

\* The end of a scan that matched nothing: the count is made what it saw.
RepairIn(t) == [t EXCEPT !.total = Cardinality(Visible(t))]

-----------------------------------------------------------------------------
(* UpdateFileTable writes the whole index over.  With faults: the file is    *)
(* left truncated (write error, or power cut after QL_FS_CREATE_ALWAYS); or  *)
(* it cannot be created, the file system is formatted and the write retried; *)
(* or the format fails too and the old file stays.                           *)
UpdateFileTable(t, d) ==
    \/ index' = t /\ data' = d
    \/ /\ Faults
       /\ \/ index' = NoIndex /\ data' = d
          \/ index' = index /\ data' = d
          \/ index' \in {t, NoIndex} /\ data' = NoData

Init == table = EmptyTable /\ index = NoIndex /\ data = NoData

Unstored(p) == \A s \in Slots : data[s] # p

(* StoreFileToFlash(data, paket).  A packet's bytes are written before the   *)
(* index.                                                                    *)
Store(p) ==
    LET t == Reload
        room == MakeRoom(t)
    IN /\ Unstored(p)
       /\ table' = StoreIn(t, TypeOf(p))
       /\ UpdateFileTable(table', [data EXCEPT ![room.tail] = p])

(* WriteFileData fails: the call returns with the table in RAM already       *)
(* changed and the index not written; the slot may be partly overwritten.    *)
StoreFails(p) ==
    LET room == MakeRoom(Reload)
    IN /\ Faults
       /\ Unstored(p)
       /\ table' = room
       /\ UNCHANGED index
       /\ \/ UNCHANGED data
          \/ data' = [data EXCEPT ![room.tail] = Blank]

(* The power is cut between the two writes of a store.                       *)
StoreCut(p) ==
    LET room == MakeRoom(Reload)
    IN /\ Faults
       /\ Unstored(p)
       /\ data' = [data EXCEPT ![room.tail] = p]
       /\ table' = EmptyTable
       /\ UNCHANGED index

(* The index is there and cannot be opened or read: ReadFileTable goes to    *)
(* INIT_NEW as for one that is missing and writes the fresh table over it.   *)
(* A scan then finds nothing and a deletion no valid slot.                   *)
ReloadFails ==
    /\ Faults
    /\ table' = EmptyTable
    /\ UpdateFileTable(table', data)

(* The same in a StoreFileToFlash, which goes on with the fresh table.       *)
StoreUnread(p) ==
    /\ Faults
    /\ Unstored(p)
    /\ table' = StoreIn(EmptyTable, TypeOf(p))
    /\ UpdateFileTable(table', [data EXCEPT ![EmptyTable.tail] = p])

(* DeleteDataBatchSlot(pos) for a slot a scan has returned.                  *)
Delete(s) ==
    LET t == Reload
    IN /\ s \in Visible(t)
       /\ table' = DeleteIn(t, s)
       /\ UpdateFileTable(table', data)

(* A scan that runs to its end (ReadFileTable has been called before it): it *)
(* repairs a count that does not match.                                      *)
Repair ==
    LET t == Reload
    IN /\ t.total # 0
       /\ t.total # Cardinality(Visible(t))
       /\ table' = RepairIn(t)
       /\ UpdateFileTable(table', data)

(* ClearBatchStorage, from CLR DISK and from the clean-up before a download. *)
(* Each file may refuse to go.                                               *)
Clear ==
    /\ table' = EmptyTable
    /\ \/ index' = NoIndex
       \/ Faults /\ UNCHANGED index
    /\ \/ data' = NoData
       \/ Faults /\ UNCHANGED data

(* Power loss: what is in RAM goes.                                          *)
Reboot == table' = EmptyTable /\ UNCHANGED <<index, data>>

Next ==
    \/ \E p \in Packets :
          Store(p) \/ StoreFails(p) \/ StoreCut(p) \/ StoreUnread(p)
    \/ ReloadFails
    \/ \E s \in Slots : Delete(s)
    \/ Repair
    \/ Clear
    \/ Reboot

Spec == Init /\ [][Next]_vars

-----------------------------------------------------------------------------
(* The uploads that leave no gap.  When all stored packets have one type,    *)
(* MakeBatchPacket picks the newest and the next newest and GetBatchData     *)
(* deletes them in that order: every deletion is of the newest packet.       *)

DeleteNewest == \E s \in Slots : s = Pred(Reload.tail) /\ Delete(s)

LifoNext ==
    \/ \E p \in Packets : Store(p) \/ StoreFails(p) \/ StoreUnread(p)
    \/ ReloadFails
    \/ DeleteNewest
    \/ Clear
    \/ Reboot

-----------------------------------------------------------------------------
(* Nothing fails, and MakeBatchPacket picks the newest alert, and the newest *)
(* normal packet when there is no alert.                                     *)
DeleteUploaded ==
    LET alerts == Candidates(Reload, "ALERT")
    IN \E s \in Slots :
         /\ IsNewest(Reload, s, IF alerts = {} THEN Visible(Reload) ELSE alerts)
         /\ Delete(s)

UploadNext ==
    \/ \E p \in Packets : Store(p)
    \/ DeleteUploaded \/ Repair

UploadSpec == Init /\ [][UploadNext]_vars

-----------------------------------------------------------------------------
(* The table in RAM and the one in the index file are well formed; with this *)
(* the count of neither has wrapped around below zero (CountDown).           *)
TypeOK == /\ table \in Tables
          /\ index \in Tables \cup {NoIndex}
          /\ data \in [Slots -> Packets \cup {Blank}]

(* The count never says fewer packets than a scan can find: packets in the   *)
(* ring are not passed over because ReadDataBatchExt finds a count of zero,  *)
(* and deletions do not take the count below zero.                           *)
CountCoversRing ==
    Cardinality({s \in Slots : InWindow(Reload, s) /\ Reload.valid[s]})
        <= Reload.total

(* Deleting an uploaded packet takes no other packet out of the reach of a   *)
(* scan: neither the tail pulled back nor the head moved on passes over one. *)
DeleteHidesNothingElse ==
    [][\A s \in Slots : (Delete(s) /\ index' = table')
          => Visible(Reload) \ {s} \subseteq Visible(Reload')]_vars

(* "Batch FULL - overwriting oldest at slot" (Batch.c:228): a store puts a    *)
(* packet out of reach only when a scan would find MAX_FILE of them, and then *)
(* the oldest.  Packets of two types, uploaded type by type, leave gaps: the  *)
(* tail comes round to the head while the count says that there is room.      *)
GivesUpOldest ==
    [][\A p \in Packets : Store(p) =>
         \A s \in Visible(Reload) : s \notin Visible(Reload') \/ data'[s] # data[s]
            => /\ Cardinality(Visible(Reload)) = MAX_FILE
               /\ \A r \in Visible(Reload) : Age(Reload, r) <= Age(Reload, s)]_vars

-----------------------------------------------------------------------------
NoGap(t) ==
    /\ t.head < t.tail => t.total = t.tail - t.head
    /\ t.tail < t.head => t.total = t.tail - t.head + MAX_FILE
    /\ t.head = t.tail => t.total \in {0, MAX_FILE}
    /\ \A s \in Slots : t.valid[s] <=> InWindow(t, s)

RingHasNoGap == NoGap(Reload)

(* The valid slots are the ones between head and tail and the count is their *)
(* number: a ring of which this is true stays so as long as only the newest  *)
(* packet is deleted, whatever fails and whenever the power goes.            *)
LifoKeepsNoGap == [][RingHasNoGap /\ LifoNext => RingHasNoGap']_vars

Stacked == [i \in 1 .. Reload.total |->
               LET s == Reload.head + i - 1
               IN data[IF s < MAX_FILE THEN s ELSE s - MAX_FILE]]

Stack == INSTANCE OfflineStack WITH Capacity <- MAX_FILE, Rollover <- TRUE, stack <- Stacked

(* Such a ring is the stack of OfflineStack: StoreFileToFlash pushes, and    *)
(* drops the oldest packet when MAX_FILE are stored ("Batch FULL -           *)
(* overwriting oldest at slot"), the deletion of the newest packet pops, and *)
(* ClearBatchStorage empties it, each if its writes succeed.                 *)
LifoIsStack ==
    [][RingHasNoGap =>
          /\ \A p \in Packets :
                Store(p) /\ index' = table' /\ ~ Unstored(p)' => Stack!Push(p)
          /\ DeleteNewest /\ index' = table' /\ data' = data => Stack!Pop
          /\ Clear /\ index' = NoIndex => Stack!Wipe]_vars

=============================================================================
