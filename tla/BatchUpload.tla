----------------------------- MODULE BatchUpload -----------------------------
(***************************************************************************)
(* Uploading stored packets (GetBatchData and MakeBatchPacket in            *)
(* custom/Server.c) while other packets are stored.  GetBatchData runs in   *)
(* the server thread: it picks at most two packets, posts them, which takes *)
(* seconds, and after an answer deletes the SLOTS it picked.  Meanwhile the *)
(* HTTP thread evicts expired and unsendable queue items to the same ring   *)
(* (StoreFileToFlash).  Both threads work on the one FTable in RAM, which   *)
(* each call first reloads from the index file; there is no lock.           *)
(***************************************************************************)
EXTENDS BatchStore, Sequences

CONSTANT Worlds \* the conditions under which the device may run, sets of Events

Events == { "alerts",  \* alerts are stored as well as positions
            "imei",    \* the device is given another IMEI (custom IMEI)
            "overlap" }\* packets are stored during an upload

ASSUME WorldsAssumption == Worlds \subseteq SUBSET Events

VARIABLES
    world,    \* the conditions of this run; nothing changes them
    storer,   \* the HTTP thread inside StoreFileToFlash
    uploader, \* the server thread inside GetBatchData
    foreign,  \* stored packets that do not carry the present IMEI
    owed      \* packets stored, not delivered, and not dropped as the oldest

uvars == <<world, table, index, data, storer, uploader, foreign, owed>>

SlotsMax == 2  \* s_batchPacketsSlots: records in one BTH packet

IdleStorer   == [pc |-> "idle", pkt |-> Blank, addr |-> 0]
IdleUploader == [pc |-> "idle", count |-> 0, slots |-> <<>>, pkts |-> {}]

UInit == /\ Init
         /\ world \in Worlds
         /\ storer = IdleStorer
         /\ uploader = IdleUploader
         /\ foreign = {}
         /\ owed = {}

-----------------------------------------------------------------------------
(* StoreFileToFlash, in the steps between which the server thread may run.   *)

\* ReadFileTable, room made in RAM, address taken from the tail.
StoreLoad(p) ==
    LET t == Reload
        room == MakeRoom(t)
    IN /\ storer.pc = "idle"
       /\ "overlap" \in world \/ uploader.pc = "idle"
       /\ "alerts" \in world \/ p \in NormalPkts
       /\ Unstored(p)
       /\ table' = room
       /\ storer' = [pc |-> "data", pkt |-> p, addr |-> room.tail]
       /\ owed' = IF Cardinality(Visible(t)) = MAX_FILE
                  THEN owed \ {data[t.head]} ELSE owed
       /\ foreign' = foreign \ {p}
       /\ UNCHANGED <<world, index, data, uploader>>

\* WriteFileData at that address.
StoreData ==
    /\ storer.pc = "data"
    /\ data' = [data EXCEPT ![storer.addr] = storer.pkt]
    /\ storer' = [storer EXCEPT !.pc = "mark"]
    /\ UNCHANGED <<world, table, index, uploader, foreign, owed>>

\* The slot at the tail FTable has by now is marked and the index written.
StoreMark ==
    /\ storer.pc = "mark"
    /\ table' = AddAtTail(table, TypeOf(storer.pkt))
    /\ index' = table'
    /\ owed' = owed \cup {storer.pkt}
    /\ storer' = IdleStorer
    /\ UNCHANGED <<world, data, uploader, foreign>>

-----------------------------------------------------------------------------
(* MakeBatchPacket: newest alerts first, then newest normal packets, passing *)
(* over those without the IMEI, until min(count, 2) are found.               *)

Usable(t, ty) == {s \in Candidates(t, ty) : data[s] \notin foreign}

Sooner(t, r, s) == \/ t.packet[r] = "ALERT" /\ t.packet[s] = "NORMAL"
                   \/ t.packet[r] = t.packet[s] /\ Age(t, r) < Age(t, s)

NextOf(t, S) == CHOOSE s \in S : \A r \in S \ {s} : Sooner(t, s, r)

Picked(t, n) ==
    LET all    == Usable(t, "ALERT") \cup Usable(t, "NORMAL")
        first  == NextOf(t, all)
        second == NextOf(t, all \ {first})
    IN IF n = 0 \/ all = {} THEN <<>>
       ELSE IF n = 1 \/ all = {first} THEN <<first>>
       ELSE <<first, second>>

\* A scan that finds no (further) packet of its type ends with the repair.
ScanRanOut(t, n) == Cardinality(Usable(t, "ALERT")) < n

BatchSize(t) == IF t.total < SlotsMax THEN t.total ELSE SlotsMax

(* GetBatchData up to the post.  The record count in the header is the table's *)
(* count (at most 2), whatever is found.                                      *)
MakeBatch ==
    LET t == Reload
        n == BatchSize(t)
        picked == Picked(t, n)
    IN /\ uploader.pc = "idle"
       /\ "overlap" \in world \/ storer.pc = "idle"
       /\ t.total > 0
       /\ IF ScanRanOut(t, n) /\ t.total # Cardinality(Visible(t))
          THEN table' = RepairIn(t) /\ index' = table'
          ELSE table' = t /\ UNCHANGED index
       /\ uploader' = [pc |-> "sending", count |-> n, slots |-> picked,
                       pkts |-> {data[picked[i]] : i \in DOMAIN picked}]
       /\ UNCHANGED <<world, data, storer, foreign, owed>>

SendFails ==
    /\ uploader.pc = "sending"
    /\ uploader' = IdleUploader
    /\ UNCHANGED <<world, table, index, data, storer, foreign, owed>>

SendSucceeds ==
    /\ uploader.pc = "sending"
    /\ owed' = owed \ uploader.pkts
    /\ uploader' = IF uploader.slots = <<>> THEN IdleUploader
                   ELSE [uploader EXCEPT !.pc = "delete"]
    /\ UNCHANGED <<world, table, index, data, storer, foreign>>

(* DeleteDataBatchSlot for the next slot on the list: the table is reloaded  *)
(* and changed ...                                                           *)
DeleteLoad ==
    LET t == Reload
        s == Head(uploader.slots)
        rest == Tail(uploader.slots)
    IN /\ uploader.pc = "delete"
       /\ IF t.valid[s]
          THEN /\ table' = DeleteIn(t, s)
               /\ uploader' = [uploader EXCEPT !.pc = "write"]
          ELSE /\ table' = t
               /\ uploader' = IF rest = <<>> THEN IdleUploader
                              ELSE [uploader EXCEPT !.slots = rest]
       /\ UNCHANGED <<world, index, data, storer, foreign, owed>>

\* ... and what FTable is by now is written to the index file.
DeleteWrite ==
    LET rest == Tail(uploader.slots)
    IN /\ uploader.pc = "write"
       /\ index' = table
       /\ uploader' = IF rest = <<>> THEN IdleUploader
                      ELSE [uploader EXCEPT !.pc = "delete", !.slots = rest]
       /\ UNCHANGED <<world, table, data, storer, foreign, owed>>

(* A custom IMEI is set: no packet stored before carries it.                 *)
ChangeIMEI ==
    /\ "imei" \in world
    /\ foreign' = {p \in Packets : p \in owed \/ ~ Unstored(p)}
    /\ UNCHANGED <<world, table, index, data, storer, uploader, owed>>

UNext == \/ \E p \in Packets : StoreLoad(p)
         \/ StoreData \/ StoreMark
         \/ MakeBatch \/ SendFails \/ SendSucceeds
         \/ DeleteLoad \/ DeleteWrite
         \/ ChangeIMEI

USpec == UInit /\ [][UNext]_uvars

(* GetBatchData runs at every reporting interval without an emergency, and a *)
(* server that keeps answering some posts answers one of them in the end.    *)
Uploading == /\ WF_uvars(StoreData) /\ WF_uvars(StoreMark)
             /\ WF_uvars(MakeBatch) /\ SF_uvars(SendSucceeds)
             /\ WF_uvars(DeleteLoad) /\ WF_uvars(DeleteWrite)

UFairSpec == USpec /\ Uploading

-----------------------------------------------------------------------------
(* Between the two threads FTable may hold a count of one packet too many.   *)
CountSlack == IF "overlap" \in world THEN 1 ELSE 0

TablesU == [total : 0 .. MAX_FILE + CountSlack, head : Slots, tail : Slots,
            valid : [Slots -> BOOLEAN], packet : [Slots -> Types]]

(* Both threads stay within the ring, and what one of them writes into FTable  *)
(* while the other has it leaves a count that overruns by CountSlack at most.  *)
TypeOKU ==
    /\ world \in Worlds
    /\ table \in TablesU
    /\ index \in TablesU \cup {NoIndex}
    /\ data \in [Slots -> Packets \cup {Blank}]
    /\ storer \in [pc : {"idle", "data", "mark"}, pkt : Packets \cup {Blank},
                   addr : Slots]
    /\ uploader.pc \in {"idle", "sending", "delete", "write"}
    /\ uploader.count \in 0 .. SlotsMax
    /\ Len(uploader.slots) <= SlotsMax
    /\ foreign \subseteq Packets /\ owed \subseteq Packets

Quiet == storer.pc = "idle" /\ uploader.pc = "idle"

(* Store-and-forward: while neither thread is in the store, every packet that *)
(* was stored, was not delivered and did not have to make room as the oldest  *)
(* of a full ring can still be found by a scan.  (Packets of two types, or of *)
(* two IMEIs, leave gaps, and a ring with gaps loses packets.)                *)
OwedIsStored ==
    world = {} /\ Quiet => owed \subseteq {data[s] : s \in Visible(Reload)}

(* No thread writes an index that ReadFileTable will reject as "Invalid Batch *)
(* Index", which empties the store, unless stores overlap with uploads.       *)
IndexIsAccepted ==
    "overlap" \notin world /\ index # NoIndex => index.total <= MAX_FILE

(* The store keeps what is owed, and the index by which it is found again.    *)
StoreIsKept == OwedIsStored /\ IndexIsAccepted

(* After an upload GetBatchData deletes only what it uploaded: the slot it    *)
(* deletes still holds one of the packets it posted.                          *)
DeletesOnlyUploaded ==
    [][DeleteLoad /\ uploader'.pc = "write"
          => data[Head(uploader.slots)] \in uploader.pkts]_uvars

(* Once nothing more is stored, the store runs empty.  (While packets keep    *)
(* coming, newest first may leave the old ones waiting for ever.)             *)
StoreDrains ==
    (world = {} /\ <>[][~ \E p \in Packets : StoreLoad(p)]_uvars)
        => <>[](owed = {})

=============================================================================
