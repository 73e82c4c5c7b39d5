------------------------------- MODULE PktSave -------------------------------
(***************************************************************************)
(* The history of undelivered packets of the TCP protocols                  *)
(* (custom/PktSave.c, ProcessHistoryPacket in custom/Server.c): packet n is *)
(* the file BK_<n>.bin, the number of packets is kept in BkCount.bin and in *)
(* PacketConfig.LastPkt.  The newest packet is sent first and deleted when  *)
(* it was sent.  Only the server thread works on it, so its steps are in    *)
(* sequence; the power may go at any of them.  A file is rewritten by       *)
(* SaveToFlash: opening it empties it, then it is written.                  *)
(***************************************************************************)
EXTENDS Naturals, Sequences, FiniteSets

CONSTANTS
    MAX_PACKET_COUNT,
    Packets,
    Blank,       \* no file
    Torn,        \* a file that was opened and not written, or not all of it
    NoCount,     \* BkCount.bin is missing or empty
    Worlds       \* the conditions under which the device may run, sets of Events

ASSUME CapacityAssumption == MAX_PACKET_COUNT \in Nat \ {0}
ASSUME ValuesAssumption == /\ Blank \notin Packets /\ Torn \notin Packets
                           /\ Blank # Torn /\ NoCount \notin Nat

Steps == {"idle", "save", "open", "write", "send", "delete", "clear", "sweep"}

\* File operations can fail; a packet can be saved after a restart before the
\* count was read; the power can go at a step.
Events == {"faults", "unread"} \cup Steps

ASSUME WorldsAssumption == Worlds \subseteq SUBSET Events

Slots == 1 .. MAX_PACKET_COUNT

VARIABLES
    world,      \* the conditions of this run; nothing changes them
    files,      \* BK_1.bin ... BK_<MAX_PACKET_COUNT>.bin
    disk,       \* the count in BkCount.bin
    last,       \* PacketConfig.LastPkt
    pc,         \* what the server thread does next
    after,      \* ... and after UpdatePacketConfig
    dataBuffer, \* the packet at hand
    owed,       \* packets that were saved, not delivered and not cleared
    delivered   \* packets that were delivered and not saved again

vars == <<world, files, disk, last, pc, after, dataBuffer, owed, delivered>>

Faulty == "faults" \in world

Init ==
    /\ world \in Worlds
    /\ files = [n \in Slots |-> Blank]
    /\ disk = NoCount /\ last = 0
    /\ pc = "idle" /\ after = "idle"
    /\ dataBuffer = Blank
    /\ owed = {} /\ delivered = {}

-----------------------------------------------------------------------------
\* Mutant of UpdateCount: the file is not written.
UpdateCountInRam(l) == pc' = l /\ UNCHANGED after

\* UpdatePacketConfig, then l.  An unchanged count is not written again.
UpdateCount(l) ==
    IF last' = disk THEN pc' = l /\ UNCHANGED after
                    ELSE pc' = "open" /\ after' = l

OpenCount ==
    /\ pc = "open"
    /\ \/ disk' = NoCount /\ pc' = "write"
       \/ Faulty /\ pc' = after /\ UNCHANGED disk
    /\ UNCHANGED <<world, files, last, after, dataBuffer, owed, delivered>>

WriteCount ==
    /\ pc = "write"
    /\ disk' = last \/ (Faulty /\ UNCHANGED disk)
    /\ pc' = after
    /\ UNCHANGED <<world, files, last, after, dataBuffer, owed, delivered>>

\* CheckPacketCount: what can be loaded.  A count file that cannot be loaded is
\* replaced by one that says 0, unless that cannot be created or written either.
Loaded == (IF disk = NoCount THEN {0} ELSE {disk})
          \cup (IF Faulty THEN {0} ELSE {})

CheckPacketCount(n) ==
    /\ n \in Loaded
    /\ IF n = disk THEN UNCHANGED disk
                   ELSE disk' = 0 \/ (Faulty /\ disk' \in {NoCount, disk})

-----------------------------------------------------------------------------
(* SavePacket, of a packet that could not be sent.                           *)

\* PacketConfig holds what BkCount.bin says.
CountIsRead == last = IF disk = NoCount THEN 0 ELSE disk

Save(p) ==
    /\ pc = "idle"
    /\ CountIsRead \/ "unread" \in world
    /\ p \notin {files[n] : n \in Slots}
    /\ last < MAX_PACKET_COUNT
    /\ dataBuffer' = p
    /\ \/ files' = [files EXCEPT ![last + 1] = Torn] /\ pc' = "save"
       \/ Faulty /\ UNCHANGED <<files, pc>>
    /\ UNCHANGED <<world, disk, last, after, owed, delivered>>

SaveWritten ==
    /\ pc = "save"
    /\ files' = [files EXCEPT ![last + 1] = dataBuffer]
    /\ last' = last + 1
    /\ UpdateCount("idle")
    /\ owed' = owed \cup {dataBuffer}
    /\ delivered' = delivered \ {dataBuffer}
    /\ UNCHANGED <<world, disk, dataBuffer>>

SaveFails ==
    /\ pc = "save" /\ Faulty
    /\ pc' = "idle"
    /\ UNCHANGED <<world, files, disk, last, after, dataBuffer, owed, delivered>>

\* The history is full (ROLLOVER is not defined): the packet is gone.
SaveRefused(p) ==
    /\ pc = "idle" /\ last = MAX_PACKET_COUNT
    /\ p \notin {files[n] : n \in Slots}
    /\ dataBuffer' = p
    /\ UNCHANGED <<world, files, disk, last, pc, after, owed, delivered>>

-----------------------------------------------------------------------------
(* ProcessHistoryPacket                                                      *)

\* ReadLastPacket goes down from n to the first file that can be read: one with
\* a packet, or part of one.  When there is none, DeleteLastPacket is called.
Readable(n) == {0} \cup {t \in 1 .. n : files[t] # Blank}
MustRead(n) == {t \in 1 .. n : files[t] \in Packets /\ ~ Faulty}

ReadLast ==
    /\ pc = "idle"
    /\ \E n \in Loaded :
          /\ CheckPacketCount(n)
          /\ \E t \in Readable(n) :
                /\ \A u \in MustRead(n) : u <= t
                /\ last' = t
                /\ dataBuffer' = IF t = 0 THEN Blank ELSE files[t]
                /\ IF n = 0 THEN UNCHANGED <<pc, after>>
                   ELSE UpdateCount(IF t = 0 THEN "delete" ELSE "send")
    /\ UNCHANGED <<world, files, owed, delivered>>

\* A packet without its header or too short is deleted and not sent.
Invalid ==
    /\ pc = "send" /\ dataBuffer = Torn
    /\ pc' = "delete"
    /\ UNCHANGED <<world, files, disk, last, after, dataBuffer, owed, delivered>>

\* Mutant of SendSucceeds: the packet is not deleted.
SendSucceedsKeeps ==
    /\ pc = "send" /\ dataBuffer # Torn
    /\ owed' = owed \ {dataBuffer}
    /\ delivered' = delivered \cup {dataBuffer}
    /\ pc' = "idle"
    /\ UNCHANGED <<world, files, disk, last, after, dataBuffer>>

SendSucceeds ==
    /\ pc = "send" /\ dataBuffer # Torn
    /\ owed' = owed \ {dataBuffer}
    /\ delivered' = delivered \cup {dataBuffer}
    /\ pc' = "delete"
    /\ UNCHANGED <<world, files, disk, last, after, dataBuffer>>

SendFails ==
    /\ pc = "send" /\ dataBuffer # Torn
    /\ pc' = "idle"
    /\ UNCHANGED <<world, files, disk, last, after, dataBuffer, owed, delivered>>

\* Mutant of DeleteLast: the oldest packet's file is removed.
DeleteLastOldest ==
    /\ pc = "delete"
    /\ \E n \in Loaded :
          /\ CheckPacketCount(n)
          /\ n > 0
          /\ files' = [files EXCEPT ![1] = Blank]
          /\ last' = n - 1
          /\ UpdateCount("idle")
    /\ UNCHANGED <<world, dataBuffer, owed, delivered>>

\* DeleteLastPacket
DeleteLast ==
    /\ pc = "delete"
    /\ \E n \in Loaded :
          /\ CheckPacketCount(n)
          /\ \/ /\ n > 0
                /\ files' = [files EXCEPT ![n] = Blank]
                /\ last' = n - 1
                /\ UpdateCount("idle")
             \/ /\ n = 0 \/ Faulty
                /\ last' = n
                /\ pc' = "idle"
                /\ UNCHANGED <<files, after>>
    /\ UNCHANGED <<world, dataBuffer, owed, delivered>>

-----------------------------------------------------------------------------
(* CLR HISTORY: DeleteAllPackets                                             *)

ClearBegins ==
    /\ pc = "idle"
    /\ \E n \in Loaded : CheckPacketCount(n) /\ last' = n
    /\ pc' = "clear"
    /\ owed' = {}
    /\ UNCHANGED <<world, files, after, dataBuffer, delivered>>

ClearOne ==
    /\ pc = "clear" /\ last > 0
    /\ files' = [files EXCEPT ![last] = Blank]
    /\ last' = last - 1
    /\ UpdateCount("clear")
    /\ UNCHANGED <<world, disk, dataBuffer, owed, delivered>>

\* All are deleted, or the last one cannot be.
ClearEnds ==
    /\ pc = "clear" /\ (last = 0 \/ Faulty)
    /\ pc' = "idle"
    /\ UNCHANGED <<world, files, disk, last, after, dataBuffer, owed, delivered>>

(* CLR DISK and the clean-up before a download: ClearHistoryStorage          *)

SweepBegins ==
    /\ pc = "idle"
    /\ pc' = "sweep"
    /\ owed' = {}
    /\ UNCHANGED <<world, files, disk, last, after, dataBuffer, delivered>>

Swept(S) == [n \in Slots |-> IF n \in S THEN Blank ELSE files[n]]

Sweep ==
    /\ pc = "sweep"
    /\ \E S \in SUBSET Slots :
          /\ S = Slots \/ Faulty
          /\ files' = Swept(S)
    /\ last' = 0
    /\ disk' = NoCount \/ (Faulty /\ UNCHANGED disk)
    /\ pc' = "idle"
    /\ UNCHANGED <<world, after, dataBuffer, owed, delivered>>

-----------------------------------------------------------------------------
\* The power goes and the firmware starts again: PacketConfig is 0 until the
\* count is loaded.  A sweep may have come as far as file k; a packet whose
\* deletion was under way will be sent again.
PowerCut ==
    /\ pc \in world
    /\ last' = 0
    /\ IF pc = "sweep" THEN \E k \in 0 .. MAX_PACKET_COUNT : files' = Swept(1 .. k)
                       ELSE UNCHANGED files
    /\ delivered' = IF pc = "delete" THEN delivered \ {dataBuffer} ELSE delivered
    /\ dataBuffer' = Blank
    /\ pc' = "idle" /\ after' = "idle"
    /\ UNCHANGED <<world, disk, owed>>

Next ==
    \/ \E p \in Packets : Save(p) \/ SaveRefused(p)
    \/ SaveWritten \/ SaveFails
    \/ OpenCount \/ WriteCount
    \/ ReadLast \/ Invalid \/ SendSucceeds \/ SendFails \/ DeleteLast
    \/ ClearBegins \/ ClearOne \/ ClearEnds \/ SweepBegins \/ Sweep
    \/ PowerCut

Spec == Init /\ [][Next]_vars

-----------------------------------------------------------------------------
(* The count stays within the capacity, in RAM and in flash.                  *)
TypeOK ==
    /\ world \in Worlds
    /\ files \in [Slots -> Packets \cup {Blank, Torn}]
    /\ disk \in 0 .. MAX_PACKET_COUNT \cup {NoCount}
    /\ last \in 0 .. MAX_PACKET_COUNT
    /\ pc \in Steps
    /\ after \in {"idle", "send", "delete", "clear"}
    /\ dataBuffer \in Packets \cup {Blank, Torn}
    /\ owed \subseteq Packets /\ delivered \subseteq Packets

\* No file operation fails and the power stays.
Calm == world = {}

(* The count covers every packet that was saved and neither delivered nor    *)
(* cleared, so that ProcessHistoryPacket will come to it.                    *)
CountCovers == pc = "idle" /\ owed # {} =>
                  disk # NoCount /\ owed \subseteq {files[n] : n \in 1 .. disk}

(* It does, also after restarts: wherever the power goes but while BkCount.bin*)
(* is rewritten, between a packet and its deletion or during a clean-up too,  *)
(* as long as no file operation fails and the count is read before the first  *)
(* packet after a restart is saved.                                           *)
OwedIsCounted ==
    world \cap {"faults", "unread", "open", "write"} = {} => CountCovers

(* A packet that was delivered is not sent again, wherever the power goes    *)
(* other than between its delivery and its deletion.                         *)
DeliveredOnce == [][~ Faulty /\ SendSucceeds => dataBuffer \notin delivered]_vars

(* The history is a stack that refuses packets when it is full: SavePacket   *)
(* pushes, DeleteLastPacket and DeleteAllPackets pop, ClearHistoryStorage    *)
(* wipes.  (With faults or power cuts it promises no such thing.)  This is    *)
(* what the code does; the documentation has a full history give up its       *)
(* oldest packet, which FullRollsOver states.                                *)
Stacked == IF Calm THEN [n \in 1 .. last |-> files[n]] ELSE <<>>

Stack == INSTANCE OfflineStack
            WITH Capacity <- MAX_PACKET_COUNT, Rollover <- FALSE, stack <- Stacked

StackSpec == Stack!Spec

(* FIRMWARE_DOCUMENTATION.md:736 says of SavePacket that in a history without *)
(* room "the oldest history packet is deleted (FIFO rollover)": a packet that *)
(* comes to a full history is not lost, the oldest one is.  SavePacket        *)
(* deletes nothing and returns, ROLLOVER being undefined (PktSave.c:287-296). *)
FullRollsOver ==
    [][Calm /\ pc = "idle" /\ last = MAX_PACKET_COUNT
       /\ dataBuffer' \in Packets \ {files[n] : n \in Slots}
          => files'[1] # files[1]]_vars

=============================================================================
