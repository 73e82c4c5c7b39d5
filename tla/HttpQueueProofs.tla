--------------------------- MODULE HttpQueueProofs ---------------------------
(***************************************************************************)
(* Theorems about HttpQueue for queues of every size and any set of         *)
(* packets: its types whatever happens, and the two exclusions under the    *)
(* events they hold with.                                                   *)
(***************************************************************************)
EXTENDS HttpQueue, TLAPS, FiniteSetTheorems, SequenceTheorems

\* What the types rest on: the server thread has something to add, and has made
\* room for it where it adds without looking.
PacketsInv ==
    /\ PacketsOK
    /\ pc["server"] \in Handing => sendPkt["server"] \in Packets
    /\ pc["http"] \in HttpHolds => sendPkt["http"] \in Packets
    /\ pc["server"] = "storeOldest" => evicted["server"] \in Packets
    /\ pc["http"] \in {"storeExpired", "storeFailed"} => evicted["http"] \in Packets

QueueInv ==
    /\ QueueOK
    /\ pc["server"] \in {"storeOldest", "addRelock", "addTail"}
          => Len(queue) < HTTP_QUEUE_SIZE
    /\ pc["http"] \in {"procLock", "expire", "storeExpired", "expRelock", "ready",
                       "post", "posting", "okRelock", "posted", "claim"}
          => sent < HTTP_QUEUE_BURST

LockSetsOK == saw \subseteq Threads /\ hasLock \subseteq Threads

\* The lock, when nothing breaks it.  The watchdog, which releases it, fires
\* while the HTTP thread is idle, so upon a post of the server thread.
Critical == {"add", "addTail", "replace", "expire", "ready", "posted", "failed",
             "finish"}

LockInv ==
    /\ pc["http"] \in Critical => pc["server"] \notin Critical
    /\ busy <=> pc["http"] \in Critical \/ pc["server"] \in Critical
    /\ \A t \in Threads : t \in hasLock <=> pc[t] \in Critical
    /\ saw = {}
    /\ pc["http"] \notin {"giveUp", "claim"} /\ pc["server"] # "addUnlock"
    /\ sending => pc["http"] # "idle"
    /\ isSend => \/ pc["http"] \in HttpHolds \cup {"storeFailed", "evictRelock", "finish"}
                 \/ pc["server"] \in {"batchPosting", "emPosting", "directPosting"}

\* The emergency, when no thread is preempted between test and assignment and
\* nothing resets the flags of a thread that is still at work.
EmergencyInv ==
    /\ pc["http"] # "claim"
    /\ pc["http"] # "idle" => sending
    /\ pc["server"] \in {"wait", "emPost", "emPosting"} => paused
    /\ pc["server"] \in {"emPost", "emPosting"} => pc["http"] = "idle"

(* The packets of the queue.                                                 *)

Names(q) == {q[i].pkt : i \in DOMAIN q}
Single(q) == \A i, j \in DOMAIN q : q[i].pkt = q[j].pkt => i = j

\* x is nowhere in q but at its head, if anywhere.
FirstOnly(q, x) == \A i \in DOMAIN q : q[i].pkt = x => i = 1

(* A packet is in one place.  What the server thread has to hand over is     *)
(* nowhere else; what the HTTP thread posts is behind no other packet in the *)
(* queue, so it is not queued any more when it is given to flash.            *)
OneCopyInv ==
    /\ Single(queue)
    /\ Names(queue) \cap (flash \cup {evicted["http"], evicted["server"]}) = {}
    /\ pc["server"] \in Handing
          => sendPkt["server"] \notin Names(queue) \cup flash
                 \cup {evicted["http"], evicted["server"], sendPkt["http"]}
    /\ pc["http"] \in HttpHolds => FirstOnly(queue, sendPkt["http"])

\* Where the server thread can be when the queue has room and no lock times out.
CalmLabels == {"idle", "addLock", "add", "wait", "emPost", "emPosting", "batchPost",
               "batchPosting"}

Calm == world \subseteq {"batch", "emergency", "watchdog"}

(* In a queue that does not fill up, where only the HTTP thread takes packets *)
(* off, the packet it posts stays at the head until it takes it off.          *)
KeptInv ==
    /\ pc["server"] \in CalmLabels
    /\ pc["server"] \in {"addLock", "add"} => Len(queue) < HTTP_QUEUE_SIZE
    /\ pc["http"] \in HttpHolds => queue # <<>> /\ queue[1].pkt = sendPkt["http"]
    /\ pc["http"] \in {"okRelock", "posted"} => sendPkt["http"] \notin owed
    /\ pc["http"] \notin {"storeExpired", "storeFailed"} => evicted["http"] = NoPkt
    /\ pc["server"] \notin Handing => sendPkt["server"] = NoPkt
    /\ owed \subseteq Names(queue) \cup flash \cup {sendPkt["server"], evicted["http"]}

\* A queue that has room, and locks that do not time out.
Roomy == "full" \notin world /\ "locktimeout" \notin world

\* Where the server thread can be then.
RoomyLabels == CalmLabels \cup {"replaceLock", "replace"}

(* What is queued, in flash or in hand has not been delivered, but for the    *)
(* packet of a post that has just succeeded; and the packet being posted is   *)
(* not in flash, so that no batch delivers it.                                *)
OwedInv ==
    /\ pc["server"] \in RoomyLabels
    /\ pc["server"] \in {"addLock", "add"} => Len(queue) < HTTP_QUEUE_SIZE
    /\ pc["http"] # "giveUp" /\ evicted["server"] = NoPkt
    /\ pc["http"] \notin {"storeExpired", "storeFailed"} => evicted["http"] = NoPkt
    /\ pc["http"] \in {"storeExpired", "storeFailed"}
          => evicted["http"] \in owed \ flash
    /\ flash \subseteq owed /\ batch \subseteq flash
    /\ pc["server"] \in Handing => sendPkt["server"] \in owed
    /\ pc["http"] \in HttpHolds => sendPkt["http"] \notin flash
    /\ pc["http"] \in HttpHolds \ {"okRelock", "posted"} => sendPkt["http"] \in owed
    /\ \A p \in Names(queue) \ owed :
          pc["http"] \in {"okRelock", "posted"} /\ p = sendPkt["http"]

-----------------------------------------------------------------------------
(* Where a thread goes on after WaitLock.                                    *)
LEMMA LockLabels ==
    ASSUME PcOK, NEW t \in Threads, pc[t] \in DOMAIN Got
    PROVE  \/ t = "server" /\ pc[t] = "addLock"     /\ Got[pc[t]] = "add"
                           /\ TimedOut[pc[t]] = "addRefused"
           \/ t = "server" /\ pc[t] = "addRelock"   /\ Got[pc[t]] = "addTail"
                           /\ TimedOut[pc[t]] = "addUnlock"
           \/ t = "server" /\ pc[t] = "replaceLock" /\ Got[pc[t]] = "replace"
                           /\ TimedOut[pc[t]] = "dropped"
           \/ t = "http"   /\ pc[t] = "procLock"    /\ Got[pc[t]] = "expire"
                           /\ TimedOut[pc[t]] = "giveUp"
           \/ t = "http"   /\ pc[t] = "expRelock"   /\ Got[pc[t]] = "expire"
                           /\ TimedOut[pc[t]] = "ready"
           \/ t = "http"   /\ pc[t] = "okRelock"    /\ Got[pc[t]] = "posted"
                           /\ TimedOut[pc[t]] = "finish"
           \/ t = "http"   /\ pc[t] = "failRelock"  /\ Got[pc[t]] = "failed"
                           /\ TimedOut[pc[t]] = "finish"
           \/ t = "http"   /\ pc[t] = "evictRelock" /\ Got[pc[t]] = "finish"
                           /\ TimedOut[pc[t]] = "finish"
<1>1. DOMAIN Got = {"addLock", "addRelock", "replaceLock", "procLock",
                    "expRelock", "okRelock", "failRelock", "evictRelock"}
  BY DEF Got
<1> QED
  BY <1>1 DEF PcOK, Threads, HttpLabels, ServerLabels, Handing, Got,
     TimedOut

LEMMA PostLabels ==
    /\ DOMAIN Posting = {"post", "batchPost", "emPost", "directPost"}
    /\ Posting["post"] = "posting" /\ Posting["batchPost"] = "batchPosting"
    /\ Posting["emPost"] = "emPosting" /\ Posting["directPost"] = "directPosting"
BY DEF Posting

(* The item at the head, and the queue without it. *)
LEMMA QueueHead ==
    ASSUME QueueOK, queue # <<>>
    PROVE  /\ queue[1].pkt \in Packets
           /\ queue[1].retry \in 0 .. HTTP_QUEUE_MAX_RETRIES
           /\ Tail(queue) \in Seq(Items)
           /\ Len(Tail(queue)) = Len(queue) - 1
           /\ Len(queue) \in Nat \ {0}
<1>1. queue \in Seq(Items)
  BY DEF QueueOK
<1>2. Len(queue) \in Nat \ {0}
  BY <1>1, EmptySeq
<1>3. queue[1] \in Items
  BY <1>1, <1>2, ElementOfSeq
<1>4. Tail(queue) \in Seq(Items) /\ Len(Tail(queue)) = Len(queue) - 1
  BY <1>1, HeadTailProperties
<1> QED
  BY <1>2, <1>3, <1>4 DEF Items

LEMMA HeadRemoved ==
    ASSUME QueueOK, RemoveHead
    PROVE  /\ queue' \in Seq(Items)
           /\ Len(queue') <= Len(queue)
           /\ queue # <<>> => Len(queue') = Len(queue) - 1
           /\ queue' # <<>> => queue'[1].pkt \in Packets
<1>1. CASE queue = <<>>
  <2>1. queue' = <<>> /\ Len(queue) = 0
    BY <1>1, EmptySeq DEF RemoveHead
  <2> QED
    BY <1>1, <2>1, EmptySeq
<1>2. CASE queue # <<>>
  <2>1. queue' \in Seq(Items) /\ Len(queue') = Len(queue) - 1
    BY <1>2, QueueHead DEF RemoveHead
  <2>2. queue' # <<>> => queue'[1] \in Items
    BY <2>1, EmptySeq, ElementOfSeq
  <2> QED
    BY <1>2, <2>1, <2>2, QueueHead DEF Items
<1> QED
  BY <1>1, <1>2

LEMMA Added ==
    ASSUME QueueOK, NEW p \in Packets
    PROVE  /\ Append(queue, Item(p)) \in Seq(Items)
           /\ Len(Append(queue, Item(p))) = Len(queue) + 1
<1>1. Item(p) \in Items
  BY QueueAssumption DEF Item, Items
<1> QED
  BY <1>1, AppendProperties DEF QueueOK

LEMMA Replaced ==
    ASSUME QueueOK, NEW e \in Items, NEW i \in DOMAIN queue
    PROVE  /\ [queue EXCEPT ![i] = e] \in Seq(Items)
           /\ Len([queue EXCEPT ![i] = e]) = Len(queue)
<1>1. queue \in Seq(Items) /\ i \in 1 .. Len(queue)
  BY LenProperties DEF QueueOK
<1> QED
  BY <1>1, ExceptSeq

(* The threads stay in their code. *)
LEMMA PcStep ==
    ASSUME PcOK, Next
    PROVE  PcOK'
<1> USE DEF PcOK, Threads, HttpLabels, ServerLabels, Handing
<1> USE DEF Go, At, SendEnds, ServerDone, TakeHead, Unlock, RemoveHead,
        Hand, Item, HeadTries, flags, lock, locals
<1>1. ASSUME NEW t \in Threads, LockTest(t) \/ LockTake(t) \/ LockTimeout(t)
      PROVE  PcOK'
  BY <1>1, LockLabels DEF LockTest, LockTake, LockTimeout
<1>2. ASSUME NEW t \in Threads, SendBegins(t)
      PROVE  PcOK'
  BY <1>2, PostLabels DEF SendBegins
<1>3. CASE \/ StoreEvicted("http", "storeExpired", "expRelock")
           \/ StoreEvicted("http", "storeFailed", "evictRelock")
           \/ StoreEvicted("server", "storeOldest", "addRelock")
  BY <1>3 DEF StoreEvicted
<1>4. CASE \/ WatchdogArms \/ WatchdogFires \/ WatchdogRests \/ ProcessEnter
           \/ ProcessClaim \/ GiveUp
  BY <1>4, PostLabels DEF WatchdogArms, WatchdogFires, WatchdogRests,
     ProcessEnter, ProcessClaim, GiveUp
<1>5. CASE \/ ExpireHead \/ ExpireDone \/ NothingToPost \/ StartBurst
  BY <1>5, PostLabels DEF ExpireHead, ExpireDone, NothingToPost, StartBurst
<1>6. CASE \/ PostSucceeds \/ PostFails
  BY <1>6, PostLabels DEF PostSucceeds, PostFails
<1>7. CASE \/ Posted \/ Failed \/ Finish
  BY <1>7, PostLabels DEF Posted, Failed, Finish
<1>8. CASE \/ AddFull \/ AddItem \/ AddUnlock \/ AddRefused
  BY <1>8, PostLabels DEF AddFull, AddItem, AddUnlock, AddRefused
<1>9. CASE \/ DirectEnds \/ ReplaceLatestNormal \/ ReplaceDropped
  BY <1>9, PostLabels DEF DirectEnds, ReplaceLatestNormal, ReplaceDropped
<1>10. CASE \/ BatchCall \/ BatchSucceeds \/ BatchFails
  BY <1>10, PostLabels DEF BatchCall, BatchSucceeds, BatchFails
<1>11. CASE \/ EmergencyClear \/ AbortSend \/ EmergencyEnds
  BY <1>11, PostLabels DEF EmergencyClear, AbortSend, EmergencyEnds
<1>12. ASSUME NEW p \in Packets, AddCall(p) \/ ReplaceCall(p) \/ Emergency(p)
      PROVE  PcOK'
  BY <1>12 DEF AddCall, ReplaceCall, Emergency
<1> QED
  BY <1>1, <1>2, <1>3, <1>4, <1>5, <1>6, <1>7, <1>8, <1>9, <1>10, <1>11,
     <1>12
  DEF Next, HttpStep, ServerStep, ServerCall, Threads

(* Flags. *)
LEMMA FlagsStep ==
    ASSUME PcOK, FlagsOK, Next
    PROVE  FlagsOK'
<1> USE DEF FlagsOK
<1> USE DEF Go, At, SendEnds, ServerDone, TakeHead, Unlock, RemoveHead,
        Hand, Item, HeadTries, flags, lock, locals
<1>1. ASSUME NEW t \in Threads, LockTest(t) \/ LockTake(t) \/ LockTimeout(t)
      PROVE  FlagsOK'
  BY <1>1, LockLabels DEF LockTest, LockTake, LockTimeout
<1>2. ASSUME NEW t \in Threads, SendBegins(t)
      PROVE  FlagsOK'
  BY <1>2, PostLabels DEF SendBegins
<1>3. CASE \/ StoreEvicted("http", "storeExpired", "expRelock")
           \/ StoreEvicted("http", "storeFailed", "evictRelock")
           \/ StoreEvicted("server", "storeOldest", "addRelock")
  BY <1>3 DEF StoreEvicted
<1>4. CASE \/ WatchdogArms \/ WatchdogFires \/ WatchdogRests \/ ProcessEnter
           \/ ProcessClaim \/ GiveUp
  BY <1>4, PostLabels DEF WatchdogArms, WatchdogFires, WatchdogRests,
     ProcessEnter, ProcessClaim, GiveUp
<1>5. CASE \/ ExpireHead \/ ExpireDone \/ NothingToPost \/ StartBurst
  BY <1>5, PostLabels DEF ExpireHead, ExpireDone, NothingToPost, StartBurst
<1>6. CASE \/ PostSucceeds \/ PostFails
  BY <1>6, PostLabels DEF PostSucceeds, PostFails
<1>7. CASE \/ Posted \/ Failed \/ Finish
  BY <1>7, PostLabels DEF Posted, Failed, Finish
<1>8. CASE \/ AddFull \/ AddItem \/ AddUnlock \/ AddRefused
  BY <1>8, PostLabels DEF AddFull, AddItem, AddUnlock, AddRefused
<1>9. CASE \/ DirectEnds \/ ReplaceLatestNormal \/ ReplaceDropped
  BY <1>9, PostLabels DEF DirectEnds, ReplaceLatestNormal, ReplaceDropped
<1>10. CASE \/ BatchCall \/ BatchSucceeds \/ BatchFails
  BY <1>10, PostLabels DEF BatchCall, BatchSucceeds, BatchFails
<1>11. CASE \/ EmergencyClear \/ AbortSend \/ EmergencyEnds
  BY <1>11, PostLabels DEF EmergencyClear, AbortSend, EmergencyEnds
<1>12. ASSUME NEW p \in Packets, AddCall(p) \/ ReplaceCall(p) \/ Emergency(p)
      PROVE  FlagsOK'
  BY <1>12 DEF AddCall, ReplaceCall, Emergency
<1> QED
  BY <1>1, <1>2, <1>3, <1>4, <1>5, <1>6, <1>7, <1>8, <1>9, <1>10, <1>11,
     <1>12
  DEF Next, HttpStep, ServerStep, ServerCall, Threads

(* Packets. *)
LEMMA PacketsStep ==
    ASSUME PcOK, PacketsInv, QueueInv, Next
    PROVE  PacketsInv'
<1> USE PktAssumption DEF PacketsInv, PacketsOK, QueueInv, QueueOK, PcOK, Threads, HttpLabels, ServerLabels, Handing, HttpHolds, Packets
<1> USE DEF Go, At, SendEnds, ServerDone, TakeHead, Unlock, Hand,
        Item, HeadTries, flags, lock, locals, InUse, NormalPending, Queued
<1>1. ASSUME NEW t \in Threads, LockTest(t) \/ LockTake(t) \/ LockTimeout(t)
      PROVE  PacketsInv'
  BY <1>1, LockLabels DEF LockTest, LockTake, LockTimeout
<1>2. ASSUME NEW t \in Threads, SendBegins(t)
      PROVE  PacketsInv'
  BY <1>2, PostLabels DEF SendBegins
<1>3. CASE \/ StoreEvicted("http", "storeExpired", "expRelock")
           \/ StoreEvicted("http", "storeFailed", "evictRelock")
           \/ StoreEvicted("server", "storeOldest", "addRelock")
  BY <1>3 DEF StoreEvicted
<1>4. CASE \/ WatchdogArms \/ WatchdogFires \/ WatchdogRests \/ ProcessEnter
           \/ ProcessClaim \/ GiveUp
  BY <1>4, PostLabels, QueueHead, HeadRemoved DEF WatchdogArms,
     WatchdogFires, WatchdogRests, ProcessEnter, ProcessClaim, GiveUp
<1>5. CASE ExpireHead
  BY <1>5, PostLabels, QueueHead, HeadRemoved DEF ExpireHead
<1>6. CASE \/ ExpireDone \/ NothingToPost
  BY <1>6, PostLabels, QueueHead, HeadRemoved DEF ExpireDone, NothingToPost
<1>7. CASE StartBurst
  BY <1>7, PostLabels, QueueHead, HeadRemoved DEF StartBurst
<1>8. CASE \/ PostSucceeds \/ PostFails
  BY <1>8, PostLabels, QueueHead, HeadRemoved DEF PostSucceeds, PostFails
<1>9. CASE Posted
  BY <1>9, PostLabels, QueueHead, HeadRemoved DEF Posted
<1>10. CASE Failed
  BY <1>10, PostLabels, QueueHead, HeadRemoved DEF Failed
<1>11. CASE Finish
  BY <1>11, PostLabels, QueueHead, HeadRemoved DEF Finish
<1>12. CASE AddFull
  <2>1. queue # <<>>
    BY <1>12, EmptySeq, QueueAssumption DEF AddFull
  <2> QED
    BY <1>12, <2>1, QueueHead DEF AddFull
<1>13. CASE AddItem
  BY <1>13, PostLabels, QueueHead, HeadRemoved DEF AddItem
<1>14. CASE \/ AddUnlock \/ AddRefused
  BY <1>14, PostLabels, QueueHead, HeadRemoved DEF AddUnlock, AddRefused
<1>15. CASE \/ DirectEnds \/ ReplaceLatestNormal \/ ReplaceDropped
  BY <1>15, PostLabels, QueueHead, HeadRemoved DEF DirectEnds,
     ReplaceLatestNormal, ReplaceDropped
<1>16. CASE \/ BatchCall \/ BatchSucceeds \/ BatchFails
  BY <1>16, PostLabels, QueueHead, HeadRemoved DEF BatchCall, BatchSucceeds,
     BatchFails
<1>17. CASE \/ EmergencyClear \/ AbortSend \/ EmergencyEnds
  BY <1>17, PostLabels, QueueHead, HeadRemoved DEF EmergencyClear, AbortSend,
     EmergencyEnds
<1>18. ASSUME NEW p \in Packets, AddCall(p) \/ ReplaceCall(p) \/ Emergency(p)
      PROVE  PacketsInv'
  BY <1>18 DEF AddCall, ReplaceCall, Emergency
<1> QED
  BY <1>1, <1>2, <1>3, <1>4, <1>5, <1>6, <1>7, <1>8, <1>9, <1>10, <1>11,
     <1>12, <1>13, <1>14, <1>15, <1>16, <1>17, <1>18
  DEF Next, HttpStep, ServerStep, ServerCall, Threads

(* Queue. *)
LEMMA QueueStep ==
    ASSUME PcOK, PacketsInv, QueueInv, Next
    PROVE  QueueInv'
<1> USE QueueAssumption DEF QueueInv, QueueOK, PcOK, Threads, HttpLabels, ServerLabels, Handing
<1> USE DEF Go, At, SendEnds, ServerDone, TakeHead, Unlock, Hand,
        HeadTries, flags, lock, locals
<1>1. ASSUME NEW t \in Threads, LockTest(t) \/ LockTake(t) \/ LockTimeout(t)
      PROVE  QueueInv'
  BY <1>1, LockLabels DEF LockTest, LockTake, LockTimeout
<1>2. ASSUME NEW t \in Threads, SendBegins(t)
      PROVE  QueueInv'
  BY <1>2, PostLabels DEF SendBegins
<1>3. CASE \/ StoreEvicted("http", "storeExpired", "expRelock")
           \/ StoreEvicted("http", "storeFailed", "evictRelock")
           \/ StoreEvicted("server", "storeOldest", "addRelock")
  BY <1>3 DEF StoreEvicted
<1>4. CASE \/ WatchdogArms \/ WatchdogFires \/ WatchdogRests \/ ProcessEnter
           \/ ProcessClaim \/ GiveUp
  BY <1>4, PostLabels, QueueHead, HeadRemoved DEF WatchdogArms,
     WatchdogFires, WatchdogRests, ProcessEnter, ProcessClaim, GiveUp
<1>5. CASE ExpireHead
  BY <1>5, PostLabels, QueueHead, HeadRemoved DEF ExpireHead
<1>6. CASE \/ ExpireDone \/ NothingToPost
  BY <1>6, PostLabels, QueueHead, HeadRemoved DEF ExpireDone, NothingToPost
<1>7. CASE StartBurst
  BY <1>7, PostLabels, QueueHead, HeadRemoved DEF StartBurst
<1>8. CASE \/ PostSucceeds \/ PostFails
  BY <1>8, PostLabels, QueueHead, HeadRemoved DEF PostSucceeds, PostFails
<1>9. CASE Posted
  BY <1>9, PostLabels, QueueHead, HeadRemoved DEF Posted
<1>10. CASE Failed
  <2>1. queue' \in Seq(Items) /\ Len(queue') <= Len(queue)
    <3>1. CASE RemoveHead
      BY <3>1, HeadRemoved
    <3>2. ASSUME NEW n \in HeadTries, n < HTTP_QUEUE_MAX_RETRIES,
                 queue' = IF queue = <<>> THEN queue
                          ELSE [queue EXCEPT ![1].retry = n]
          PROVE  queue' \in Seq(Items) /\ Len(queue') <= Len(queue)
      <4>1. CASE queue = <<>>
        BY <3>2, <4>1
      <4>2. CASE queue # <<>>
        <5> DEFINE e == [queue[1] EXCEPT !.retry = n]
        <5>1. queue' = [queue EXCEPT ![1] = e]
          BY <3>2, <4>2
        <5>2. queue[1] \in Items /\ 1 \in DOMAIN queue
          BY <4>2, QueueHead, ElementOfSeq, LenProperties
        <5>3. n \in 0 .. HTTP_QUEUE_MAX_RETRIES
          BY <3>2, <4>2, QueueHead
        <5>4. e \in Items
          BY <5>2, <5>3 DEF Items
        <5> HIDE DEF e
        <5> QED
          BY <5>1, <5>2, <5>4, Replaced
      <4> QED
        BY <4>1, <4>2
    <3> QED
      BY <1>10, <3>1, <3>2 DEF Failed
  <2> QED
    BY <1>10, <2>1 DEF Failed
<1>11. CASE Finish
  BY <1>11, PostLabels, QueueHead, HeadRemoved DEF Finish
<1>12. CASE AddFull
  <2>1. queue # <<>>
    BY <1>12, EmptySeq, QueueAssumption DEF AddFull
  <2> QED
    BY <1>12, <2>1, HeadRemoved DEF AddFull
<1>13. CASE AddItem
  <2>1. sendPkt["server"] \in Packets /\ Len(queue) < HTTP_QUEUE_SIZE
    BY <1>13 DEF AddItem, PacketsInv
  <2> QED
    BY <1>13, <2>1, Added DEF AddItem
<1>14. CASE \/ AddUnlock \/ AddRefused
  BY <1>14, PostLabels, QueueHead, HeadRemoved DEF AddUnlock, AddRefused
<1>15. CASE DirectEnds \/ ReplaceDropped
  BY <1>15, PostLabels DEF DirectEnds, ReplaceDropped
<1>19. CASE ReplaceLatestNormal
  <2>1. Item(sendPkt["server"]) \in Items
    BY <1>19 DEF ReplaceLatestNormal, PacketsInv, Items, Item
  <2>2. queue' \in Seq(Items) /\ Len(queue') = Len(queue)
    <3> DEFINE e == Item(sendPkt["server"])
    <3>1. \/ queue' = queue
          \/ \E i \in DOMAIN queue : queue' = [queue EXCEPT ![i] = e]
      BY <1>19 DEF ReplaceLatestNormal
    <3> HIDE DEF e
    <3> QED
      BY <2>1, <3>1, Replaced DEF e
  <2> QED
    BY <1>19, <2>2 DEF ReplaceLatestNormal
<1>16. CASE \/ BatchCall \/ BatchSucceeds \/ BatchFails
  BY <1>16, PostLabels, QueueHead, HeadRemoved DEF BatchCall, BatchSucceeds,
     BatchFails
<1>17. CASE \/ EmergencyClear \/ AbortSend \/ EmergencyEnds
  BY <1>17, PostLabels, QueueHead, HeadRemoved DEF EmergencyClear, AbortSend,
     EmergencyEnds
<1>18. ASSUME NEW p \in Packets, AddCall(p) \/ ReplaceCall(p) \/ Emergency(p)
      PROVE  QueueInv'
  BY <1>18 DEF AddCall, ReplaceCall, Emergency
<1> QED
  BY <1>1, <1>2, <1>3, <1>4, <1>5, <1>6, <1>7, <1>8, <1>9, <1>10, <1>11,
     <1>12, <1>13, <1>14, <1>15, <1>16, <1>17, <1>18, <1>19
  DEF Next, HttpStep, ServerStep, ServerCall, Threads

(* What the threads know of the lock stays sets of threads. *)
LEMMA LockSetsStep ==
    ASSUME LockSetsOK, Next
    PROVE  LockSetsOK'
<1> USE DEF LockSetsOK, Threads, flags, lock, locals, Unlock, TakeHead
<1>1. ASSUME NEW t \in Threads,
             LockTest(t) \/ LockTake(t) \/ LockTimeout(t) \/ SendBegins(t)
      PROVE  LockSetsOK'
  BY <1>1 DEF LockTest, LockTake, LockTimeout, SendBegins
<1>2. ASSUME HttpStep PROVE LockSetsOK'
  BY <1>1, <1>2
  DEF HttpStep, WatchdogArms, WatchdogFires, WatchdogRests, ProcessEnter,
      ProcessClaim, GiveUp, ExpireHead, ExpireDone, NothingToPost, StartBurst,
      PostSucceeds, PostFails, Posted, Failed, Finish, StoreEvicted
<1>3. ASSUME ServerStep PROVE LockSetsOK'
  BY <1>1, <1>3
  DEF ServerStep, AddFull, AddItem, AddUnlock, AddRefused, DirectEnds,
      ReplaceLatestNormal, ReplaceDropped, BatchSucceeds, BatchFails,
      EmergencyClear, AbortSend, EmergencyEnds, StoreEvicted
<1>4. ASSUME ServerCall \/ BatchCall PROVE LockSetsOK'
  BY <1>4 DEF ServerCall, AddCall, ReplaceCall, Emergency, BatchCall
<1> QED
  BY <1>2, <1>3, <1>4 DEF Next

TypeInv == /\ world \in Worlds
           /\ PcOK /\ FlagsOK /\ PacketsInv /\ QueueInv /\ LockSetsOK

(* The conditions of a run stay what they are.                               *)
LEMMA WorldStays ==
    ASSUME Next
    PROVE  world' = world
<1> USE DEF LockTest, LockTake, LockTimeout, StoreEvicted, SendBegins
<1>1. ASSUME HttpStep PROVE world' = world
  BY <1>1 DEF HttpStep, WatchdogArms, WatchdogFires, WatchdogRests,
     ProcessEnter, ProcessClaim, GiveUp, ExpireHead, ExpireDone, NothingToPost,
     StartBurst, PostSucceeds, PostFails, Posted, Failed, Finish
<1>2. ASSUME ServerStep PROVE world' = world
  BY <1>2 DEF ServerStep, AddFull, AddItem, AddUnlock, AddRefused, DirectEnds,
     ReplaceLatestNormal, ReplaceDropped, BatchSucceeds, BatchFails,
     EmergencyClear, AbortSend, EmergencyEnds
<1>3. ASSUME ServerCall \/ BatchCall PROVE world' = world
  BY <1>3 DEF ServerCall, AddCall, ReplaceCall, Emergency, BatchCall
<1> QED
  BY <1>1, <1>2, <1>3 DEF Next

(* Whatever happens, interrupted lock tests, lock timeouts, aborted and stuck *)
(* posts included, the queue holds packets and never more than               *)
(* HTTP_QUEUE_SIZE of them, and each thread is somewhere in its code.        *)
THEOREM HttpTypeCorrect == Spec => []TypeOK
<1>1. Init => TypeInv
  <2> SUFFICES ASSUME Init PROVE TypeInv
    OBVIOUS
  <2>1. PcOK /\ LockSetsOK
    BY DEF Init, PcOK, LockSetsOK, Threads, HttpLabels, ServerLabels
  <2>2. FlagsOK
    BY DEF Init, FlagsOK
  <2>3. PacketsInv
    BY DEF Init, PacketsInv, PacketsOK, Threads, Handing, HttpHolds
  <2>4. QueueInv
    BY EmptySeq, QueueAssumption DEF Init, QueueInv, QueueOK, Threads
  <2> QED
    BY <2>1, <2>2, <2>3, <2>4 DEF TypeInv, Init
<1>2. TypeInv /\ [Next]_vars => TypeInv'
  <2> SUFFICES ASSUME TypeInv, [Next]_vars PROVE TypeInv'
    OBVIOUS
  <2>1. CASE Next
    BY <2>1, PcStep, FlagsStep, PacketsStep, QueueStep, LockSetsStep, WorldStays
    DEF TypeInv
  <2>2. CASE UNCHANGED vars
    BY <2>2 DEF vars, flags, lock, locals, TypeInv, PcOK, FlagsOK, PacketsInv,
       PacketsOK, QueueInv, QueueOK, LockSetsOK
  <2> QED
    BY <2>1, <2>2
<1>3. TypeInv => TypeOK
  BY DEF TypeInv, TypeOK, PacketsInv, QueueInv, LockSetsOK
<1> QED
  BY <1>1, <1>2, <1>3, PTL DEF Spec

-----------------------------------------------------------------------------
(* The lock.  With no thread preempted between the test and the assignment   *)
(* in HttpQueue_WaitLock, no lock timeout and no reset of busy under a       *)
(* thread's feet, busy is up exactly while a thread is in a critical         *)
(* section.                                                                  *)
LEMMA LockStep ==
    ASSUME Orderly, PcOK, LockSetsOK, LockInv, Next
    PROVE  LockInv'
<1> USE DEF Orderly, LockInv, LockSetsOK, Critical, HttpHolds, PcOK, Threads, HttpLabels,
        ServerLabels, Handing
<1> USE DEF Go, At, SendEnds, ServerDone, TakeHead, Unlock, Hand, flags, lock,
        locals
<1>1. ASSUME NEW t \in Threads, LockTest(t) \/ LockTake(t) \/ LockTimeout(t)
      PROVE  LockInv'
  BY <1>1, LockLabels DEF LockTest, LockTake, LockTimeout
<1>2. ASSUME NEW t \in Threads, SendBegins(t)
      PROVE  LockInv'
  BY <1>2, PostLabels DEF SendBegins
<1>3. CASE \/ StoreEvicted("http", "storeExpired", "expRelock")
           \/ StoreEvicted("http", "storeFailed", "evictRelock")
           \/ StoreEvicted("server", "storeOldest", "addRelock")
  BY <1>3 DEF StoreEvicted
<1>4. CASE \/ WatchdogArms \/ WatchdogFires \/ WatchdogRests \/ ProcessEnter
           \/ ProcessClaim \/ GiveUp
  BY <1>4 DEF WatchdogArms, WatchdogFires, WatchdogRests, ProcessEnter,
     ProcessClaim, GiveUp
<1>5. CASE \/ ExpireHead \/ ExpireDone \/ NothingToPost \/ StartBurst
  BY <1>5 DEF ExpireHead, ExpireDone, NothingToPost, StartBurst
<1>6. CASE \/ PostSucceeds \/ PostFails
  BY <1>6, PostLabels DEF PostSucceeds, PostFails
<1>7. CASE \/ Posted \/ Failed \/ Finish
  BY <1>7 DEF Posted, Failed, Finish
<1>8. CASE \/ AddFull \/ AddItem \/ AddUnlock \/ AddRefused
  BY <1>8 DEF AddFull, AddItem, AddUnlock, AddRefused
<1>9. CASE \/ DirectEnds \/ ReplaceLatestNormal \/ ReplaceDropped
  BY <1>9, PostLabels DEF DirectEnds, ReplaceLatestNormal, ReplaceDropped
<1>10. CASE \/ BatchCall \/ BatchSucceeds \/ BatchFails
  BY <1>10, PostLabels DEF BatchCall, BatchSucceeds, BatchFails
<1>11. CASE \/ EmergencyClear \/ AbortSend \/ EmergencyEnds
  BY <1>11, PostLabels DEF EmergencyClear, AbortSend, EmergencyEnds
<1>12. ASSUME NEW p \in Packets, AddCall(p) \/ ReplaceCall(p) \/ Emergency(p)
      PROVE  LockInv'
  BY <1>12 DEF AddCall, ReplaceCall, Emergency
<1> QED
  BY <1>1, <1>2, <1>3, <1>4, <1>5, <1>6, <1>7, <1>8, <1>9, <1>10, <1>11,
     <1>12
  DEF Next, HttpStep, ServerStep, ServerCall, Threads

(* The lock is held by one thread at a time, as long as no thread loses the  *)
(* CPU between seeing busy clear and setting it, no wait for the lock times  *)
(* out, and neither HttpQueue_AbortSend nor the watchdog clears it under a   *)
(* thread.                                                                   *)
THEOREM LockExcludes == Spec => []MutualExclusion
<1> DEFINE Inv == PcOK /\ LockSetsOK /\ (Orderly => LockInv)
<1>1. Init => Inv
  BY DEF Init, PcOK, LockSetsOK, LockInv, Threads, HttpLabels, ServerLabels,
     Critical
<1>2. Inv /\ [Next]_vars => Inv'
  <2>1. Inv /\ Next => Inv'
    BY PcStep, LockSetsStep, LockStep, WorldStays DEF Orderly
  <2>2. Inv /\ UNCHANGED vars => Inv'
    BY DEF vars, flags, lock, locals, PcOK, LockSetsOK, LockInv, Orderly
  <2> QED
    BY <2>1, <2>2
<1>3. Inv => MutualExclusion
  <2> SUFFICES ASSUME Inv, Orderly PROVE Cardinality(hasLock) <= 1
    BY DEF MutualExclusion
  <2>1. hasLock = {} \/ hasLock = {"http"} \/ hasLock = {"server"}
    BY DEF LockSetsOK, LockInv, Threads
  <2>2. /\ Cardinality({}) = 0
        /\ Cardinality({"http"}) = 1 /\ Cardinality({"server"}) = 1
    BY FS_EmptySet, FS_Singleton
  <2> HIDE DEF Inv
  <2> QED
    BY <2>1, <2>2
<1> QED
  BY <1>1, <1>2, <1>3, PTL DEF Spec

-----------------------------------------------------------------------------
(* The pause.  The emergency's wait ends when both flags are down; with the  *)
(* guards of HttpQueue_Process and sending = 1 in one piece, a thread that   *)
(* is anywhere in the call shows in sending.                                 *)
LEMMA EmergencyStep ==
    ASSUME Undisturbed, PcOK, FlagsOK, EmergencyInv, Next
    PROVE  EmergencyInv'
<1> USE DEF Undisturbed, EmergencyInv, FlagsOK, PcOK, Threads, HttpLabels,
        ServerLabels, Handing
<1> USE DEF Go, At, SendEnds, ServerDone, TakeHead, Unlock, Hand, flags, lock,
        locals
<1>1. ASSUME NEW t \in Threads, LockTest(t) \/ LockTake(t) \/ LockTimeout(t)
      PROVE  EmergencyInv'
  BY <1>1, LockLabels DEF LockTest, LockTake, LockTimeout
<1>2. ASSUME NEW t \in Threads, SendBegins(t)
      PROVE  EmergencyInv'
  BY <1>2, PostLabels DEF SendBegins
<1>3. CASE \/ StoreEvicted("http", "storeExpired", "expRelock")
           \/ StoreEvicted("http", "storeFailed", "evictRelock")
           \/ StoreEvicted("server", "storeOldest", "addRelock")
  BY <1>3 DEF StoreEvicted
<1>4. CASE \/ WatchdogArms \/ WatchdogFires \/ WatchdogRests \/ ProcessEnter
           \/ ProcessClaim \/ GiveUp
  BY <1>4 DEF WatchdogArms, WatchdogFires, WatchdogRests, ProcessEnter,
     ProcessClaim, GiveUp
<1>5. CASE \/ ExpireHead \/ ExpireDone \/ NothingToPost \/ StartBurst
  BY <1>5 DEF ExpireHead, ExpireDone, NothingToPost, StartBurst
<1>6. CASE \/ PostSucceeds \/ PostFails
  BY <1>6, PostLabels DEF PostSucceeds, PostFails
<1>7. CASE \/ Posted \/ Failed \/ Finish
  BY <1>7 DEF Posted, Failed, Finish
<1>8. CASE \/ AddFull \/ AddItem \/ AddUnlock \/ AddRefused
  BY <1>8 DEF AddFull, AddItem, AddUnlock, AddRefused
<1>9. CASE \/ DirectEnds \/ ReplaceLatestNormal \/ ReplaceDropped
  BY <1>9, PostLabels DEF DirectEnds, ReplaceLatestNormal, ReplaceDropped
<1>10. CASE \/ BatchCall \/ BatchSucceeds \/ BatchFails
  BY <1>10, PostLabels DEF BatchCall, BatchSucceeds, BatchFails
<1>11. CASE \/ EmergencyClear \/ AbortSend \/ EmergencyEnds
  BY <1>11, PostLabels DEF EmergencyClear, AbortSend, EmergencyEnds
<1>12. ASSUME NEW p \in Packets, AddCall(p) \/ ReplaceCall(p) \/ Emergency(p)
      PROVE  EmergencyInv'
  BY <1>12 DEF AddCall, ReplaceCall, Emergency
<1> QED
  BY <1>1, <1>2, <1>3, <1>4, <1>5, <1>6, <1>7, <1>8, <1>9, <1>10, <1>11,
     <1>12
  DEF Next, HttpStep, ServerStep, ServerCall, Threads

(* handleCriticalPackets waits for both flags so that the emergency packet   *)
(* is the only one being posted: this is so as long as the HTTP thread is    *)
(* not preempted between its guards and sending = 1, and nothing clears the  *)
(* flags of a post under way.  It needs nothing of the lock.                 *)
THEOREM EmergencyAlone == Spec => []EmergencyPostsAlone
<1> DEFINE Inv == PcOK /\ FlagsOK /\ (Undisturbed => EmergencyInv)
<1>1. Init => Inv
  BY DEF Init, PcOK, FlagsOK, EmergencyInv, Threads, HttpLabels, ServerLabels
<1>2. Inv /\ [Next]_vars => Inv'
  <2>1. Inv /\ Next => Inv'
    BY PcStep, FlagsStep, EmergencyStep, WorldStays DEF Undisturbed
  <2>2. Inv /\ UNCHANGED vars => Inv'
    BY DEF vars, flags, lock, locals, PcOK, FlagsOK, EmergencyInv, Undisturbed
  <2> QED
    BY <2>1, <2>2
<1>3. Inv => EmergencyPostsAlone
  BY DEF EmergencyInv, EmergencyPostsAlone, At
<1> QED
  BY <1>1, <1>2, <1>3, PTL DEF Spec

(* The two together: at the queue and at the modem the threads keep out of    *)
(* each other's way.                                                         *)
THEOREM QueueThreadsExclude == Spec => []ThreadsExclude
<1>1. MutualExclusion /\ EmergencyPostsAlone => ThreadsExclude
  BY DEF ThreadsExclude
<1> QED
  BY <1>1, LockExcludes, EmergencyAlone, PTL

-----------------------------------------------------------------------------
(* What the operations on the queue do to its packets.                       *)
LEMMA NamesOf ==
    ASSUME QueueOK
    PROVE  /\ Names(queue) \subseteq Packets
           /\ DOMAIN queue = 1 .. Len(queue) /\ Len(queue) \in Nat
           /\ queue # <<>> => 1 \in DOMAIN queue
<1>1. DOMAIN queue = 1 .. Len(queue) /\ Len(queue) \in Nat
  BY LenProperties DEF QueueOK
<1>2. \A i \in DOMAIN queue : queue[i] \in Items
  BY <1>1, ElementOfSeq DEF QueueOK
<1>3. queue # <<>> => Len(queue) # 0
  BY EmptySeq DEF QueueOK
<1> QED
  BY <1>1, <1>2, <1>3 DEF Names, Items

LEMMA HeadTaken ==
    ASSUME QueueOK, Single(queue), RemoveHead
    PROVE  /\ Single(queue')
           /\ queue # <<>> => Names(queue') = Names(queue) \ {queue[1].pkt}
           /\ queue = <<>> => queue' = queue
           /\ \A x : FirstOnly(queue, x) => x \notin Names(queue') /\ FirstOnly(queue', x)
           /\ queue' # <<>> => queue'[1].pkt \in Names(queue')
<1>1. CASE queue = <<>>
  <2>1. queue' = queue /\ DOMAIN queue = {}
    BY <1>1, EmptySeq DEF RemoveHead
  <2> QED
    BY <1>1, <2>1 DEF Names, Single, FirstOnly
<1>2. CASE queue # <<>>
  <2>1. DOMAIN queue = 1 .. Len(queue) /\ Len(queue) \in Nat /\ 1 \in DOMAIN queue
    BY <1>2, NamesOf
  <2>2. /\ queue' = Tail(queue) /\ DOMAIN queue' = 1 .. Len(queue) - 1
        /\ \A i \in 1 .. Len(queue) - 1 : queue'[i] = queue[i + 1]
        /\ queue' \in Seq(Items) /\ Len(queue') = Len(queue) - 1
    BY <1>2, <2>1, HeadTailProperties, LenProperties DEF RemoveHead, QueueOK
  <2>3. Single(queue')
    BY <2>1, <2>2 DEF Single
  <2>4. \A i \in DOMAIN queue : i # 1 => i - 1 \in DOMAIN queue' /\ queue'[i - 1] = queue[i]
    BY <2>1, <2>2
  <2>5. Names(queue') = Names(queue) \ {queue[1].pkt}
    <3>1. \A i \in DOMAIN queue' : i + 1 \in DOMAIN queue /\ queue'[i] = queue[i + 1] /\ i + 1 # 1
      BY <2>1, <2>2
    <3> QED
      BY <2>1, <2>4, <3>1 DEF Names, Single
  <2>6. ASSUME NEW x, FirstOnly(queue, x) PROVE x \notin Names(queue') /\ FirstOnly(queue', x)
    BY <2>1, <2>2, <2>6 DEF Names, FirstOnly
  <2>7. queue' # <<>> => 1 \in DOMAIN queue'
    BY <2>2, EmptySeq
  <2> QED
    BY <1>2, <2>3, <2>5, <2>6, <2>7 DEF Names
<1> QED
  BY <1>1, <1>2

LEMMA ItemAppended ==
    ASSUME QueueOK, Single(queue), NEW p \in Packets \ Names(queue),
           queue' = Append(queue, Item(p))
    PROVE  /\ Single(queue') /\ Names(queue') = Names(queue) \cup {p}
           /\ \A x : FirstOnly(queue, x) /\ x # p => FirstOnly(queue', x)
           /\ queue # <<>> => queue' # <<>> /\ queue'[1] = queue[1]
<1>1. DOMAIN queue = 1 .. Len(queue) /\ Len(queue) \in Nat
  BY NamesOf
<1>2. Item(p) \in Items /\ Item(p).pkt = p
  BY QueueAssumption DEF Item, Items
<1>3. /\ DOMAIN queue' = 1 .. Len(queue) + 1 /\ queue'[Len(queue) + 1] = Item(p)
      /\ \A i \in 1 .. Len(queue) : queue'[i] = queue[i]
      /\ queue' \in Seq(Items) /\ Len(queue') = Len(queue) + 1
  BY <1>1, <1>2, AppendProperties, LenProperties DEF QueueOK
<1>4. \A i \in DOMAIN queue : i \in DOMAIN queue' /\ queue'[i] = queue[i]
  BY <1>1, <1>3
<1>5. \A i \in DOMAIN queue' : i \in DOMAIN queue \/ i = Len(queue) + 1
  BY <1>1, <1>3
<1>6. Len(queue) + 1 \in DOMAIN queue'
  BY <1>1, <1>3
<1>7. Single(queue')
  BY <1>2, <1>3, <1>4, <1>5 DEF Single, Names
<1>8. Names(queue') = Names(queue) \cup {p}
  BY <1>2, <1>3, <1>4, <1>5, <1>6 DEF Names
<1>9. \A x : FirstOnly(queue, x) /\ x # p => FirstOnly(queue', x)
  BY <1>2, <1>3, <1>4, <1>5 DEF FirstOnly
<1>10. queue # <<>> => queue' # <<>> /\ queue'[1] = queue[1]
  BY <1>1, <1>3, <1>4, EmptySeq DEF QueueOK
<1> QED
  BY <1>7, <1>8, <1>9, <1>10

LEMMA ItemReplaced ==
    ASSUME QueueOK, Single(queue), NEW p \in Packets \ Names(queue), NEW i \in DOMAIN queue,
           queue' = [queue EXCEPT ![i] = Item(p)]
    PROVE  /\ Single(queue') /\ Names(queue') \subseteq Names(queue) \cup {p}
           /\ \A x : FirstOnly(queue, x) /\ x # p => FirstOnly(queue', x)
<1>1. Item(p).pkt = p
  BY DEF Item
<1>2. /\ DOMAIN queue' = DOMAIN queue /\ queue'[i] = Item(p)
      /\ \A j \in DOMAIN queue : j # i => queue'[j] = queue[j]
  OBVIOUS
<1>3. Single(queue')
  BY <1>1, <1>2 DEF Single, Names
<1> QED
  BY <1>1, <1>2, <1>3 DEF Names, FirstOnly

\* The retries of the head go up.
LEMMA HeadRetried ==
    ASSUME QueueOK, Single(queue), NEW n,
           queue' = IF queue = <<>> THEN queue ELSE [queue EXCEPT ![1].retry = n]
    PROVE  /\ Single(queue') /\ Names(queue') = Names(queue)
           /\ \A x : FirstOnly(queue, x) => FirstOnly(queue', x)
<1>1. CASE queue = <<>>
  BY <1>1
<1>2. CASE queue # <<>>
  <2>1. 1 \in DOMAIN queue /\ queue[1] \in Items
    BY <1>2, NamesOf, ElementOfSeq DEF QueueOK
  <2>2. DOMAIN queue' = DOMAIN queue
    BY <1>2
  <2>3. queue'[1] = [queue[1] EXCEPT !.retry = n]
    BY <1>2, <2>1
  <2>4. queue'[1].pkt = queue[1].pkt
    BY <2>1, <2>3 DEF Items
  <2>5. \A j \in DOMAIN queue : j # 1 => queue'[j] = queue[j]
    BY <1>2, <2>1
  <2>6. \A j \in DOMAIN queue : queue'[j].pkt = queue[j].pkt
    BY <2>4, <2>5
  <2> QED
    BY <2>2, <2>6 DEF Single, Names, FirstOnly
<1> QED
  BY <1>1, <1>2

(* Each packet is on its way once.                                           *)
LEMMA OneCopyStep ==
    ASSUME PcOK, PacketsInv, QueueInv, OneCopyInv, Next
    PROVE  OneCopyInv'
<1> USE DEF OneCopyInv, PcOK, Threads, HttpHolds, HttpLabels, ServerLabels, Handing
<1> USE DEF Go, At, SendEnds, ServerDone, TakeHead, Unlock, Hand, flags, lock, locals
<1>a. /\ QueueOK /\ PacketsOK /\ NoPkt \notin Packets /\ Names(queue) \subseteq Packets
      /\ pc["server"] \in Handing => sendPkt["server"] \in Packets
      /\ sendPkt \in [Threads -> Packets \cup {NoPkt}]
      /\ evicted \in [Threads -> Packets \cup {NoPkt}]
  BY NamesOf, PktAssumption DEF PacketsInv, PacketsOK, QueueInv, Packets
<1>1. ASSUME NEW t \in Threads, LockTest(t) \/ LockTake(t) \/ LockTimeout(t)
      PROVE  OneCopyInv'
  BY <1>1, LockLabels DEF LockTest, LockTake, LockTimeout
<1>2. ASSUME NEW t \in Threads, SendBegins(t)
      PROVE  OneCopyInv'
  BY <1>2, PostLabels DEF SendBegins
<1>3. CASE \/ StoreEvicted("http", "storeExpired", "expRelock")
           \/ StoreEvicted("http", "storeFailed", "evictRelock")
           \/ StoreEvicted("server", "storeOldest", "addRelock")
  BY <1>a, <1>3 DEF StoreEvicted
<1>4. CASE \/ WatchdogArms \/ WatchdogFires \/ WatchdogRests \/ ProcessEnter
           \/ ProcessClaim \/ GiveUp
  BY <1>4 DEF WatchdogArms, WatchdogFires, WatchdogRests, ProcessEnter, ProcessClaim,
     GiveUp
<1>5. CASE ExpireHead
  <2>1. queue[1].pkt \in Names(queue)
    BY <1>5, <1>a, NamesOf DEF ExpireHead, Names
  <2> QED
    BY <1>a, <1>5, <2>1, HeadTaken DEF ExpireHead
<1>6. CASE ExpireDone \/ NothingToPost \/ PostSucceeds \/ PostFails
  BY <1>6, PostLabels DEF ExpireDone, NothingToPost, PostSucceeds, PostFails
<1>7. CASE StartBurst
  <2>1. queue[1].pkt \in Names(queue) /\ FirstOnly(queue, queue[1].pkt)
    BY <1>7, <1>a, NamesOf DEF StartBurst, Names, FirstOnly, Single
  <2> QED
    BY <1>a, <1>7, <2>1 DEF StartBurst
<1>8. CASE Posted
  <2>1. /\ Single(queue') /\ Names(queue') \subseteq Names(queue)
        /\ \A x : FirstOnly(queue, x) => FirstOnly(queue', x)
        /\ queue' # <<>> => queue'[1].pkt \in Names(queue') /\ FirstOnly(queue', queue'[1].pkt)
    <3>1. /\ Single(queue') /\ Names(queue') \subseteq Names(queue)
          /\ \A x : FirstOnly(queue, x) => FirstOnly(queue', x)
          /\ queue' # <<>> => queue'[1].pkt \in Names(queue')
      BY <1>a, <1>8, HeadTaken DEF Posted
    <3>2. queue' # <<>> => 1 \in DOMAIN queue'
      <4>1. queue' \in Seq(Items)
        BY <1>a, <1>8, HeadRemoved DEF Posted
      <4> QED
        BY <4>1, EmptySeq, LenProperties
    <3> QED
      BY <3>1, <3>2 DEF FirstOnly, Single
  <2> QED
    BY <1>a, <1>8, <2>1 DEF Posted
<1>9. CASE Failed
  <2>1. CASE RemoveHead /\ evicted' = [evicted EXCEPT !["http"] = sendPkt["http"]]
    BY <1>a, <1>9, <2>1, HeadTaken DEF Failed
  <2>2. CASE UNCHANGED evicted /\ \E n \in HeadTries :
                queue' = IF queue = <<>> THEN queue ELSE [queue EXCEPT ![1].retry = n]
    <3>1. /\ Single(queue') /\ Names(queue') = Names(queue)
          /\ \A x : FirstOnly(queue, x) => FirstOnly(queue', x)
      BY <1>a, <2>2, HeadRetried
    <3> QED
      BY <1>a, <1>9, <2>2, <3>1 DEF Failed
  <2> QED
    BY <1>9, <2>1, <2>2 DEF Failed
<1>10. CASE Finish
  BY <1>a, <1>10 DEF Finish
<1>11. CASE AddFull
  <2>1. queue # <<>> /\ queue[1].pkt \in Names(queue)
    BY <1>11, <1>a, NamesOf, EmptySeq, QueueAssumption DEF AddFull, Names
  <2>2. /\ Single(queue') /\ Names(queue') = Names(queue) \ {queue[1].pkt}
        /\ \A x : FirstOnly(queue, x) => FirstOnly(queue', x)
    BY <1>a, <1>11, <2>1, HeadTaken DEF AddFull
  <2> QED
    BY <1>a, <1>11, <2>1, <2>2 DEF AddFull
<1>12. CASE AddItem
  BY <1>a, <1>12, ItemAppended DEF AddItem
<1>13. CASE AddUnlock \/ AddRefused \/ DirectEnds \/ ReplaceDropped
  BY <1>a, <1>13, PostLabels DEF AddUnlock, AddRefused, DirectEnds, ReplaceDropped
<1>14. CASE ReplaceLatestNormal
  <2>1. \/ UNCHANGED queue
        \/ \E i \in DOMAIN queue : queue' = [queue EXCEPT ![i] = Item(sendPkt["server"])]
    BY <1>14 DEF ReplaceLatestNormal
  <2>2. /\ Single(queue') /\ Names(queue') \subseteq Names(queue) \cup {sendPkt["server"]}
        /\ \A x : FirstOnly(queue, x) /\ x # sendPkt["server"] => FirstOnly(queue', x)
    BY <1>a, <1>14, <2>1, ItemReplaced DEF ReplaceLatestNormal
  <2> QED
    BY <1>a, <1>14, <2>2 DEF ReplaceLatestNormal
<1>15. CASE BatchCall \/ BatchSucceeds \/ BatchFails
  BY <1>15, PostLabels DEF BatchCall, BatchSucceeds, BatchFails
<1>16. CASE EmergencyClear \/ AbortSend \/ EmergencyEnds
  BY <1>a, <1>16, PostLabels DEF EmergencyClear, AbortSend, EmergencyEnds
<1>17. ASSUME NEW p \in Packets, AddCall(p) \/ ReplaceCall(p) \/ Emergency(p)
      PROVE  OneCopyInv'
  <2>1. Queued = Names(queue)
    BY DEF Queued, Names
  <2> QED
    BY <1>a, <1>17, <2>1 DEF AddCall, ReplaceCall, Emergency, InUse
<1> QED
  BY <1>1, <1>2, <1>3, <1>4, <1>5, <1>6, <1>7, <1>8, <1>9, <1>10, <1>11, <1>12, <1>13,
     <1>14, <1>15, <1>16, <1>17
  DEF Next, HttpStep, ServerStep, ServerCall, Threads

(* No packet handed over disappears.                                         *)
LEMMA KeptStep ==
    ASSUME Calm, PcOK, PacketsInv, QueueInv, OneCopyInv, KeptInv, Next
    PROVE  KeptInv'
<1> USE DEF KeptInv, CalmLabels, PcOK, Threads, HttpHolds, HttpLabels, ServerLabels, Handing
<1> USE DEF Go, At, SendEnds, ServerDone, TakeHead, Unlock, Hand, flags, lock, locals
<1>a. /\ QueueOK /\ NoPkt \notin Packets /\ Names(queue) \subseteq Packets /\ Single(queue)
      /\ pc["server"] \in Handing => sendPkt["server"] \in Packets \ Names(queue)
      /\ sendPkt \in [Threads -> Packets \cup {NoPkt}]
      /\ evicted \in [Threads -> Packets \cup {NoPkt}]
      /\ Len(queue) \in Nat /\ owed \subseteq Packets
      /\ queue # <<>> => queue[1].pkt \in Names(queue)
  <2>1. queue # <<>> => queue[1].pkt \in Names(queue)
    BY NamesOf DEF QueueInv, Names
  <2> QED
    BY <2>1, NamesOf, PktAssumption DEF PacketsInv, PacketsOK, QueueInv, OneCopyInv, Packets
<1>b. "full" \notin world /\ "locktimeout" \notin world /\ "replace" \notin world
      /\ "abort" \notin world
  BY DEF Calm
<1>1. ASSUME NEW t \in Threads, LockTest(t) \/ LockTake(t)
      PROVE  KeptInv'
  BY <1>1, LockLabels DEF LockTest, LockTake
<1>2. ASSUME NEW t \in Threads, SendBegins(t)
      PROVE  KeptInv'
  BY <1>2, PostLabels DEF SendBegins
<1>3. CASE \/ StoreEvicted("http", "storeExpired", "expRelock")
           \/ StoreEvicted("http", "storeFailed", "evictRelock")
           \/ StoreEvicted("server", "storeOldest", "addRelock")
  BY <1>a, <1>3 DEF StoreEvicted
<1>4. CASE \/ WatchdogArms \/ WatchdogFires \/ WatchdogRests \/ ProcessEnter
           \/ ProcessClaim \/ GiveUp
  BY <1>4 DEF WatchdogArms, WatchdogFires, WatchdogRests, ProcessEnter, ProcessClaim,
     GiveUp
<1>5. CASE ExpireHead
  <2>1. /\ Names(queue') = Names(queue) \ {queue[1].pkt} /\ Len(queue') <= Len(queue)
        /\ Len(queue') \in Nat
    BY <1>a, <1>5, HeadTaken, HeadRemoved, LenProperties DEF ExpireHead
  <2> QED
    BY <1>a, <1>5, <2>1, QueueAssumption DEF ExpireHead
<1>6. CASE ExpireDone \/ NothingToPost \/ PostSucceeds \/ PostFails
  BY <1>6, PostLabels DEF ExpireDone, NothingToPost, PostSucceeds, PostFails
<1>7. CASE StartBurst
  BY <1>a, <1>7 DEF StartBurst
<1>8. CASE Posted
  <2>1. /\ Names(queue') = Names(queue) \ {queue[1].pkt} /\ Len(queue') <= Len(queue)
        /\ Len(queue') \in Nat /\ queue[1].pkt \notin owed
    BY <1>a, <1>8, HeadTaken, HeadRemoved, LenProperties DEF Posted
  <2> QED
    BY <1>a, <1>8, <2>1, QueueAssumption DEF Posted
<1>9. CASE Failed
  <2>1. CASE RemoveHead /\ evicted' = [evicted EXCEPT !["http"] = sendPkt["http"]]
             /\ pc' = [pc EXCEPT !["http"] = "storeFailed"]
    <3>1. /\ Names(queue') = Names(queue) \ {queue[1].pkt} /\ Len(queue') <= Len(queue)
          /\ Len(queue') \in Nat /\ queue[1].pkt = sendPkt["http"]
      BY <1>a, <1>9, <2>1, HeadTaken, HeadRemoved, LenProperties DEF Failed
    <3> QED
      BY <1>a, <1>9, <2>1, <3>1, QueueAssumption DEF Failed
  <2>2. CASE UNCHANGED evicted /\ pc' = [pc EXCEPT !["http"] = "finish"]
             /\ \E n \in HeadTries :
                  queue' = IF queue = <<>> THEN queue ELSE [queue EXCEPT ![1].retry = n]
    <3>1. Names(queue') = Names(queue)
      BY <1>a, <2>2, HeadRetried
    <3>2. Len(queue') = Len(queue)
      <4>1. DOMAIN queue' = DOMAIN queue
        BY <2>2
      <4>2. queue' \in Seq(Items)
        BY <1>9, QueueStep DEF QueueInv, QueueOK, Next, HttpStep
      <4> QED
        BY <1>a, <4>1, <4>2, LenProperties DEF QueueOK
    <3> QED
      BY <1>a, <1>9, <2>2, <3>1, <3>2 DEF Failed
  <2> QED
    BY <1>9, <2>1, <2>2 DEF Failed
<1>10. CASE Finish
  BY <1>a, <1>10 DEF Finish
<1>11. CASE \/ AddFull \/ AddUnlock \/ AddRefused \/ DirectEnds \/ ReplaceLatestNormal
            \/ ReplaceDropped \/ AbortSend
  <2>1. Len(queue) >= HTTP_QUEUE_SIZE => pc["server"] # "add"
    BY <1>a, QueueAssumption
  <2>2. ~ AddFull
    BY <2>1 DEF AddFull
  <2>3. ~ AddUnlock /\ ~ AddRefused /\ ~ ReplaceLatestNormal /\ ~ ReplaceDropped
    BY DEF AddUnlock, AddRefused, ReplaceLatestNormal, ReplaceDropped
  <2>4. ~ DirectEnds /\ ~ AbortSend
    BY <1>b, PostLabels DEF DirectEnds, AbortSend
  <2> QED
    BY <1>11, <2>2, <2>3, <2>4
<1>12. CASE AddItem
  <2>1. /\ Names(queue') = Names(queue) \cup {sendPkt["server"]}
        /\ queue # <<>> => queue' # <<>> /\ queue'[1] = queue[1]
    BY <1>a, <1>12, ItemAppended DEF AddItem
  <2> QED
    BY <1>a, <1>12, <2>1 DEF AddItem
<1>13. CASE BatchCall \/ BatchSucceeds \/ BatchFails
  BY <1>a, <1>13, PostLabels DEF BatchCall, BatchSucceeds, BatchFails
<1>14. CASE EmergencyClear \/ EmergencyEnds
  BY <1>a, <1>14, PostLabels DEF EmergencyClear, EmergencyEnds
<1>15. ASSUME NEW p \in Packets, AddCall(p) \/ ReplaceCall(p) \/ Emergency(p)
      PROVE  KeptInv'
  BY <1>a, <1>b, <1>15 DEF AddCall, ReplaceCall, Emergency, InUse
<1>16. ASSUME NEW t \in Threads, LockTimeout(t) PROVE KeptInv'
  BY <1>b, <1>16 DEF LockTimeout
<1> QED
  BY <1>1, <1>2, <1>3, <1>4, <1>5, <1>6, <1>7, <1>8, <1>9, <1>10, <1>11, <1>12, <1>13,
     <1>14, <1>15, <1>16
  DEF Next, HttpStep, ServerStep, ServerCall, Threads

(* Nothing that is delivered is kept.                                        *)
LEMMA OwedStep ==
    ASSUME Roomy, PcOK, PacketsInv, QueueInv, OneCopyInv, OwedInv, Next
    PROVE  OwedInv'
<1> USE DEF OwedInv, RoomyLabels, CalmLabels, PcOK, Threads, HttpHolds, HttpLabels,
        ServerLabels, Handing
<1> USE DEF Go, At, SendEnds, ServerDone, TakeHead, Unlock, Hand, flags, lock, locals
<1>a. /\ QueueOK /\ NoPkt \notin Packets /\ Names(queue) \subseteq Packets /\ Single(queue)
      /\ pc["server"] \in Handing
            => sendPkt["server"] \in Packets
                  \ (Names(queue) \cup flash \cup {evicted["http"], sendPkt["http"]})
      /\ sendPkt \in [Threads -> Packets \cup {NoPkt}]
      /\ evicted \in [Threads -> Packets \cup {NoPkt}]
      /\ Len(queue) \in Nat /\ owed \subseteq Packets
      /\ Names(queue) \cap flash = {} /\ evicted["http"] \notin Names(queue)
      /\ pc["http"] \in HttpHolds => FirstOnly(queue, sendPkt["http"])
      /\ pc["http"] \in HttpHolds => sendPkt["http"] \in Packets
      /\ queue # <<>> => queue[1].pkt \in Names(queue)
  <2>1. queue # <<>> => queue[1].pkt \in Names(queue)
    BY NamesOf DEF QueueInv, Names
  <2> QED
    BY <2>1, NamesOf, PktAssumption DEF PacketsInv, PacketsOK, QueueInv, OneCopyInv, Packets
<1>b. "full" \notin world /\ "locktimeout" \notin world
  BY DEF Roomy
<1>1. ASSUME NEW t \in Threads, LockTest(t) \/ LockTake(t)
      PROVE  OwedInv'
  BY <1>1, LockLabels DEF LockTest, LockTake
<1>2. ASSUME NEW t \in Threads, SendBegins(t)
      PROVE  OwedInv'
  BY <1>2, PostLabels DEF SendBegins
<1>3. CASE \/ StoreEvicted("http", "storeExpired", "expRelock")
           \/ StoreEvicted("http", "storeFailed", "evictRelock")
           \/ StoreEvicted("server", "storeOldest", "addRelock")
  BY <1>a, <1>3 DEF StoreEvicted
<1>4. CASE \/ WatchdogArms \/ WatchdogFires \/ WatchdogRests \/ ProcessEnter
           \/ ProcessClaim \/ GiveUp
  BY <1>4 DEF WatchdogArms, WatchdogFires, WatchdogRests, ProcessEnter, ProcessClaim,
     GiveUp
<1>5. CASE ExpireHead
  <2>1. /\ Names(queue') = Names(queue) \ {queue[1].pkt} /\ Len(queue') <= Len(queue)
        /\ Len(queue') \in Nat
    BY <1>a, <1>5, HeadTaken, HeadRemoved, LenProperties DEF ExpireHead
  <2> QED
    BY <1>a, <1>5, <2>1, QueueAssumption DEF ExpireHead
<1>6. CASE ExpireDone \/ NothingToPost \/ PostFails
  BY <1>6, PostLabels DEF ExpireDone, NothingToPost, PostFails
<1>7. CASE StartBurst
  BY <1>a, <1>7 DEF StartBurst
<1>8. CASE PostSucceeds
  BY <1>a, <1>8 DEF PostSucceeds
<1>9. CASE Posted
  <2>1. /\ Names(queue') \subseteq Names(queue) /\ Len(queue') <= Len(queue)
        /\ Len(queue') \in Nat /\ sendPkt["http"] \notin Names(queue')
        /\ queue' # <<>> => queue'[1].pkt \in Names(queue')
    BY <1>a, <1>9, HeadTaken, HeadRemoved, LenProperties DEF Posted
  <2>2. Names(queue') \subseteq owed
    BY <2>1
  <2> QED
    BY <1>a, <1>9, <2>1, <2>2, QueueAssumption DEF Posted
<1>10. CASE Failed
  <2>1. CASE RemoveHead /\ evicted' = [evicted EXCEPT !["http"] = sendPkt["http"]]
             /\ pc' = [pc EXCEPT !["http"] = "storeFailed"]
    <3>1. /\ Names(queue') \subseteq Names(queue) /\ Len(queue') <= Len(queue)
          /\ Len(queue') \in Nat
      BY <1>a, <1>10, <2>1, HeadTaken, HeadRemoved, LenProperties DEF Failed
    <3> QED
      BY <1>a, <1>10, <2>1, <3>1, QueueAssumption DEF Failed
  <2>2. CASE UNCHANGED evicted /\ pc' = [pc EXCEPT !["http"] = "finish"]
             /\ \E n \in HeadTries :
                  queue' = IF queue = <<>> THEN queue ELSE [queue EXCEPT ![1].retry = n]
    <3>1. Names(queue') = Names(queue)
      BY <1>a, <2>2, HeadRetried
    <3>2. Len(queue') = Len(queue)
      <4>1. DOMAIN queue' = DOMAIN queue
        BY <2>2
      <4>2. queue' \in Seq(Items)
        BY <1>10, QueueStep DEF QueueInv, QueueOK, Next, HttpStep
      <4> QED
        BY <1>a, <4>1, <4>2, LenProperties DEF QueueOK
    <3> QED
      BY <1>a, <1>10, <2>2, <3>1, <3>2 DEF Failed
  <2> QED
    BY <1>10, <2>1, <2>2 DEF Failed
<1>11. CASE Finish
  BY <1>a, <1>11 DEF Finish
<1>12. CASE \/ AddFull \/ AddUnlock \/ AddRefused \/ DirectEnds \/ ReplaceDropped
  <2>1. Len(queue) >= HTTP_QUEUE_SIZE => pc["server"] # "add"
    BY <1>a, QueueAssumption
  <2>2. ~ AddFull
    BY <2>1 DEF AddFull
  <2>3. ~ AddUnlock /\ ~ AddRefused /\ ~ ReplaceDropped
    BY DEF AddUnlock, AddRefused, ReplaceDropped
  <2>4. ~ DirectEnds
    BY PostLabels DEF DirectEnds
  <2> QED
    BY <1>12, <2>2, <2>3, <2>4
<1>13. CASE AddItem
  <2>1. Names(queue') = Names(queue) \cup {sendPkt["server"]}
    BY <1>a, <1>13, ItemAppended DEF AddItem
  <2> QED
    BY <1>a, <1>13, <2>1 DEF AddItem
<1>14. CASE ReplaceLatestNormal
  <2>1. CASE UNCHANGED <<owed, queue>>
    BY <1>a, <1>14, <2>1 DEF ReplaceLatestNormal
  <2>2. ASSUME NEW i \in DOMAIN queue,
               owed' = owed \ ({queue[i].pkt} \ {sendPkt["http"]}),
               queue' = [queue EXCEPT ![i] = Item(sendPkt["server"])]
        PROVE  OwedInv'
    <3>1. queue[i].pkt \in Names(queue) /\ Item(sendPkt["server"]).pkt = sendPkt["server"]
      BY DEF Names, Item
    <3>2. Names(queue') \subseteq (Names(queue) \ {queue[i].pkt}) \cup {sendPkt["server"]}
      BY <1>a, <2>2, <3>1 DEF Names, Single
    <3> QED
      BY <1>a, <1>14, <2>2, <3>1, <3>2 DEF ReplaceLatestNormal
  <2> QED
    BY <1>14, <2>1, <2>2 DEF ReplaceLatestNormal
<1>15. CASE BatchCall \/ BatchSucceeds \/ BatchFails
  BY <1>a, <1>15, PostLabels DEF BatchCall, BatchSucceeds, BatchFails
<1>16. CASE EmergencyClear \/ AbortSend \/ EmergencyEnds
  BY <1>a, <1>16, PostLabels DEF EmergencyClear, AbortSend, EmergencyEnds
<1>17. ASSUME NEW p \in Packets, AddCall(p) \/ ReplaceCall(p) \/ Emergency(p)
      PROVE  OwedInv'
  BY <1>a, <1>b, <1>17 DEF AddCall, ReplaceCall, Emergency, InUse
<1>18. ASSUME NEW t \in Threads, LockTimeout(t) PROVE OwedInv'
  BY <1>b, <1>18 DEF LockTimeout
<1> QED
  BY <1>1, <1>2, <1>3, <1>4, <1>5, <1>6, <1>7, <1>8, <1>9, <1>10, <1>11, <1>12, <1>13,
     <1>14, <1>15, <1>16, <1>17, <1>18
  DEF Next, HttpStep, ServerStep, ServerCall, Threads

PlacesInv == /\ PcOK /\ PacketsInv /\ QueueInv /\ OneCopyInv
             /\ Calm => KeptInv
             /\ Roomy => OwedInv

LEMMA PlacesInvariant == Spec => []PlacesInv
<1>1. Init => PlacesInv
  <2> SUFFICES ASSUME Init PROVE PlacesInv
    OBVIOUS
  <2>1. PcOK /\ PacketsInv
    BY DEF Init, PcOK, PacketsInv, PacketsOK, Threads, Handing, HttpHolds, HttpLabels,
       ServerLabels
  <2>2. QueueInv
    BY EmptySeq, QueueAssumption DEF Init, QueueInv, QueueOK, Threads
  <2>3. OneCopyInv /\ KeptInv /\ OwedInv
    BY DEF Init, OneCopyInv, KeptInv, OwedInv, Names, Single, Threads, Handing, HttpHolds,
       CalmLabels, RoomyLabels
  <2> QED
    BY <2>1, <2>2, <2>3 DEF PlacesInv
<1>2. PlacesInv /\ [Next]_vars => PlacesInv'
  <2>1. PlacesInv /\ Next => PlacesInv'
    BY PcStep, PacketsStep, QueueStep, OneCopyStep, KeptStep, OwedStep, WorldStays
    DEF PlacesInv, Calm, Roomy
  <2>2. ASSUME PlacesInv, UNCHANGED vars PROVE PlacesInv'
    BY <2>2 DEF vars, flags, lock, locals, PlacesInv, PcOK, PacketsInv, PacketsOK, QueueInv,
       QueueOK, OneCopyInv, KeptInv, OwedInv, Calm, Roomy
  <2> QED
    BY <2>1, <2>2
<1> QED
  BY <1>1, <1>2, PTL DEF Spec

(* As long as the lock is one, no packet is queued twice or both queued and   *)
(* given to StoreFileToFlash; in a queue that does not fill up, neither is    *)
(* the packet that is being posted; and there, if none is replaced either, no *)
(* packet is in no place at all before it is delivered.                       *)
THEOREM QueueKeepsPackets == Spec => []PacketsKept
<1>1. PlacesInv => PacketsKept
  <2> SUFFICES ASSUME PlacesInv PROVE OneCopy /\ NothingLost
    BY DEF PacketsKept
  <2>1. Queued = Names(queue) /\ \A t \in Threads : t = "http" \/ t = "server"
    BY DEF Queued, Names, Threads
  <2>2. ASSUME Orderly, "full" \notin world, pc["http"] \in HttpHolds
        PROVE  sendPkt["http"] \notin flash \cup {evicted[t] : t \in Threads}
    <3>1. OwedInv /\ sendPkt["http"] \in Packets /\ NoPkt \notin Packets
      BY <2>2, PktAssumption DEF PlacesInv, PacketsInv, Roomy, Orderly, Packets
    <3>2. evicted["http"] = NoPkt /\ evicted["server"] = NoPkt
      BY <2>2, <3>1 DEF OwedInv, HttpHolds
    <3> QED
      BY <2>1, <2>2, <3>1, <3>2 DEF OwedInv
  <2>3. OneCopy
    BY <2>1, <2>2 DEF PlacesInv, OneCopyInv, Single, OneCopy
  <2>4. NothingLost
    BY <2>1 DEF PlacesInv, KeptInv, NothingLost, InHand, Calm, Threads
  <2> QED
    BY <2>3, <2>4
<1> QED
  BY <1>1, PlacesInvariant, PTL

(* No packet is delivered twice, by a post, a batch or an emergency, in a     *)
(* queue that does not fill up and whose lock is one, although the packet     *)
(* stays queued without the lock while it is posted and may be replaced then. *)
THEOREM QueueDeliversOnce == Spec => DeliversOnce
<1>1. PlacesInv /\ [Next]_vars =>
        [Orderly /\ "full" \notin world =>
            /\ PostSucceeds => sendPkt["http"] \in owed
            /\ BatchSucceeds => batch \subseteq owed
            /\ EmergencyEnds => sendPkt["server"] \in owed]_vars
  <2> SUFFICES ASSUME PlacesInv, Orderly, "full" \notin world
               PROVE  /\ PostSucceeds => sendPkt["http"] \in owed
                      /\ BatchSucceeds => batch \subseteq owed
                      /\ EmergencyEnds => sendPkt["server"] \in owed
    OBVIOUS
  <2>1. OwedInv
    BY DEF PlacesInv, Roomy, Orderly
  <2> QED
    BY <2>1, PostLabels DEF OwedInv, HttpHolds, Handing, PostSucceeds, BatchSucceeds,
       EmergencyEnds, SendEnds, At
<1> QED
  BY <1>1, PlacesInvariant, PTL DEF Spec, DeliversOnce

=============================================================================
