------------------------------ MODULE HttpQueue ------------------------------
(***************************************************************************)
(* The queue of packets waiting for an HTTP post (custom/HttpQueue.c) and   *)
(* the two threads that share it.  The server thread adds packets, replaces *)
(* the latest position packet, uploads stored packets (GetBatchData), and   *)
(* posts emergency packets past the queue (handleCriticalPackets).  The     *)
(* HTTP thread runs HttpQueue_Process every 50 ms: it evicts expired items  *)
(* to flash and posts the others.                                           *)
(*                                                                         *)
(* A thread may be preempted between any two actions.  What it does under   *)
(* the lock between two calls is one action.  Flash is the set of packets   *)
(* StoreFileToFlash was given (see BatchStore and BatchUpload for the ring).*)
(* A packet is a name; names are used again once a packet is gone.          *)
(***************************************************************************)
EXTENDS Integers, FiniteSets, Sequences

CONSTANTS
    HTTP_QUEUE_SIZE, HTTP_QUEUE_BURST, HTTP_QUEUE_MAX_RETRIES,
    NormalPkts,  \* position, health and full packets
    AlertPkts,   \* alert packets
    NoPkt,
    Worlds       \* the conditions under which the device may run, sets of Events

Events == { "preempt",    \* a thread loses the CPU between a test and the
                          \* assignment that follows it
            "locktimeout",\* the lock stays taken longer than WaitLock waits
            "full",       \* packets are added to a full queue
            "replace",    \* ReplaceLatestNormal
            "batch",      \* GetBatchData
            "emergency",  \* SOS or tamper
            "abort",      \* HttpQueue_AbortSend, after 3 s of waiting
            "watchdog" }  \* the stuck timeout, 25 s

ASSUME QueueAssumption == /\ HTTP_QUEUE_SIZE \in Nat \ {0}
                          /\ HTTP_QUEUE_BURST \in Nat \ {0}
                          /\ HTTP_QUEUE_MAX_RETRIES \in Nat \ {0}
ASSUME PktAssumption == /\ NormalPkts \cap AlertPkts = {}
                        /\ NoPkt \notin NormalPkts \cup AlertPkts
ASSUME WorldsAssumption == Worlds \subseteq SUBSET Events

Packets == NormalPkts \cup AlertPkts
Slots   == 0 .. HTTP_QUEUE_SIZE - 1
Threads == {"http", "server"}

VARIABLES
    world,     \* the conditions of this run; nothing changes them
    queue,     \* httpQueue's items from head to tail
    busy,      \* httpQueue.busy, the lock
    sending,   \* httpQueue.sending
    isSend,    \* IsSendProcess
    started,   \* httpQueue.queue_send_start_ms # 0
    paused,    \* g_httpQueuePaused
    flash,     \* packets given to StoreFileToFlash and not uploaded
    pc,        \* where each thread is
    saw,       \* threads that have seen the lock free and not taken it yet
    hasLock,   \* threads that took the lock and have not released it
    sendPkt,   \* the packet each thread posts: sendData, or the server's string
    evicted,   \* the packet each thread is about to give to StoreFileToFlash
    batch,     \* the stored packets being uploaded
    sent,      \* items posted in this call of HttpQueue_Process
    owed       \* packets handed over for delivery and not delivered

flags  == <<sending, isSend, started, paused>>
lock   == <<busy, saw, hasLock>>
locals == <<sendPkt, evicted, batch, sent>>
vars   == <<world, queue, flags, lock, locals, flash, pc, owed>>

-----------------------------------------------------------------------------
Item(p) == [pkt |-> p, retry |-> 0]

Init ==
    /\ world \in Worlds
    /\ queue = <<>>
    /\ busy = FALSE /\ saw = {} /\ hasLock = {}
    /\ sending = FALSE /\ isSend = FALSE /\ started = FALSE /\ paused = FALSE
    /\ flash = {} /\ owed = {}
    /\ pc = [t \in Threads |-> "idle"]
    /\ sendPkt = [t \in Threads |-> NoPkt]
    /\ evicted = [t \in Threads |-> NoPkt]
    /\ batch = {} /\ sent = 0

Queued == {queue[i].pkt : i \in DOMAIN queue}

At(t, l) == pc[t] = l
Go(t, l) == pc' = [pc EXCEPT ![t] = l]

Unlock(t) == busy' = FALSE /\ hasLock' = hasLock \ {t} /\ saw' = saw

RemoveHead == queue' = IF queue = <<>> THEN queue ELSE Tail(queue)

-----------------------------------------------------------------------------
(* HttpQueue_WaitLock: while(busy) sleep, then busy = 1.  Each call site is  *)
(* a label; Got and TimedOut say where the thread goes on.                   *)

Got == [addLock     |-> "add",        \* HttpQueue_Add
        addRelock   |-> "addTail",    \* ... after StoreOldest
        replaceLock |-> "replace",    \* HttpQueue_ReplaceLatestNormal
        procLock    |-> "expire",     \* HttpQueue_Process
        expRelock   |-> "expire",     \* ... after evicting an expired item
        okRelock    |-> "posted",     \* ... after a post that succeeded
        failRelock  |-> "failed",     \* ... after one that failed
        evictRelock |-> "finish"]     \* ... after evicting the failed item

TimedOut == [addLock     |-> "addRefused",
             addRelock   |-> "addUnlock",
             replaceLock |-> "dropped",
             procLock    |-> "giveUp",
             expRelock   |-> "ready",
             okRelock    |-> "finish",
             failRelock  |-> "finish",
             evictRelock |-> "finish"]

LockTest(t) ==
    /\ "preempt" \in world
    /\ pc[t] \in DOMAIN Got /\ t \notin saw /\ ~ busy
    /\ saw' = saw \cup {t}
    /\ UNCHANGED <<world, queue, flags, busy, hasLock, locals, flash, pc, owed>>

LockTake(t) ==
    /\ pc[t] \in DOMAIN Got
    /\ t \in saw \/ ("preempt" \notin world /\ ~ busy)
    /\ busy' = TRUE
    /\ saw' = saw \ {t}
    /\ hasLock' = hasLock \cup {t}
    /\ Go(t, Got[pc[t]])
    /\ UNCHANGED <<world, queue, flags, locals, flash, owed>>

LockTimeout(t) ==
    /\ "locktimeout" \in world
    /\ pc[t] \in DOMAIN Got /\ t \notin saw /\ busy
    /\ Go(t, TimedOut[pc[t]])
    /\ UNCHANGED <<world, queue, flags, lock, locals, flash, owed>>

\* StoreFileToFlash of the packet taken out of the queue, without the lock.
StoreEvicted(t, from, to) ==
    /\ At(t, from)
    /\ flash' = flash \cup {evicted[t]}
    /\ evicted' = [evicted EXCEPT ![t] = NoPkt]
    /\ Go(t, to)
    /\ UNCHANGED <<world, queue, flags, lock, sendPkt, batch, sent, owed>>

-----------------------------------------------------------------------------
(* The HTTP thread: HttpQueue_Process.                                       *)

\* The stuck-thread watchdog at the top of the call.  It sees no post of its
\* own (this thread is here): only one of the server thread.
WatchdogArms ==
    /\ "watchdog" \in world
    /\ At("http", "idle") /\ (sending \/ isSend) /\ ~ started
    /\ started' = TRUE
    /\ UNCHANGED <<world, queue, sending, isSend, paused, lock, locals, flash, pc, owed>>

WatchdogFires ==
    /\ At("http", "idle") /\ (sending \/ isSend) /\ started
    /\ sending' = FALSE /\ isSend' = FALSE /\ started' = FALSE /\ busy' = FALSE
    /\ UNCHANGED <<world, queue, paused, saw, hasLock, locals, flash, pc, owed>>

WatchdogRests ==
    /\ At("http", "idle") /\ ~ sending /\ ~ isSend /\ started
    /\ started' = FALSE
    /\ UNCHANGED <<world, queue, sending, isSend, paused, lock, locals, flash, pc, owed>>

\* No post is under way and the guards pass ...
ProcessEnter ==
    /\ At("http", "idle")
    /\ queue # <<>> /\ ~ sending /\ ~ isSend /\ ~ paused
    /\ started' = FALSE
    /\ IF "preempt" \in world
       THEN Go("http", "claim") /\ UNCHANGED sending
       ELSE Go("http", "procLock") /\ sending' = TRUE
    /\ sent' = 0
    /\ UNCHANGED <<world, queue, isSend, paused, lock, sendPkt, evicted, batch, flash, owed>>

\* ... and httpQueue.sending = 1.
ProcessClaim ==
    /\ At("http", "claim")
    /\ sending' = TRUE
    /\ Go("http", "procLock")
    /\ UNCHANGED <<world, queue, isSend, started, paused, lock, locals, flash, owed>>

\* No lock within 50 ms.
GiveUp ==
    /\ At("http", "giveUp")
    /\ sending' = FALSE /\ started' = FALSE
    /\ Go("http", "idle")
    /\ UNCHANGED <<world, queue, isSend, paused, lock, locals, flash, owed>>

\* HttpQueue_ExpireOld: the head has expired and goes to flash.
ExpireHead ==
    /\ At("http", "expire") /\ queue # <<>>
    /\ evicted' = [evicted EXCEPT !["http"] = queue[1].pkt]
    /\ RemoveHead
    /\ Unlock("http")
    /\ Go("http", "storeExpired")
    /\ UNCHANGED <<world, flags, sendPkt, batch, sent, flash, owed>>

ExpireDone ==
    /\ At("http", "expire")
    /\ Go("http", "ready")
    /\ UNCHANGED <<world, queue, flags, lock, locals, flash, owed>>

\* Nothing left to post, or GPRS not active.
NothingToPost ==
    /\ At("http", "ready")
    /\ sending' = FALSE /\ started' = FALSE
    /\ Unlock("http")
    /\ Go("http", "idle")
    /\ UNCHANGED <<world, queue, isSend, paused, locals, flash, owed>>

\* The item at the head is copied and the lock released for the post.
TakeHead(r) ==
    /\ sendPkt' = [sendPkt EXCEPT !["http"] = r]
    /\ Unlock("http")
    /\ Go("http", "post")

StartBurst ==
    /\ At("http", "ready") /\ queue # <<>>
    /\ isSend' = TRUE
    /\ TakeHead(queue[1].pkt)
    /\ UNCHANGED <<world, queue, sending, started, paused, evicted, batch, sent, flash, owed>>

\* Mutant of Posted: what was posted stays at the head.
PostedKeepsHead ==
    /\ At("http", "posted")
    /\ sent' = sent + 1
    /\ IF queue # <<>> /\ sent' < HTTP_QUEUE_BURST
       THEN TakeHead(queue[1].pkt)
       ELSE Go("http", "finish") /\ UNCHANGED <<lock, sendPkt>>
    /\ UNCHANGED <<world, queue, flags, evicted, batch, flash, owed>>

\* After a post that succeeded: the head is removed, and the next item taken.
Posted ==
    /\ At("http", "posted")
    /\ RemoveHead
    /\ sent' = sent + 1
    /\ IF queue' # <<>> /\ sent' < HTTP_QUEUE_BURST
       THEN TakeHead(queue'[1].pkt)
       ELSE Go("http", "finish") /\ UNCHANGED <<lock, sendPkt>>
    /\ UNCHANGED <<world, flags, evicted, batch, flash, owed>>

\* After one that failed: the retries of the head, if there still is one, go
\* up; at the limit it is removed and the packet that was posted goes to flash.
\* With the queue emptied meanwhile the counter is the free slot's, which Add
\* resets: it may have any value.
HeadTries == IF queue = <<>> THEN 1 .. HTTP_QUEUE_MAX_RETRIES
             ELSE {queue[1].retry + 1}

Failed ==
    /\ At("http", "failed")
    /\ \E n \in HeadTries :
          \/ /\ n >= HTTP_QUEUE_MAX_RETRIES
             /\ evicted' = [evicted EXCEPT !["http"] = sendPkt["http"]]
             /\ RemoveHead
             /\ Unlock("http")
             /\ Go("http", "storeFailed")
          \/ /\ n < HTTP_QUEUE_MAX_RETRIES
             /\ queue' = IF queue = <<>> THEN queue
                         ELSE [queue EXCEPT ![1].retry = n]
             /\ Go("http", "finish")
             /\ UNCHANGED <<lock, evicted>>
    /\ UNCHANGED <<world, flags, sendPkt, batch, sent, flash, owed>>

\* Mutant of Finish: sending stays up.
FinishSending ==
    /\ At("http", "finish")
    /\ isSend' = FALSE /\ started' = FALSE
    /\ Unlock("http")
    /\ sendPkt' = [sendPkt EXCEPT !["http"] = NoPkt]
    /\ Go("http", "idle")
    /\ UNCHANGED <<world, queue, sending, paused, evicted, batch, sent, flash, owed>>

\* The end of the call, with the lock or, after a timeout, without it.
Finish ==
    /\ At("http", "finish")
    /\ isSend' = FALSE /\ sending' = FALSE /\ started' = FALSE
    /\ Unlock("http")
    /\ sendPkt' = [sendPkt EXCEPT !["http"] = NoPkt]
    /\ Go("http", "idle")
    /\ UNCHANGED <<world, queue, paused, evicted, batch, sent, flash, owed>>

-----------------------------------------------------------------------------
(* SendDataToServer, between its first and last step; both threads call it.  *)

Posting == [post |-> "posting", batchPost |-> "batchPosting",
            emPost |-> "emPosting", directPost |-> "directPosting"]

SendBegins(t) ==
    /\ pc[t] \in DOMAIN Posting
    /\ isSend' = TRUE
    /\ Go(t, Posting[pc[t]])
    /\ UNCHANGED <<world, queue, sending, started, paused, lock, locals, flash, owed>>

\* The call returns; when GPRS is not active it does so at once and leaves
\* IsSendProcess alone.
SendEnds(t, l) ==
    \/ At(t, Posting[l]) /\ isSend' = FALSE
    \/ At(t, l) /\ UNCHANGED isSend

PostSucceeds ==
    /\ At("http", "posting") /\ isSend' = FALSE
    /\ owed' = owed \ {sendPkt["http"]}
    /\ Go("http", "okRelock")
    /\ UNCHANGED <<world, queue, sending, started, paused, lock, locals, flash>>

PostFails ==
    /\ SendEnds("http", "post")
    /\ Go("http", "failRelock")
    /\ UNCHANGED <<world, queue, sending, started, paused, lock, locals, flash, owed>>

-----------------------------------------------------------------------------
(* The server thread.                                                        *)

InUse == flash \cup Queued \cup {sendPkt[t] : t \in Threads}
              \cup {evicted[t] : t \in Threads}

\* A packet is made and handed to the delivery.
Hand(p, l) ==
    /\ At("server", "idle")
    /\ p \notin InUse
    /\ sendPkt' = [sendPkt EXCEPT !["server"] = p]
    /\ owed' = owed \cup {p}
    /\ Go("server", l)

ServerDone == /\ Go("server", "idle")
              /\ sendPkt' = [sendPkt EXCEPT !["server"] = NoPkt]

\* HttpQueue_Add
AddCall(p) ==
    /\ "full" \in world \/ Len(queue) < HTTP_QUEUE_SIZE
    /\ Hand(p, "addLock")
    /\ UNCHANGED <<world, queue, flags, lock, evicted, batch, sent, flash>>

\* ... the queue is full: HttpQueue_StoreOldest
AddFull ==
    /\ At("server", "add") /\ Len(queue) >= HTTP_QUEUE_SIZE
    /\ evicted' = [evicted EXCEPT !["server"] = queue[1].pkt]
    /\ RemoveHead
    /\ Unlock("server")
    /\ Go("server", "storeOldest")
    /\ UNCHANGED <<world, flags, sendPkt, batch, sent, flash, owed>>

AddItem ==
    /\ \/ At("server", "add") /\ Len(queue) < HTTP_QUEUE_SIZE
       \/ At("server", "addTail")
    /\ queue' = Append(queue, Item(sendPkt["server"]))
    /\ Unlock("server")
    /\ ServerDone
    /\ UNCHANGED <<world, flags, evicted, batch, sent, flash, owed>>

\* ... no lock after StoreOldest: HttpQueue_Unlock all the same, return 0.
AddUnlock ==
    /\ At("server", "addUnlock")
    /\ Unlock("server")
    /\ Go("server", "addRefused")
    /\ UNCHANGED <<world, queue, flags, locals, flash, owed>>

\* HttpQueue_Add returned 0: alerts and position packets go to flash, health
\* and full packets are posted directly.
AddRefused ==
    /\ At("server", "addRefused")
    /\ \/ flash' = flash \cup {sendPkt["server"]} /\ ServerDone
       \/ /\ sendPkt["server"] \in NormalPkts
          /\ Go("server", "directPost") /\ UNCHANGED <<flash, sendPkt>>
    /\ UNCHANGED <<world, queue, flags, lock, evicted, batch, sent, owed>>

DirectEnds ==
    /\ SendEnds("server", "directPost")
    /\ owed' \in {owed, owed \ {sendPkt["server"]}}
    /\ At("server", "directPost") => owed' = owed
    /\ ServerDone
    /\ UNCHANGED <<world, queue, sending, started, paused, lock, evicted, batch, sent, flash>>

\* handleRegularPackets: a position packet is waiting, so it is replaced.  One
\* that is being posted is still delivered if the post succeeds.
NormalPending == Queued \cap NormalPkts # {}

ReplaceCall(p) ==
    /\ "replace" \in world
    /\ p \in NormalPkts /\ NormalPending
    /\ Hand(p, "replaceLock")
    /\ UNCHANGED <<world, queue, flags, lock, evicted, batch, sent, flash>>

ReplaceLatestNormal ==
    /\ At("server", "replace")
    /\ \/ \E i \in DOMAIN queue :
             /\ queue[i].pkt \in NormalPkts
             /\ \A j \in i + 1 .. Len(queue) : queue[j].pkt \notin NormalPkts
             /\ owed' = owed \ ({queue[i].pkt} \ {sendPkt["http"]})
             /\ queue' = [queue EXCEPT ![i] = Item(sendPkt["server"])]
       \/ ~ NormalPending /\ UNCHANGED <<owed, queue>>
    /\ Unlock("server")
    /\ ServerDone
    /\ UNCHANGED <<world, flags, evicted, batch, sent, flash>>

\* The caller has no way to tell, and returns.
ReplaceDropped ==
    /\ At("server", "dropped")
    /\ ServerDone
    /\ UNCHANGED <<world, queue, flags, lock, evicted, batch, sent, flash, owed>>

\* GetBatchData: at most two stored packets in one post.
BatchCall ==
    /\ "batch" \in world
    /\ At("server", "idle")
    /\ \E S \in SUBSET flash :
          /\ Cardinality(S) \in 1 .. 2
          /\ batch' = S
    /\ Go("server", "batchPost")
    /\ UNCHANGED <<world, queue, flags, lock, sendPkt, evicted, sent, flash, owed>>

BatchSucceeds ==
    /\ At("server", "batchPosting") /\ isSend' = FALSE
    /\ flash' = flash \ batch /\ owed' = owed \ batch
    /\ batch' = {}
    /\ Go("server", "idle")
    /\ UNCHANGED <<world, queue, sending, started, paused, lock, sendPkt, evicted, sent>>

\* Mutant of BatchFails: the stored packets are deleted all the same.
BatchFailsDeletes ==
    /\ SendEnds("server", "batchPost")
    /\ flash' = flash \ batch /\ batch' = {}
    /\ Go("server", "idle")
    /\ UNCHANGED <<world, queue, sending, started, paused, lock, sendPkt, evicted, sent,
                   owed>>

BatchFails ==
    /\ SendEnds("server", "batchPost")
    /\ batch' = {}
    /\ Go("server", "idle")
    /\ UNCHANGED <<world, queue, sending, started, paused, lock, sendPkt, evicted, sent,
                   flash, owed>>

\* handleCriticalPackets in an emergency: the queue is paused ...
Emergency(p) ==
    /\ "emergency" \in world
    /\ p \in AlertPkts
    /\ Hand(p, "wait")
    /\ paused' = TRUE
    /\ UNCHANGED <<world, queue, sending, isSend, started, lock, evicted, batch, sent, flash>>

\* Mutant of EmergencyClear: only IsSendProcess is waited for.
EmergencyClearEarly ==
    /\ At("server", "wait") /\ ~ isSend
    /\ Go("server", "emPost")
    /\ UNCHANGED <<world, queue, flags, lock, locals, flash, owed>>

\* ... until neither flag shows a post under way ...
EmergencyClear ==
    /\ At("server", "wait") /\ ~ isSend /\ ~ sending
    /\ Go("server", "emPost")
    /\ UNCHANGED <<world, queue, flags, lock, locals, flash, owed>>

\* ... or for 3 s, and then HttpQueue_AbortSend.
AbortSend ==
    /\ "abort" \in world
    /\ At("server", "wait") /\ (isSend \/ sending)
    /\ isSend' = FALSE /\ sending' = FALSE /\ started' = FALSE /\ busy' = FALSE
    /\ Go("server", "emPost")
    /\ UNCHANGED <<world, queue, paused, saw, hasLock, locals, flash, owed>>

\* HttpQueue_Resume; a packet that was not sent goes to flash, or is made anew
\* at the next emergency interval (EPB10 while SOS is on).
EmergencyEnds ==
    /\ SendEnds("server", "emPost")
    /\ paused' = FALSE
    /\ \/ flash' = flash \cup {sendPkt["server"]} /\ owed' = owed
       \/ flash' = flash /\ owed' = owed \ {sendPkt["server"]}
    /\ ServerDone
    /\ UNCHANGED <<world, queue, sending, started, lock, evicted, batch, sent>>

-----------------------------------------------------------------------------
HttpStep ==
    \/ LockTest("http") \/ LockTake("http") \/ LockTimeout("http")
    \/ WatchdogArms \/ WatchdogFires \/ WatchdogRests
    \/ ProcessEnter \/ ProcessClaim \/ GiveUp
    \/ ExpireHead \/ StoreEvicted("http", "storeExpired", "expRelock")
    \/ ExpireDone \/ NothingToPost \/ StartBurst
    \/ SendBegins("http") \/ PostSucceeds \/ PostFails
    \/ Posted \/ Failed \/ StoreEvicted("http", "storeFailed", "evictRelock")
    \/ Finish

ServerCall == \E p \in Packets : AddCall(p) \/ ReplaceCall(p) \/ Emergency(p)

ServerStep ==
    \/ LockTest("server") \/ LockTake("server") \/ LockTimeout("server")
    \/ AddFull \/ StoreEvicted("server", "storeOldest", "addRelock")
    \/ AddItem \/ AddUnlock \/ AddRefused \/ DirectEnds
    \/ ReplaceLatestNormal \/ ReplaceDropped
    \/ SendBegins("server")
    \/ BatchSucceeds \/ BatchFails
    \/ EmergencyClear \/ AbortSend \/ EmergencyEnds

Next == HttpStep \/ ServerCall \/ BatchCall \/ ServerStep

Spec == Init /\ [][Next]_vars

\* Each thread goes on with the call it is in.  The lock is held for less than
\* the 5 ms between two polls, so a thread that keeps asking gets it; the server
\* thread sleeps 100 ms between two rounds of its loop and the HTTP thread 50 ms
\* between two calls, so the HTTP thread finds a round's flags down; a packet
\* expires.  Nothing makes a packet come or a post succeed.
FairSpec ==
    /\ Spec
    /\ WF_vars(HttpStep) /\ WF_vars(ServerStep)
    /\ SF_vars(LockTake("http")) /\ SF_vars(LockTake("server"))
    /\ SF_vars(ProcessEnter) /\ SF_vars(ExpireHead)

-----------------------------------------------------------------------------
HttpLabels == {"idle", "claim", "procLock", "giveUp", "expire", "storeExpired",
               "expRelock", "ready", "post", "posting", "okRelock", "posted",
               "failRelock", "failed", "storeFailed", "evictRelock", "finish"}
Handing == {"addLock", "add", "storeOldest", "addRelock", "addTail", "addUnlock",
            "addRefused", "directPost", "directPosting", "replaceLock", "replace",
            "wait", "emPost", "emPosting"}
ServerLabels == Handing \cup {"idle", "dropped", "batchPost", "batchPosting"}

PcOK ==
    /\ pc \in [Threads -> HttpLabels \cup ServerLabels]
    /\ pc["http"] \in HttpLabels /\ pc["server"] \in ServerLabels

FlagsOK ==
    /\ busy \in BOOLEAN /\ sending \in BOOLEAN /\ isSend \in BOOLEAN
    /\ started \in BOOLEAN /\ paused \in BOOLEAN

Items == [pkt : Packets, retry : 0 .. HTTP_QUEUE_MAX_RETRIES]

QueueOK ==
    /\ queue \in Seq(Items)
    /\ Len(queue) <= HTTP_QUEUE_SIZE
    /\ sent \in 0 .. HTTP_QUEUE_BURST

PacketsOK ==
    /\ flash \subseteq Packets /\ owed \subseteq Packets /\ batch \subseteq Packets
    /\ sendPkt \in [Threads -> Packets \cup {NoPkt}]
    /\ evicted \in [Threads -> Packets \cup {NoPkt}]

(* The queue holds HTTP_QUEUE_SIZE items at most, and the flags and locals of  *)
(* both threads what the code can put there.                                  *)
TypeOK ==
    /\ world \in Worlds
    /\ PcOK /\ FlagsOK /\ QueueOK /\ PacketsOK
    /\ saw \subseteq Threads /\ hasLock \subseteq Threads

\* Nobody but the owner of the lock releases it, or takes it while it is owned.
\* (The stuck-thread watchdog finds only posts of the server thread, which holds
\* no lock then.)
Orderly == world \cap {"preempt", "locktimeout", "abort"} = {}

(* The lock is a lock, as long as WaitLock is not preempted between its test  *)
(* and its assignment and neither a timeout nor an abort lets go of it.       *)
MutualExclusion == Orderly => Cardinality(hasLock) <= 1

\* Where HttpQueue_Process is from StartBurst until it knows how the post ended.
HttpHolds == {"post", "posting", "okRelock", "posted", "failRelock", "failed"}

(* Then a packet is queued once, and one that is still queued has not been    *)
(* given to flash too.  The packet the HTTP thread is posting, for which it   *)
(* let go of the lock, has not been given to flash either, unless the queue   *)
(* is full: HttpQueue_StoreOldest does take the head that is being posted.    *)
OneCopy ==
    Orderly =>
       LET InFlash == flash \cup {evicted[t] : t \in Threads}
       IN  /\ \A i, j \in DOMAIN queue : queue[i].pkt = queue[j].pkt => i = j
           /\ Queued \cap InFlash = {}
           /\ "full" \notin world /\ pc["http"] \in HttpHolds
                 => sendPkt["http"] \notin InFlash

(* In a queue that does not fill up, no packet handed over for delivery       *)
(* disappears: until it is delivered it is in the queue, in flash, or in the  *)
(* hands of a thread, also while batches and emergency packets are posted and *)
(* the watchdog takes such a post for a stuck one.                            *)
InHand == {sendPkt["server"]} \cup {evicted[t] : t \in Threads}

NothingLost ==
    world \subseteq {"batch", "emergency", "watchdog"}
       => owed \subseteq Queued \cup flash \cup InHand

(* Where the queue does not fill up a packet is kept in one place: not in the *)
(* queue or being posted and in flash as well, and not in none.               *)
PacketsKept == OneCopy /\ NothingLost

(* What a post, a batch or an emergency delivers has not been delivered       *)
(* before, although the lock is let go for the post and the packet stays      *)
(* queued meanwhile, and although the server thread replaces packets of the   *)
(* queue, that one included.  A full queue is left out: there the posted head *)
(* goes to flash and is delivered again by a batch.                           *)
DeliversOnce ==
    [][Orderly /\ "full" \notin world =>
         /\ PostSucceeds => sendPkt["http"] \in owed
         /\ BatchSucceeds => batch \subseteq owed
         /\ EmergencyEnds => sendPkt["server"] \in owed]_vars

(* "A queued packet not sent within (interval x MULTIPLIER) is evicted to     *)
(* flash" (HttpQueue.h:13), so what is taken off the queue after a post is    *)
(* what was sent.  The code takes off the head, which need not be that: the   *)
(* server thread may have replaced it by a newer packet (HttpQueue.c:308) or, *)
(* with the queue full, evicted it (HttpQueue.c:70).  The packet taken off    *)
(* then was neither sent nor given to flash.                                  *)
UnsentGoesToFlash ==
    [][Posted /\ queue # <<>> => queue[1].pkt = sendPkt["http"]]_vars

(* While an emergency packet is being posted, the HTTP thread is not posting, *)
(* unless a thread is preempted between a test and its assignment or a post   *)
(* is aborted; the watchdog, which may take down the flags of the emergency's *)
(* own post, does no harm, since the queue is paused.                         *)
Undisturbed == world \cap {"preempt", "abort"} = {}

EmergencyPostsAlone ==
    Undisturbed
       => ~ (At("server", "emPosting") /\ At("http", "posting"))

(* The threads keep out of each other's way, at the queue and at the modem.   *)
ThreadsExclude == MutualExclusion /\ EmergencyPostsAlone

(* "Waiting for both flags prevents a concurrent double-POST" (Server.c:5877).*)
(* It does not where the HTTP thread has passed the guards and loses the CPU  *)
(* before it sets httpQueue.sending (HttpQueue.c:195-199).                    *)
NoDoublePost ==
    "abort" \notin world => ~ (At("server", "emPosting") /\ At("http", "posting"))

\* No thread loses what it holds to another but by an abort.
Unreleased == world \cap {"preempt", "locktimeout"} = {}

(* A queued packet does not stay queued for ever, whether it is posted,      *)
(* replaced, stored in flash or evicted: no abort, pause or failing post     *)
(* keeps HttpQueue_Process from it.  And a pause ends: every way out of the  *)
(* emergency resumes the queue.                                              *)
QueueDrains ==
    Unreleased => /\ \A p \in Packets : (p \in Queued) ~> (p \notin Queued)
                  /\ paused ~> ~ paused

=============================================================================
