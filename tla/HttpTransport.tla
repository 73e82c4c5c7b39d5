---------------------------- MODULE HttpTransport ----------------------------
(***************************************************************************)
(* Posting a packet (SendDataToServer in custom/Server.c) over the modem's  *)
(* one HTTP session (custom/HTTP.c).  A packet goes to Server 1 and, when   *)
(* Server 3 has an http URL, to Server 3 as well; the URL, the state of the *)
(* session and the flag that an answer came are globals.  The HTTP thread   *)
(* posts what is queued and re-arms the session between posts, the server   *)
(* thread posts stored and emergency packets.  A circuit breaker keeps the  *)
(* device from waiting for a Server 1 that has failed twice.                *)
(*                                                                         *)
(* A thread may lose the CPU at every AT command and every sleep: each      *)
(* action is what the code does from one of them to the next.               *)
(***************************************************************************)
EXTENDS Naturals

CONSTANTS
    SERVER1_MAX_FAILURES,
    COUNT_WIDTH,  \* server1_fail_count counts modulo this: 256, a uint8_t
    VLT_ATTEMPTS, \* posts tried to Server 3
    Worlds        \* the conditions under which the device may run, sets of Events

Events == { "server3", \* Server 3 has an http URL
            "overlap", \* a send begins while the other thread is in one
            "arming",  \* a send begins while the HTTP thread arms the session
            "abort",   \* HttpQueue_AbortSend closes the session
            "gprs" }   \* GPRS comes and goes

ASSUME BreakerAssumption == /\ SERVER1_MAX_FAILURES \in Nat \ {0}
                            /\ COUNT_WIDTH \in Nat
                            /\ COUNT_WIDTH > SERVER1_MAX_FAILURES
ASSUME AttemptsAssumption == VLT_ATTEMPTS \in Nat \ {0}
ASSUME WorldsAssumption == Worlds \subseteq SUBSET Events

Threads == {"http", "server"}
Servers == {"S1", "S3"}

VARIABLES
    world,       \* the conditions of this run; nothing changes them
    url,         \* whose URL HTTPUrl is
    armed,       \* whose URL the modem was given last
    set,         \* HTTPState = HTTP_STATE_SET
    connected,   \* ServerSocket[0].SocketState = SOCKET_CONNECTED
    connectFlag, \* HTTPConnectFlag
    res,         \* IsHTTPRes
    isSend,      \* IsSendProcess
    offline,     \* server1_offline
    failCount,   \* server1_fail_count
    cooling,     \* less than SERVER1_COOLDOWN_MS since server1_offline_time
    gprs,        \* GSM.GSMState = GPRS_ACTIVE
    up,          \* Server 1 and the way to it do what they should
    pc,          \* where each thread is
    call         \* the locals of each thread's SendDataToServer

session == <<url, armed, set, connected, connectFlag, res>>
breaker == <<offline, failCount, cooling>>
net     == <<gprs, up>>
vars    == <<world, session, isSend, breaker, net, pc, call>>

\* lp3 counts the posts tried to the server dest; answered are the servers that
\* answered a post of this packet.
NoCall == [dest |-> "S1", keepAlive |-> FALSE, lp3 |-> 0, isGood |-> FALSE,
           ret |-> FALSE, vltGood |-> FALSE, answered |-> {}]

Init ==
    /\ world \in Worlds
    /\ url = "S1" /\ armed = "S1"
    /\ set = FALSE /\ connected = FALSE /\ connectFlag = FALSE /\ res = FALSE
    /\ isSend = FALSE
    /\ offline = FALSE /\ failCount = 0 /\ cooling = FALSE
    /\ gprs = TRUE /\ up \in BOOLEAN
    /\ pc = [t \in Threads |-> "idle"]
    /\ call = [t \in Threads |-> NoCall]

-----------------------------------------------------------------------------
Arming == {"armCheck", "arm"}

At(t, l) == pc[t] = l
Go(t, l) == pc' = [pc EXCEPT ![t] = l]

\* A command to the modem for Server 1 can fail only when something is wrong.
CanFail(t) == call[t].dest = "S3" \/ ~ up \/ ~ gprs

\* The thread's locals become c.
Local(t, c) == call' = [call EXCEPT ![t] = c]

SetReadyState(ready) == set' = ready /\ connected' = ready

\* HTTP_Close
Close == SetReadyState(FALSE) /\ connectFlag' = FALSE /\ res' = FALSE

\* The end of an attempt: there is one for Server 1 and VLT_ATTEMPTS for Server 3.
Again(t, c) ==
    /\ Local(t, [c EXCEPT !.lp3 = @ + 1])
    /\ Go(t, IF c.dest = "S1" THEN "breaker"
             ELSE IF c.lp3 + 1 < VLT_ATTEMPTS THEN "setup" ELSE "vltEnd")

\* SendDataToServer begins; without GPRS it returns at once.
Begin(t) ==
    /\ At(t, "idle") /\ gprs
    /\ "overlap" \in world \/ \A u \in Threads : pc[u] \in {"idle"} \cup Arming
    /\ "arming" \in world \/ pc["http"] \notin Arming
    /\ isSend' = TRUE /\ connectFlag' = TRUE
    /\ \E k \in BOOLEAN : Local(t, [NoCall EXCEPT !.keepAlive = k])
    /\ Go(t, IF offline /\ cooling THEN "vlt" ELSE "setup")
    /\ UNCHANGED <<world, url, armed, set, connected, res, breaker, net>>

-----------------------------------------------------------------------------
(* HTTP_Setup: HTTP_PrepareEndpoint; the SSL command; the URL command.       *)

SetupPrepare(t) ==
    /\ At(t, "setup")
    /\ url' = call[t].dest
    /\ \/ /\ gprs
          /\ Go(t, "check")
          /\ UNCHANGED <<set, connected, connectFlag, call>>
       \/ /\ ~ gprs
          /\ SetReadyState(FALSE) /\ connectFlag' = TRUE
          /\ Again(t, call[t])
    /\ UNCHANGED <<world, armed, res, isSend, breaker, net>>

SetupCheck(t) ==
    /\ At(t, "check")
    /\ connected' = (connected /\ set)
    /\ Go(t, IF connected' THEN "connect" ELSE "url")
    /\ UNCHANGED <<world, url, armed, set, connectFlag, res, isSend, breaker, net, call>>

SetupUrl(t) ==
    /\ At(t, "url")
    /\ \/ /\ armed' = url
          /\ SetReadyState(TRUE)
          /\ Go(t, "connect")
          /\ UNCHANGED <<connectFlag, call>>
       \/ /\ CanFail(t)
          /\ SetReadyState(FALSE) /\ connectFlag' = TRUE
          /\ Again(t, call[t])
          /\ UNCHANGED armed
    /\ UNCHANGED <<world, url, res, isSend, breaker, net>>

\* The wait for SOCKET_CONNECTED.
Connected(t) ==
    /\ At(t, "connect") /\ connected
    /\ Local(t, [call[t] EXCEPT !.isGood = @ \/ call[t].dest = "S1"])
    /\ connectFlag' = FALSE
    /\ Go(t, "post")
    /\ UNCHANGED <<world, url, armed, set, connected, res, isSend, breaker, net>>

NotConnected(t) ==
    /\ At(t, "connect") /\ ~ connected
    /\ Again(t, call[t])
    /\ UNCHANGED <<world, session, isSend, breaker, net>>

-----------------------------------------------------------------------------
(* HTTP_Post                                                                 *)

\* The session must be set; a setup made here is always for Server 1.  (Its
\* commands are one action: they follow each other in a thread that has just
\* found the session gone.)
PostReady(t) ==
    /\ At(t, "post") /\ gprs
    /\ \/ set /\ UNCHANGED <<url, armed, set, connected>>
       \/ ~ set /\ url' = "S1" /\ armed' = "S1" /\ SetReadyState(TRUE)
    /\ res' = FALSE
    /\ Go(t, "refresh")
    /\ UNCHANGED <<world, connectFlag, isSend, breaker, net, call>>

PostNotReady(t) ==
    /\ At(t, "post") /\ CanFail(t)
    /\ \/ ~ gprs /\ UNCHANGED url
       \/ gprs /\ ~ set /\ url' = "S1"
    /\ SetReadyState(FALSE) /\ connectFlag' = TRUE
    /\ Again(t, call[t])
    /\ UNCHANGED <<world, armed, res, isSend, breaker, net>>

\* Mutant of PostRefresh: a session that is set keeps the URL it has.
PostRefreshSkipped(t) ==
    /\ At(t, "refresh")
    /\ Go(t, "send")
    /\ UNCHANGED <<world, session, isSend, breaker, net, call>>

\* The URL is sent once more ...
PostRefresh(t) ==
    /\ At(t, "refresh")
    /\ \/ /\ armed' = url
          /\ Go(t, "send")
          /\ UNCHANGED <<set, connected, connectFlag, call>>
       \/ /\ CanFail(t)
          /\ SetReadyState(FALSE) /\ connectFlag' = TRUE
          /\ Again(t, call[t])
          /\ UNCHANGED armed
    /\ UNCHANGED <<world, url, res, isSend, breaker, net>>

\* ... 150 ms later the packet is posted and the answer read ...
PostAnswered(t) ==
    /\ At(t, "send")
    /\ res' = TRUE /\ set' = TRUE
    /\ Local(t, [call[t] EXCEPT !.ret = @ \/ call[t].dest = "S1",
                                !.answered = @ \cup {armed}])
    /\ Go(t, "await")
    /\ UNCHANGED <<world, url, armed, connected, connectFlag, isSend, breaker, net>>

\* ... or the post is refused, or no answer can be read.
PostFailed(t) ==
    /\ At(t, "send") /\ CanFail(t)
    /\ \/ SetReadyState(FALSE) /\ UNCHANGED res
       \/ call[t].keepAlive /\ UNCHANGED <<set, connected, res>>
       \/ ~ call[t].keepAlive /\ SetReadyState(FALSE) /\ res' = FALSE
    /\ connectFlag' = TRUE
    /\ Again(t, call[t])
    /\ UNCHANGED <<world, url, armed, isSend, breaker, net>>

-----------------------------------------------------------------------------
\* Back in SendDataToServer: while(!IsHTTPRes), with a timeout.
MaybeClose(t) == IF call[t].keepAlive THEN UNCHANGED <<set, connected, connectFlag, res>>
                                      ELSE Close

AnswerSeen(t) ==
    /\ At(t, "await") /\ res
    /\ MaybeClose(t)
    /\ Local(t, [call[t] EXCEPT !.vltGood = @ \/ call[t].dest = "S3"])
    /\ Go(t, IF call[t].dest = "S1" THEN "breaker" ELSE "vltEnd")
    /\ UNCHANGED <<world, url, armed, isSend, breaker, net>>

AnswerTimesOut(t) ==
    /\ At(t, "await") /\ ~ res
    /\ MaybeClose(t)
    /\ Again(t, call[t])
    /\ UNCHANGED <<world, url, armed, isSend, breaker, net>>

\* Mutant of Breaker: a success does not bring Server 1 back.
BreakerStaysOpen(t) ==
    /\ At(t, "breaker")
    /\ failCount' = IF call[t].isGood /\ call[t].ret THEN 0
                    ELSE (failCount + 1) % COUNT_WIDTH
    /\ offline' = (offline \/ failCount' >= SERVER1_MAX_FAILURES)
    /\ cooling' = (cooling \/ failCount' >= SERVER1_MAX_FAILURES)
    /\ Go(t, "vlt")
    /\ UNCHANGED <<world, session, isSend, net, call>>

\* The circuit breaker, after an attempt at Server 1.
Failing(t) == ~ (call[t].isGood /\ call[t].ret)

Breaker(t) ==
    /\ At(t, "breaker")
    /\ \/ /\ ~ Failing(t)
          /\ failCount' = 0 /\ offline' = FALSE /\ UNCHANGED cooling
       \/ /\ Failing(t)
          /\ failCount' = (failCount + 1) % COUNT_WIDTH
          /\ IF failCount' >= SERVER1_MAX_FAILURES
             THEN offline' = TRUE /\ cooling' = TRUE
             ELSE UNCHANGED <<offline, cooling>>
    /\ Go(t, "vlt")
    /\ UNCHANGED <<world, session, isSend, net, call>>

\* Server 3: the session is closed first, since HTTP_Setup keeps a connected one.
Vlt(t) ==
    /\ At(t, "vlt")
    /\ \/ /\ "server3" \in world
          /\ Close
          /\ Local(t, [call[t] EXCEPT !.dest = "S3", !.lp3 = 0])
          /\ Go(t, "setup")
       \/ /\ "server3" \notin world
          /\ Go(t, "return")
          /\ UNCHANGED <<set, connected, connectFlag, res, call>>
    /\ UNCHANGED <<world, url, armed, isSend, breaker, net>>

VltEnd(t) ==
    /\ At(t, "vltEnd")
    /\ connectFlag' = TRUE /\ connected' = FALSE
    /\ Go(t, "return")
    /\ UNCHANGED <<world, url, armed, set, res, isSend, breaker, net, call>>

\* Mutant of Result: only Server 1 counts.
ResultServer1(t) == call[t].isGood /\ call[t].ret

\* What SendDataToServer returns.
Result(t) == (call[t].isGood /\ call[t].ret) \/ call[t].vltGood

\* After a burst that went well HttpQueue_Process closes the session.
Return(t) ==
    /\ At(t, "return")
    /\ isSend' = FALSE
    /\ Local(t, NoCall)
    /\ \/ Go(t, "idle")
       \/ t = "http" /\ Result(t) /\ Go(t, "close")
    /\ UNCHANGED <<world, session, breaker, net>>

CloseSession ==
    /\ \/ At("http", "close") /\ Go("http", "idle")
       \/ "abort" \in world /\ At("server", "idle") /\ UNCHANGED pc
    /\ Close
    /\ isSend' = (isSend /\ At("http", "close"))
    /\ UNCHANGED <<world, url, armed, breaker, net, call>>

-----------------------------------------------------------------------------
(* HTTPThreadEntry between posts: the session is armed for Server 1, and     *)
(* SocketState follows HTTPState.                                            *)

ArmBegin ==
    /\ At("http", "idle")
    /\ connectFlag /\ ~ set /\ ~ isSend
    /\ \/ gprs /\ url' = "S1" /\ Go("http", "armCheck") /\ UNCHANGED <<set, connected>>
       \/ ~ gprs /\ SetReadyState(FALSE) /\ UNCHANGED <<url, pc>>
    /\ UNCHANGED <<world, armed, connectFlag, res, isSend, breaker, net, call>>

ArmCheck ==
    /\ At("http", "armCheck")
    /\ connected' = (connected /\ set)
    /\ Go("http", IF connected' THEN "idle" ELSE "arm")
    /\ UNCHANGED <<world, url, armed, set, connectFlag, res, isSend, breaker, net, call>>

Arm ==
    /\ At("http", "arm")
    /\ \/ armed' = url /\ SetReadyState(TRUE)
       \/ (~ up \/ ~ gprs) /\ UNCHANGED armed /\ SetReadyState(FALSE)
    /\ Go("http", "idle")
    /\ UNCHANGED <<world, url, connectFlag, res, isSend, breaker, net, call>>

FollowState ==
    /\ At("http", "idle")
    /\ set \/ ~ connectFlag
    /\ connected' = set
    /\ UNCHANGED <<world, url, armed, set, connectFlag, res, isSend, breaker, net, pc, call>>

-----------------------------------------------------------------------------
CooldownElapses ==
    /\ cooling /\ cooling' = FALSE
    /\ UNCHANGED <<world, session, isSend, offline, failCount, net, pc, call>>

NetChanges ==
    /\ \/ "gprs" \in world /\ gprs' = ~ gprs /\ UNCHANGED up
       \/ up' = ~ up /\ UNCHANGED gprs
    /\ UNCHANGED <<world, session, isSend, breaker, pc, call>>

SendStep(t) ==
    \/ SetupPrepare(t) \/ SetupCheck(t) \/ SetupUrl(t)
    \/ Connected(t) \/ NotConnected(t)
    \/ PostReady(t) \/ PostNotReady(t) \/ PostRefresh(t)
    \/ PostAnswered(t) \/ PostFailed(t)
    \/ AnswerSeen(t) \/ AnswerTimesOut(t)
    \/ Breaker(t) \/ Vlt(t) \/ VltEnd(t) \/ Return(t)

ArmStep == ArmBegin \/ ArmCheck \/ Arm \/ FollowState

Next ==
    \/ \E t \in Threads : Begin(t) \/ SendStep(t)
    \/ CloseSession \/ ArmStep
    \/ CooldownElapses \/ NetChanges

Spec == Init /\ [][Next]_vars

(* Each thread goes on with its call, the five minutes pass, and the server   *)
(* thread has a packet to post again and again.                               *)
FairSpec ==
    /\ Spec
    /\ \A t \in Threads : WF_vars(SendStep(t))
    /\ WF_vars(CloseSession) /\ WF_vars(ArmCheck) /\ WF_vars(Arm)
    /\ WF_vars(FollowState)
    /\ WF_vars(CooldownElapses)
    /\ SF_vars(Begin("server"))

-----------------------------------------------------------------------------
Labels == {"idle", "setup", "check", "url", "connect", "post", "refresh", "send",
           "await", "breaker", "vlt", "vltEnd", "return", "close", "armCheck", "arm"}

Calls == [dest : Servers, keepAlive : BOOLEAN, lp3 : 0 .. VLT_ATTEMPTS,
          isGood : BOOLEAN, ret : BOOLEAN, vltGood : BOOLEAN,
          answered : SUBSET Servers]

SessionOK == url \in Servers /\ armed \in Servers
FlagsOK   == {set, connected, connectFlag, res, isSend, offline, cooling, gprs, up}
                \subseteq BOOLEAN
PcOK      == pc \in [Threads -> Labels]
CallsOK   == call \in [Threads -> Calls]

(* The attempts keep their limit and the failure counter its width.           *)
TypeOK ==
    /\ world \in Worlds
    /\ SessionOK /\ FlagsOK /\ PcOK /\ CallsOK
    /\ failCount \in 0 .. COUNT_WIDTH - 1

\* One send at a time, and none while the HTTP thread arms or aborts the session.
OneAtATime == world \cap {"overlap", "arming", "abort"} = {}

(* A packet is posted to the server it is meant for, although the URL is a    *)
(* global that each setup overwrites, as long as one thread posts at a time.  *)
PostsWhereMeant ==
    [][OneAtATime => \A t \in Threads : PostAnswered(t) => armed = call[t].dest]_vars

(* What SendDataToServer reports as delivered, a server answered, whoever else *)
(* was at the session; and one send at a time reports what was answered, so    *)
(* that no packet that was answered is posted again.                           *)
DeliveredIffAnswered ==
    [][\A t \in Threads : Return(t) =>
          /\ Result(t) => call[t].answered # {}
          /\ OneAtATime /\ call[t].answered # {} => Result(t)]_vars

(* When Server 1 works for good, the breaker closes and stays closed; as long  *)
(* as no thread takes the session from a post.                                 *)
BreakerCloses ==
    world \cap {"overlap", "abort"} = {} /\ <>[](up /\ gprs) => <>[](~ offline)

=============================================================================
