------------------------ MODULE HttpTransportProofs ------------------------
(***************************************************************************)
(* Theorems about HttpTransport, for every limit of the breaker and of the   *)
(* attempts, every width of the counter and any set of worlds.              *)
(***************************************************************************)
EXTENDS HttpTransport, TLAPS

\* Inside an attempt to post.
Attempt == {"setup", "check", "url", "connect", "post", "refresh", "send", "await"}

\* Inside SendDataToServer.
Send == Attempt \cup {"breaker", "vlt", "vltEnd", "return"}

\* An attempt under way has not been counted yet.
Counted == \A t \in Threads : pc[t] \in Attempt => call[t].lp3 < VLT_ATTEMPTS

TypeInv == TypeOK /\ Counted

-----------------------------------------------------------------------------
LEMMA Sizes ==
    /\ SERVER1_MAX_FAILURES \in Nat /\ COUNT_WIDTH \in Nat /\ COUNT_WIDTH >= 1
    /\ VLT_ATTEMPTS \in Nat /\ VLT_ATTEMPTS >= 1
BY BreakerAssumption, AttemptsAssumption

(* What a thread changes of pc and call is its own part.                     *)
LEMMA GoMoves ==
    ASSUME PcOK, NEW t \in Threads, NEW l \in Labels, Go(t, l)
    PROVE  PcOK' /\ pc'[t] = l /\ \A u \in Threads : u # t => pc'[u] = pc[u]
BY DEF PcOK, Go

LEMMA LocalSets ==
    ASSUME CallsOK, NEW t \in Threads, NEW c \in Calls, Local(t, c)
    PROVE  CallsOK' /\ call'[t] = c /\ \A u \in Threads : u # t => call'[u] = call[u]
BY DEF CallsOK, Local

-----------------------------------------------------------------------------
LEMMA NoCallIsCall == NoCall \in Calls /\ NoCall.lp3 = 0
<1>1. 0 \in 0 .. VLT_ATTEMPTS /\ "S1" \in Servers /\ {} \in SUBSET Servers
  BY Sizes DEF Servers
<1> QED
  BY <1>1 DEF NoCall, Calls

(* The end of an attempt, whatever ended it.                                 *)
LEMMA AgainMoves ==
    ASSUME TypeInv, NEW t \in Threads, pc[t] \in Attempt, Again(t, call[t])
    PROVE  PcOK' /\ CallsOK' /\ Counted'
<1> DEFINE l == IF call[t].dest = "S1" THEN "breaker"
                ELSE IF call[t].lp3 + 1 < VLT_ATTEMPTS THEN "setup" ELSE "vltEnd"
           c == [call[t] EXCEPT !.lp3 = call[t].lp3 + 1]
<1>1. /\ l \in Labels /\ l \in {"breaker", "setup", "vltEnd"}
      /\ l = "setup" => call[t].lp3 + 1 < VLT_ATTEMPTS
  BY DEF Labels
<1>2. c \in Calls /\ c.lp3 = call[t].lp3 + 1
  BY Sizes DEF TypeInv, TypeOK, Counted, CallsOK, Calls
<1>3. Go(t, l) /\ Local(t, c)
  BY DEF Again
<1>4. PcOK' /\ pc'[t] = l /\ \A u \in Threads : u # t => pc'[u] = pc[u]
  BY <1>1, <1>3, GoMoves DEF TypeInv, TypeOK
<1>5. CallsOK' /\ call'[t] = c /\ \A u \in Threads : u # t => call'[u] = call[u]
  BY <1>2, <1>3, LocalSets DEF TypeInv, TypeOK
<1> QED
  BY <1>1, <1>2, <1>4, <1>5 DEF TypeInv, Counted, Attempt

(* A step that leaves a call's count alone, or goes out of the attempts.     *)
LEMMA OwnMoves ==
    ASSUME TypeInv, NEW t \in Threads, NEW l \in Labels, NEW c \in Calls,
           Go(t, l), Local(t, c), l \in Attempt => c.lp3 < VLT_ATTEMPTS
    PROVE  PcOK' /\ CallsOK' /\ Counted'
<1>1. PcOK' /\ pc'[t] = l /\ \A u \in Threads : u # t => pc'[u] = pc[u]
  BY GoMoves DEF TypeInv, TypeOK
<1>2. CallsOK' /\ call'[t] = c /\ \A u \in Threads : u # t => call'[u] = call[u]
  BY LocalSets DEF TypeInv, TypeOK
<1> QED
  BY <1>1, <1>2 DEF TypeInv, Counted

-----------------------------------------------------------------------------
LEMMA SessionThreads ==
    ASSUME TypeInv, NEW t \in Threads, Begin(t) \/ SendStep(t)
    PROVE  SessionOK'
<1>1. CASE Begin(t)
  BY <1>1 DEF Begin, At, Arming, Local, NoCall, Go, breaker, net, TypeInv,
     TypeOK, SessionOK, Servers, CallsOK, Calls
<1>2. CASE SetupPrepare(t)
  BY <1>2 DEF SetupPrepare, At, Go, SetReadyState, Again, breaker, net,
     Local, TypeInv, TypeOK, SessionOK, Servers, CallsOK, Calls
<1>3. CASE SetupCheck(t)
  BY <1>3 DEF SetupCheck, At, Go, breaker, net, TypeInv, TypeOK, SessionOK,
     Servers, CallsOK, Calls
<1>4. CASE SetupUrl(t)
  BY <1>4 DEF SetupUrl, At, SetReadyState, Go, CanFail, Again, breaker, net,
     Local, TypeInv, TypeOK, SessionOK, Servers, CallsOK, Calls
<1>5. CASE Connected(t)
  BY <1>5 DEF Connected, At, Local, Go, breaker, net, TypeInv, TypeOK,
     SessionOK, Servers, CallsOK, Calls
<1>6. CASE NotConnected(t)
  BY <1>6 DEF NotConnected, At, Again, session, breaker, net, Local, Go,
     TypeInv, TypeOK, SessionOK, Servers, CallsOK, Calls
<1>7. CASE PostReady(t)
  BY <1>7 DEF PostReady, At, SetReadyState, Go, breaker, net, TypeInv,
     TypeOK, SessionOK, Servers, CallsOK, Calls
<1>8. CASE PostNotReady(t)
  BY <1>8 DEF PostNotReady, At, CanFail, SetReadyState, Again, breaker, net,
     Local, Go, TypeInv, TypeOK, SessionOK, Servers, CallsOK, Calls
<1>9. CASE PostRefresh(t)
  BY <1>9 DEF PostRefresh, At, Go, CanFail, SetReadyState, Again, breaker,
     net, Local, TypeInv, TypeOK, SessionOK, Servers, CallsOK, Calls
<1>10. CASE PostAnswered(t)
  BY <1>10 DEF PostAnswered, At, Local, Go, breaker, net, TypeInv, TypeOK,
     SessionOK, Servers, CallsOK, Calls
<1>11. CASE PostFailed(t)
  BY <1>11 DEF PostFailed, At, CanFail, SetReadyState, Again, breaker, net,
     Local, Go, TypeInv, TypeOK, SessionOK, Servers, CallsOK, Calls
<1>12. CASE AnswerSeen(t)
  BY <1>12 DEF AnswerSeen, At, MaybeClose, Local, Go, breaker, net, Close,
     SetReadyState, TypeInv, TypeOK, SessionOK, Servers, CallsOK, Calls
<1>13. CASE AnswerTimesOut(t)
  BY <1>13 DEF AnswerTimesOut, At, MaybeClose, Again, breaker, net, Local,
     Go, Close, SetReadyState, TypeInv, TypeOK, SessionOK, Servers, CallsOK,
     Calls
<1>14. CASE Breaker(t)
  BY <1>14 DEF Breaker, At, breaker, Failing, Go, session, net, TypeInv,
     TypeOK, SessionOK, Servers, CallsOK, Calls
<1>15. CASE Vlt(t)
  BY <1>15 DEF Vlt, At, Close, Local, Go, breaker, net, SetReadyState,
     TypeInv, TypeOK, SessionOK, Servers, CallsOK, Calls
<1>16. CASE VltEnd(t)
  BY <1>16 DEF VltEnd, At, Go, breaker, net, TypeInv, TypeOK, SessionOK,
     Servers, CallsOK, Calls
<1>17. CASE Return(t)
  BY <1>17 DEF Return, At, Local, NoCall, Go, session, breaker, net,
     TypeInv, TypeOK, SessionOK, Servers, CallsOK, Calls
<1> QED
  BY <1>1, <1>2, <1>3, <1>4, <1>5, <1>6, <1>7, <1>8, <1>9, <1>10, <1>11,
     <1>12, <1>13, <1>14, <1>15, <1>16, <1>17 DEF SendStep

LEMMA SessionOthers ==
    ASSUME TypeInv, CloseSession \/ ArmStep \/ CooldownElapses \/ NetChanges
    PROVE  SessionOK'
<1>1. CASE CloseSession
  BY <1>1 DEF CloseSession, At, Go, Close, breaker, net, SetReadyState,
     TypeInv, TypeOK, SessionOK, Servers, CallsOK, Calls
<1>2. CASE ArmBegin
  BY <1>2 DEF ArmBegin, At, Go, SetReadyState, breaker, net, TypeInv,
     TypeOK, SessionOK, Servers, CallsOK, Calls
<1>3. CASE ArmCheck
  BY <1>3 DEF ArmCheck, At, Go, breaker, net, TypeInv, TypeOK, SessionOK,
     Servers, CallsOK, Calls
<1>4. CASE Arm
  BY <1>4 DEF Arm, At, SetReadyState, Go, breaker, net, TypeInv, TypeOK,
     SessionOK, Servers, CallsOK, Calls
<1>5. CASE FollowState
  BY <1>5 DEF FollowState, At, breaker, net, TypeInv, TypeOK, SessionOK,
     Servers, CallsOK, Calls
<1>6. CASE CooldownElapses
  BY <1>6 DEF CooldownElapses, session, net, TypeInv, TypeOK, SessionOK,
     Servers, CallsOK, Calls
<1>7. CASE NetChanges
  BY <1>7 DEF NetChanges, session, breaker, TypeInv, TypeOK, SessionOK,
     Servers, CallsOK, Calls
<1> QED
  BY <1>1, <1>2, <1>3, <1>4, <1>5, <1>6, <1>7 DEF ArmStep

LEMMA FlagsThreads ==
    ASSUME TypeInv, NEW t \in Threads, Begin(t) \/ SendStep(t)
    PROVE  FlagsOK'
<1>1. CASE Begin(t)
  BY <1>1 DEF Begin, At, Arming, Local, NoCall, Go, breaker, net, TypeInv,
     TypeOK, FlagsOK
<1>2. CASE SetupPrepare(t)
  BY <1>2 DEF SetupPrepare, At, Go, SetReadyState, Again, breaker, net,
     Local, TypeInv, TypeOK, FlagsOK
<1>3. CASE SetupCheck(t)
  BY <1>3 DEF SetupCheck, At, Go, breaker, net, TypeInv, TypeOK, FlagsOK
<1>4. CASE SetupUrl(t)
  BY <1>4 DEF SetupUrl, At, SetReadyState, Go, CanFail, Again, breaker, net,
     Local, TypeInv, TypeOK, FlagsOK
<1>5. CASE Connected(t)
  BY <1>5 DEF Connected, At, Local, Go, breaker, net, TypeInv, TypeOK,
     FlagsOK
<1>6. CASE NotConnected(t)
  BY <1>6 DEF NotConnected, At, Again, session, breaker, net, Local, Go,
     TypeInv, TypeOK, FlagsOK
<1>7. CASE PostReady(t)
  BY <1>7 DEF PostReady, At, SetReadyState, Go, breaker, net, TypeInv,
     TypeOK, FlagsOK
<1>8. CASE PostNotReady(t)
  BY <1>8 DEF PostNotReady, At, CanFail, SetReadyState, Again, breaker, net,
     Local, Go, TypeInv, TypeOK, FlagsOK
<1>9. CASE PostRefresh(t)
  BY <1>9 DEF PostRefresh, At, Go, CanFail, SetReadyState, Again, breaker,
     net, Local, TypeInv, TypeOK, FlagsOK
<1>10. CASE PostAnswered(t)
  BY <1>10 DEF PostAnswered, At, Local, Go, breaker, net, TypeInv, TypeOK,
     FlagsOK
<1>11. CASE PostFailed(t)
  BY <1>11 DEF PostFailed, At, CanFail, SetReadyState, Again, breaker, net,
     Local, Go, TypeInv, TypeOK, FlagsOK
<1>12. CASE AnswerSeen(t)
  BY <1>12 DEF AnswerSeen, At, MaybeClose, Local, Go, breaker, net, Close,
     SetReadyState, TypeInv, TypeOK, FlagsOK
<1>13. CASE AnswerTimesOut(t)
  BY <1>13 DEF AnswerTimesOut, At, MaybeClose, Again, breaker, net, Local,
     Go, Close, SetReadyState, TypeInv, TypeOK, FlagsOK
<1>14. CASE Breaker(t)
  BY <1>14 DEF Breaker, At, breaker, Failing, Go, session, net, TypeInv,
     TypeOK, FlagsOK
<1>15. CASE Vlt(t)
  BY <1>15 DEF Vlt, At, Close, Local, Go, breaker, net, SetReadyState,
     TypeInv, TypeOK, FlagsOK
<1>16. CASE VltEnd(t)
  BY <1>16 DEF VltEnd, At, Go, breaker, net, TypeInv, TypeOK, FlagsOK
<1>17. CASE Return(t)
  BY <1>17 DEF Return, At, Local, NoCall, Go, session, breaker, net,
     TypeInv, TypeOK, FlagsOK
<1> QED
  BY <1>1, <1>2, <1>3, <1>4, <1>5, <1>6, <1>7, <1>8, <1>9, <1>10, <1>11,
     <1>12, <1>13, <1>14, <1>15, <1>16, <1>17 DEF SendStep

LEMMA FlagsOthers ==
    ASSUME TypeInv, CloseSession \/ ArmStep \/ CooldownElapses \/ NetChanges
    PROVE  FlagsOK'
<1>1. CASE CloseSession
  BY <1>1 DEF CloseSession, At, Go, Close, breaker, net, SetReadyState,
     TypeInv, TypeOK, FlagsOK
<1>2. CASE ArmBegin
  BY <1>2 DEF ArmBegin, At, Go, SetReadyState, breaker, net, TypeInv,
     TypeOK, FlagsOK
<1>3. CASE ArmCheck
  BY <1>3 DEF ArmCheck, At, Go, breaker, net, TypeInv, TypeOK, FlagsOK
<1>4. CASE Arm
  BY <1>4 DEF Arm, At, SetReadyState, Go, breaker, net, TypeInv, TypeOK,
     FlagsOK
<1>5. CASE FollowState
  BY <1>5 DEF FollowState, At, breaker, net, TypeInv, TypeOK, FlagsOK
<1>6. CASE CooldownElapses
  BY <1>6 DEF CooldownElapses, session, net, TypeInv, TypeOK, FlagsOK
<1>7. CASE NetChanges
  BY <1>7 DEF NetChanges, session, breaker, TypeInv, TypeOK, FlagsOK
<1> QED
  BY <1>1, <1>2, <1>3, <1>4, <1>5, <1>6, <1>7 DEF ArmStep

LEMMA CountThreads ==
    ASSUME TypeInv, NEW t \in Threads, Begin(t) \/ SendStep(t)
    PROVE  failCount' \in 0 .. COUNT_WIDTH - 1 /\ world' \in Worlds
<1>1. CASE Begin(t)
  BY <1>1, Sizes DEF Begin, At, Arming, Local, NoCall, Go, breaker, net,
     TypeInv, TypeOK
<1>2. CASE SetupPrepare(t)
  BY <1>2, Sizes DEF SetupPrepare, At, Go, SetReadyState, Again, breaker,
     net, Local, TypeInv, TypeOK
<1>3. CASE SetupCheck(t)
  BY <1>3, Sizes DEF SetupCheck, At, Go, breaker, net, TypeInv, TypeOK
<1>4. CASE SetupUrl(t)
  BY <1>4, Sizes DEF SetupUrl, At, SetReadyState, Go, CanFail, Again,
     breaker, net, Local, TypeInv, TypeOK
<1>5. CASE Connected(t)
  BY <1>5, Sizes DEF Connected, At, Local, Go, breaker, net, TypeInv, TypeOK
<1>6. CASE NotConnected(t)
  BY <1>6, Sizes DEF NotConnected, At, Again, session, breaker, net, Local,
     Go, TypeInv, TypeOK
<1>7. CASE PostReady(t)
  BY <1>7, Sizes DEF PostReady, At, SetReadyState, Go, breaker, net,
     TypeInv, TypeOK
<1>8. CASE PostNotReady(t)
  BY <1>8, Sizes DEF PostNotReady, At, CanFail, SetReadyState, Again,
     breaker, net, Local, Go, TypeInv, TypeOK
<1>9. CASE PostRefresh(t)
  BY <1>9, Sizes DEF PostRefresh, At, Go, CanFail, SetReadyState, Again,
     breaker, net, Local, TypeInv, TypeOK
<1>10. CASE PostAnswered(t)
  BY <1>10, Sizes DEF PostAnswered, At, Local, Go, breaker, net, TypeInv,
     TypeOK
<1>11. CASE PostFailed(t)
  BY <1>11, Sizes DEF PostFailed, At, CanFail, SetReadyState, Again,
     breaker, net, Local, Go, TypeInv, TypeOK
<1>12. CASE AnswerSeen(t)
  BY <1>12, Sizes DEF AnswerSeen, At, MaybeClose, Local, Go, breaker, net,
     Close, SetReadyState, TypeInv, TypeOK
<1>13. CASE AnswerTimesOut(t)
  BY <1>13, Sizes DEF AnswerTimesOut, At, MaybeClose, Again, breaker, net,
     Local, Go, Close, SetReadyState, TypeInv, TypeOK
<1>14. CASE Breaker(t)
  BY <1>14, Sizes DEF Breaker, At, breaker, Failing, Go, session, net,
     TypeInv, TypeOK
<1>15. CASE Vlt(t)
  BY <1>15, Sizes DEF Vlt, At, Close, Local, Go, breaker, net,
     SetReadyState, TypeInv, TypeOK
<1>16. CASE VltEnd(t)
  BY <1>16, Sizes DEF VltEnd, At, Go, breaker, net, TypeInv, TypeOK
<1>17. CASE Return(t)
  BY <1>17, Sizes DEF Return, At, Local, NoCall, Go, session, breaker, net,
     TypeInv, TypeOK
<1> QED
  BY <1>1, <1>2, <1>3, <1>4, <1>5, <1>6, <1>7, <1>8, <1>9, <1>10, <1>11,
     <1>12, <1>13, <1>14, <1>15, <1>16, <1>17 DEF SendStep

LEMMA CountOthers ==
    ASSUME TypeInv, CloseSession \/ ArmStep \/ CooldownElapses \/ NetChanges
    PROVE  failCount' \in 0 .. COUNT_WIDTH - 1 /\ world' \in Worlds
<1>1. CASE CloseSession
  BY <1>1, Sizes DEF CloseSession, At, Go, Close, breaker, net,
     SetReadyState, TypeInv, TypeOK
<1>2. CASE ArmBegin
  BY <1>2, Sizes DEF ArmBegin, At, Go, SetReadyState, breaker, net, TypeInv,
     TypeOK
<1>3. CASE ArmCheck
  BY <1>3, Sizes DEF ArmCheck, At, Go, breaker, net, TypeInv, TypeOK
<1>4. CASE Arm
  BY <1>4, Sizes DEF Arm, At, SetReadyState, Go, breaker, net, TypeInv,
     TypeOK
<1>5. CASE FollowState
  BY <1>5, Sizes DEF FollowState, At, breaker, net, TypeInv, TypeOK
<1>6. CASE CooldownElapses
  BY <1>6, Sizes DEF CooldownElapses, session, net, TypeInv, TypeOK
<1>7. CASE NetChanges
  BY <1>7, Sizes DEF NetChanges, session, breaker, TypeInv, TypeOK
<1> QED
  BY <1>1, <1>2, <1>3, <1>4, <1>5, <1>6, <1>7 DEF ArmStep

LEMMA CallThreads ==
    ASSUME TypeInv, NEW t \in Threads, Begin(t) \/ SendStep(t)
    PROVE  PcOK' /\ CallsOK' /\ Counted'
<1>1. CASE Begin(t)
  <2>1. PICK k \in BOOLEAN : Local(t, [NoCall EXCEPT !.keepAlive = k])
    BY <1>1 DEF Begin
  <2> DEFINE c == [NoCall EXCEPT !.keepAlive = k]
             l == IF offline /\ cooling THEN "vlt" ELSE "setup"
  <2>2. c \in Calls /\ c.lp3 = NoCall.lp3 /\ l \in Labels
    BY NoCallIsCall DEF Calls, Labels
  <2>3. Go(t, l)
    BY <1>1 DEF Begin
  <2>4. c.lp3 < VLT_ATTEMPTS
    BY <2>2, NoCallIsCall, Sizes
  <2> QED
    BY <2>1, <2>2, <2>3, <2>4, OwnMoves
<1>2. CASE SetupPrepare(t)
  BY <1>2, AgainMoves DEF SetupPrepare, At, Go, TypeInv, TypeOK, Counted,
     PcOK, CallsOK, Labels, Attempt
<1>3. CASE SetupCheck(t)
  BY <1>3 DEF SetupCheck, At, Go, TypeInv, TypeOK, Counted, PcOK, CallsOK,
     Labels, Attempt
<1>4. CASE SetupUrl(t)
  BY <1>4, AgainMoves DEF SetupUrl, At, Go, TypeInv, TypeOK, Counted, PcOK,
     CallsOK, Labels, Attempt
<1>5. CASE Connected(t)
  <2> DEFINE c == [call[t] EXCEPT !.isGood = call[t].isGood \/ call[t].dest = "S1"]
  <2>1. c \in Calls /\ ("post" \in Attempt => c.lp3 < VLT_ATTEMPTS)
    BY <1>5, Sizes DEF Connected, At, TypeInv, TypeOK, Counted, CallsOK, Calls, Attempt
  <2> QED
    BY <1>5, <2>1, OwnMoves DEF Connected, Labels
<1>6. CASE NotConnected(t)
  BY <1>6, AgainMoves DEF NotConnected, At, Go, TypeInv, TypeOK, Counted,
     PcOK, CallsOK, Labels, Attempt
<1>7. CASE PostReady(t)
  BY <1>7 DEF PostReady, At, Go, TypeInv, TypeOK, Counted, PcOK, CallsOK,
     Labels, Attempt
<1>8. CASE PostNotReady(t)
  BY <1>8, AgainMoves DEF PostNotReady, At, Go, TypeInv, TypeOK, Counted,
     PcOK, CallsOK, Labels, Attempt
<1>9. CASE PostRefresh(t)
  BY <1>9, AgainMoves DEF PostRefresh, At, Go, TypeInv, TypeOK, Counted,
     PcOK, CallsOK, Labels, Attempt
<1>10. CASE PostAnswered(t)
  <2> DEFINE c == [call[t] EXCEPT !.ret = call[t].ret \/ call[t].dest = "S1",
                                 !.answered = call[t].answered \cup {armed}]
  <2>1. c \in Calls /\ ("await" \in Attempt => c.lp3 < VLT_ATTEMPTS)
    BY <1>10, Sizes DEF PostAnswered, SessionOK, At, TypeInv, TypeOK, Counted, CallsOK, Calls, Attempt
  <2> QED
    BY <1>10, <2>1, OwnMoves DEF PostAnswered, Labels
<1>11. CASE PostFailed(t)
  BY <1>11, AgainMoves DEF PostFailed, At, Go, TypeInv, TypeOK, Counted,
     PcOK, CallsOK, Labels, Attempt
<1>12. CASE AnswerSeen(t)
  <2> DEFINE c == [call[t] EXCEPT !.vltGood = call[t].vltGood \/ call[t].dest = "S3"]
             l == IF call[t].dest = "S1" THEN "breaker" ELSE "vltEnd"
  <2>1. c \in Calls /\ l \in Labels \ Attempt
    BY DEF TypeInv, TypeOK, CallsOK, Calls, Labels, Attempt
  <2>2. Go(t, l) /\ Local(t, c)
    BY <1>12 DEF AnswerSeen
  <2> QED
    BY <2>1, <2>2, OwnMoves
<1>13. CASE AnswerTimesOut(t)
  BY <1>13, AgainMoves DEF AnswerTimesOut, At, Go, TypeInv, TypeOK, Counted,
     PcOK, CallsOK, Labels, Attempt
<1>14. CASE Breaker(t)
  BY <1>14 DEF Breaker, At, Go, TypeInv, TypeOK, Counted, PcOK, CallsOK,
     Labels, Attempt
<1>15. CASE Vlt(t)
  <2>1. CASE "server3" \in world
    <3> DEFINE c == [call[t] EXCEPT !.dest = "S3", !.lp3 = 0]
    <3>1. call[t] \in Calls /\ 0 \in 0 .. VLT_ATTEMPTS /\ "S3" \in Servers
      BY Sizes DEF TypeInv, TypeOK, CallsOK, Servers
    <3>2. c \in Calls /\ c.lp3 = 0
      BY <3>1 DEF Calls
    <3>3. Go(t, "setup") /\ Local(t, c)
      BY <1>15, <2>1 DEF Vlt
    <3>4. c.lp3 < VLT_ATTEMPTS
      BY <3>2, Sizes
    <3> QED
      BY <3>2, <3>3, <3>4, OwnMoves DEF Labels
  <2>2. CASE "server3" \notin world
    BY <1>15, <2>2 DEF Vlt, Go, TypeInv, TypeOK, Counted, PcOK, CallsOK, Labels, Attempt
  <2> QED
    BY <2>1, <2>2
<1>16. CASE VltEnd(t)
  BY <1>16 DEF VltEnd, At, Go, TypeInv, TypeOK, Counted, PcOK, CallsOK,
     Labels, Attempt
<1>17. CASE Return(t)
  <2>1. NoCall \in Calls
    BY NoCallIsCall
  <2>2. PICK l \in {"idle", "close"} : Go(t, l) /\ Local(t, NoCall)
    BY <1>17 DEF Return
  <2>3. l \in Labels \ Attempt
    BY DEF Labels, Attempt
  <2> QED
    BY <2>1, <2>2, <2>3, OwnMoves
<1> QED
  BY <1>1, <1>2, <1>3, <1>4, <1>5, <1>6, <1>7, <1>8, <1>9, <1>10, <1>11,
     <1>12, <1>13, <1>14, <1>15, <1>16, <1>17 DEF SendStep

LEMMA CallOthers ==
    ASSUME TypeInv, CloseSession \/ ArmStep \/ CooldownElapses \/ NetChanges
    PROVE  PcOK' /\ CallsOK' /\ Counted'
<1>1. CASE CloseSession
  BY <1>1 DEF CloseSession, At, Go, TypeInv, TypeOK, Counted, PcOK, CallsOK,
     Labels, Attempt
<1>2. CASE ArmBegin
  BY <1>2 DEF ArmBegin, At, Go, TypeInv, TypeOK, Counted, PcOK, CallsOK,
     Labels, Attempt
<1>3. CASE ArmCheck
  BY <1>3 DEF ArmCheck, At, Go, TypeInv, TypeOK, Counted, PcOK, CallsOK,
     Labels, Attempt
<1>4. CASE Arm
  BY <1>4 DEF Arm, At, Go, TypeInv, TypeOK, Counted, PcOK, CallsOK, Labels,
     Attempt
<1>5. CASE FollowState
  BY <1>5 DEF FollowState, At, TypeInv, TypeOK, Counted, PcOK, CallsOK,
     Labels, Attempt
<1>6. CASE CooldownElapses
  BY <1>6 DEF CooldownElapses, TypeInv, TypeOK, Counted, PcOK, CallsOK,
     Labels, Attempt
<1>7. CASE NetChanges
  BY <1>7 DEF NetChanges, TypeInv, TypeOK, Counted, PcOK, CallsOK, Labels,
     Attempt
<1> QED
  BY <1>1, <1>2, <1>3, <1>4, <1>5, <1>6, <1>7 DEF ArmStep

-----------------------------------------------------------------------------
LEMMA TypeInit == Init => TypeInv
<1> SUFFICES ASSUME Init PROVE TypeInv
  OBVIOUS
<1>1. SessionOK /\ FlagsOK /\ PcOK
  BY DEF Init, SessionOK, FlagsOK, PcOK, Servers, Labels
<1>2. CallsOK
  BY NoCallIsCall DEF Init, CallsOK
<1>3. Counted
  BY DEF Init, Counted, Attempt
<1> QED
  BY <1>1, <1>2, <1>3, Sizes DEF Init, TypeInv, TypeOK

LEMMA TypeStep == TypeInv /\ [Next]_vars => TypeInv'
<1> SUFFICES ASSUME TypeInv, [Next]_vars PROVE TypeInv'
  OBVIOUS
<1>1. ASSUME NEW t \in Threads, Begin(t) \/ SendStep(t) PROVE TypeInv'
  BY <1>1, SessionThreads, FlagsThreads, CountThreads, CallThreads DEF TypeInv, TypeOK
<1>2. CASE CloseSession \/ ArmStep \/ CooldownElapses \/ NetChanges
  BY <1>2, SessionOthers, FlagsOthers, CountOthers, CallOthers DEF TypeInv, TypeOK
<1>3. CASE UNCHANGED vars
  BY <1>3 DEF vars, session, breaker, net, TypeInv, TypeOK, SessionOK, FlagsOK, PcOK,
     CallsOK, Counted
<1> QED
  BY <1>1, <1>2, <1>3 DEF Next

(* The session, the flags, the circuit breaker's counter and the locals of    *)
(* SendDataToServer keep their types and the attempts their limit, for every  *)
(* limit, width of the counter and set of worlds.                            *)
THEOREM TransportTypeCorrect == Spec => []TypeOK
<1>1. TypeInv => TypeOK
  BY DEF TypeInv
<1> QED
  BY <1>1, TypeInit, TypeStep, PTL DEF Spec

-----------------------------------------------------------------------------
(* One send at a time: a thread that does anything is alone, and one that is  *)
(* inside SendDataToServer has set the flag that keeps the arming away.       *)
Alone ==
    /\ pc["server"] \in Send \cup {"idle"}
    /\ \A t \in Threads : pc[t] \in Send => isSend
    /\ \A t \in Threads : pc[t] # "idle" => \A u \in Threads \ {t} : pc[u] = "idle"

\* What the session is, at each step of t's attempt.
Meant(t) ==
    /\ pc[t] \in {"check", "url", "connect", "post", "refresh"} => url = call[t].dest
    /\ pc[t] = "connect" /\ connected => set
    /\ pc[t] = "post" => set
    /\ pc[t] = "send" => armed = call[t].dest
    /\ pc[t] = "await" => res

\* What t knows of the servers' answers, at each step of its send.
Told(t) ==
    pc[t] \in Send =>
        /\ pc[t] \in {"post", "refresh", "send", "await"} /\ call[t].dest = "S1"
              => call[t].isGood
        /\ call[t].ret => call[t].isGood
        /\ call[t].ret <=> "S1" \in call[t].answered
        /\ "S3" \in call[t].answered
              <=> call[t].vltGood \/ (pc[t] = "await" /\ call[t].dest = "S3")

\* What t reports it was told: in every world.
Honest(t) ==
    /\ call[t].ret \/ call[t].vltGood => call[t].answered # {}
    /\ pc[t] = "await" => call[t].answered # {}

SendInv ==
    /\ TypeInv
    /\ \A t \in Threads : Honest(t)
    /\ OneAtATime => Alone /\ \A t \in Threads : Meant(t) /\ Told(t)

(* A thread that steps is alone, before and after.                           *)
LEMMA AloneThreads ==
    ASSUME NEW t \in Threads, TypeInv, OneAtATime, Alone,
           Begin(t) \/ SendStep(t)
    PROVE  Alone' /\ \A u \in Threads \ {t} : pc'[u] = "idle"
<1>1. CASE Begin(t)
  BY <1>1 DEF Begin, At, Arming, Go, TypeInv, TypeOK, PcOK, Labels, Send,
     Attempt, Threads, OneAtATime, Alone
<1>2. CASE SetupPrepare(t)
  BY <1>2 DEF SetupPrepare, At, Go, Again, TypeInv, TypeOK, PcOK, Labels,
     Send, Attempt, Threads, Arming, OneAtATime, Alone
<1>3. CASE SetupCheck(t)
  BY <1>3 DEF SetupCheck, At, Go, TypeInv, TypeOK, PcOK, Labels, Send,
     Attempt, Threads, Arming, OneAtATime, Alone
<1>4. CASE SetupUrl(t)
  BY <1>4 DEF SetupUrl, At, Go, Again, TypeInv, TypeOK, PcOK, Labels, Send,
     Attempt, Threads, Arming, OneAtATime, Alone
<1>5. CASE Connected(t)
  BY <1>5 DEF Connected, At, Go, TypeInv, TypeOK, PcOK, Labels, Send,
     Attempt, Threads, Arming, OneAtATime, Alone
<1>6. CASE NotConnected(t)
  BY <1>6 DEF NotConnected, At, Again, Go, TypeInv, TypeOK, PcOK, Labels,
     Send, Attempt, Threads, Arming, OneAtATime, Alone
<1>7. CASE PostReady(t)
  BY <1>7 DEF PostReady, At, Go, TypeInv, TypeOK, PcOK, Labels, Send,
     Attempt, Threads, Arming, OneAtATime, Alone
<1>8. CASE PostNotReady(t)
  BY <1>8 DEF PostNotReady, At, Again, Go, TypeInv, TypeOK, PcOK, Labels,
     Send, Attempt, Threads, Arming, OneAtATime, Alone
<1>9. CASE PostRefresh(t)
  BY <1>9 DEF PostRefresh, At, Go, Again, TypeInv, TypeOK, PcOK, Labels,
     Send, Attempt, Threads, Arming, OneAtATime, Alone
<1>10. CASE PostAnswered(t)
  BY <1>10 DEF PostAnswered, At, Go, TypeInv, TypeOK, PcOK, Labels, Send,
     Attempt, Threads, Arming, OneAtATime, Alone
<1>11. CASE PostFailed(t)
  BY <1>11 DEF PostFailed, At, Again, Go, TypeInv, TypeOK, PcOK, Labels,
     Send, Attempt, Threads, Arming, OneAtATime, Alone
<1>12. CASE AnswerSeen(t)
  BY <1>12 DEF AnswerSeen, At, Go, TypeInv, TypeOK, PcOK, Labels, Send,
     Attempt, Threads, Arming, OneAtATime, Alone
<1>13. CASE AnswerTimesOut(t)
  BY <1>13 DEF AnswerTimesOut, At, Again, Go, TypeInv, TypeOK, PcOK, Labels,
     Send, Attempt, Threads, Arming, OneAtATime, Alone
<1>14. CASE Breaker(t)
  BY <1>14 DEF Breaker, At, Go, TypeInv, TypeOK, PcOK, Labels, Send,
     Attempt, Threads, Arming, OneAtATime, Alone
<1>15. CASE Vlt(t)
  BY <1>15 DEF Vlt, At, Go, TypeInv, TypeOK, PcOK, Labels, Send, Attempt,
     Threads, Arming, OneAtATime, Alone
<1>16. CASE VltEnd(t)
  BY <1>16 DEF VltEnd, At, Go, TypeInv, TypeOK, PcOK, Labels, Send, Attempt,
     Threads, Arming, OneAtATime, Alone
<1>17. CASE Return(t)
  BY <1>17 DEF Return, At, Go, TypeInv, TypeOK, PcOK, Labels, Send, Attempt,
     Threads, Arming, OneAtATime, Alone
<1> QED
  BY <1>1, <1>2, <1>3, <1>4, <1>5, <1>6, <1>7, <1>8, <1>9, <1>10, <1>11,
     <1>12, <1>13, <1>14, <1>15, <1>16, <1>17 DEF SendStep

LEMMA AloneOthers ==
    ASSUME TypeInv, OneAtATime, Alone,
           CloseSession \/ ArmStep \/ CooldownElapses \/ NetChanges
    PROVE  Alone'
<1>1. CASE CloseSession
  BY <1>1 DEF CloseSession, At, Go, breaker, net, TypeInv, TypeOK, PcOK,
     Labels, Send, Attempt, Threads, Arming, OneAtATime, Alone
<1>2. CASE ArmBegin
  BY <1>2 DEF ArmBegin, At, Go, breaker, net, TypeInv, TypeOK, PcOK, Labels,
     Send, Attempt, Threads, Arming, OneAtATime, Alone
<1>3. CASE ArmCheck
  BY <1>3 DEF ArmCheck, At, Go, breaker, net, TypeInv, TypeOK, PcOK, Labels,
     Send, Attempt, Threads, Arming, OneAtATime, Alone
<1>4. CASE Arm
  BY <1>4 DEF Arm, At, Go, breaker, net, TypeInv, TypeOK, PcOK, Labels,
     Send, Attempt, Threads, Arming, OneAtATime, Alone
<1>5. CASE FollowState
  BY <1>5 DEF FollowState, At, breaker, net, TypeInv, TypeOK, PcOK, Labels,
     Send, Attempt, Threads, Arming, OneAtATime, Alone
<1>6. CASE CooldownElapses
  BY <1>6 DEF CooldownElapses, session, net, TypeInv, TypeOK, PcOK, Labels,
     Send, Attempt, Threads, Arming, OneAtATime, Alone
<1>7. CASE NetChanges
  BY <1>7 DEF NetChanges, session, breaker, TypeInv, TypeOK, PcOK, Labels,
     Send, Attempt, Threads, Arming, OneAtATime, Alone
<1> QED
  BY <1>1, <1>2, <1>3, <1>4, <1>5, <1>6, <1>7 DEF ArmStep

(* The session stays as the stepping thread needs it.                        *)
LEMMA MeantThreads ==
    ASSUME NEW t \in Threads, TypeInv, Meant(t),
           Begin(t) \/ SendStep(t)
    PROVE  Meant(t)'
<1>1. CASE Begin(t)
  BY <1>1 DEF Begin, At, Local, Go, Meant, TypeInv, TypeOK, PcOK, CallsOK,
     Calls, Labels, Attempt
<1>2. CASE SetupPrepare(t)
  BY <1>2 DEF SetupPrepare, At, Go, SetReadyState, Again, Local, Meant,
     TypeInv, TypeOK, PcOK, CallsOK, Calls, Labels, Attempt
<1>3. CASE SetupCheck(t)
  BY <1>3 DEF SetupCheck, At, Go, Meant, TypeInv, TypeOK, PcOK, CallsOK,
     Calls, Labels, Attempt
<1>4. CASE SetupUrl(t)
  BY <1>4 DEF SetupUrl, At, SetReadyState, Go, Again, Local, Meant, TypeInv,
     TypeOK, PcOK, CallsOK, Calls, Labels, Attempt
<1>5. CASE Connected(t)
  BY <1>5 DEF Connected, At, Local, Go, Meant, TypeInv, TypeOK, PcOK,
     CallsOK, Calls, Labels, Attempt
<1>6. CASE NotConnected(t)
  BY <1>6 DEF NotConnected, At, Again, session, Local, Go, Meant, TypeInv,
     TypeOK, PcOK, CallsOK, Calls, Labels, Attempt
<1>7. CASE PostReady(t)
  BY <1>7 DEF PostReady, At, SetReadyState, Go, Meant, TypeInv, TypeOK,
     PcOK, CallsOK, Calls, Labels, Attempt
<1>8. CASE PostNotReady(t)
  BY <1>8 DEF PostNotReady, At, SetReadyState, Again, Local, Go, Meant,
     TypeInv, TypeOK, PcOK, CallsOK, Calls, Labels, Attempt
<1>9. CASE PostRefresh(t)
  BY <1>9 DEF PostRefresh, At, Go, SetReadyState, Again, Local, Meant,
     TypeInv, TypeOK, PcOK, CallsOK, Calls, Labels, Attempt
<1>10. CASE PostAnswered(t)
  BY <1>10 DEF PostAnswered, At, Local, Go, Meant, TypeInv, TypeOK, PcOK,
     CallsOK, Calls, Labels, Attempt
<1>11. CASE PostFailed(t)
  BY <1>11 DEF PostFailed, At, SetReadyState, Again, Local, Go, Meant,
     TypeInv, TypeOK, PcOK, CallsOK, Calls, Labels, Attempt
<1>12. CASE AnswerSeen(t)
  BY <1>12 DEF AnswerSeen, At, MaybeClose, Local, Go, Close, SetReadyState,
     Meant, TypeInv, TypeOK, PcOK, CallsOK, Calls, Labels, Attempt
<1>13. CASE AnswerTimesOut(t)
  BY <1>13 DEF AnswerTimesOut, At, MaybeClose, Again, Local, Go, Close,
     SetReadyState, Meant, TypeInv, TypeOK, PcOK, CallsOK, Calls, Labels,
     Attempt
<1>14. CASE Breaker(t)
  BY <1>14 DEF Breaker, At, Go, session, Meant, TypeInv, TypeOK, PcOK,
     CallsOK, Calls, Labels, Attempt
<1>15. CASE Vlt(t)
  BY <1>15 DEF Vlt, At, Close, Local, Go, SetReadyState, Meant, TypeInv,
     TypeOK, PcOK, CallsOK, Calls, Labels, Attempt
<1>16. CASE VltEnd(t)
  BY <1>16 DEF VltEnd, At, Go, Meant, TypeInv, TypeOK, PcOK, CallsOK, Calls,
     Labels, Attempt
<1>17. CASE Return(t)
  BY <1>17 DEF Return, At, Local, Go, session, Meant, TypeInv, TypeOK, PcOK,
     CallsOK, Calls, Labels, Attempt
<1> QED
  BY <1>1, <1>2, <1>3, <1>4, <1>5, <1>6, <1>7, <1>8, <1>9, <1>10, <1>11,
     <1>12, <1>13, <1>14, <1>15, <1>16, <1>17 DEF SendStep

(* The end of an attempt changes no more than its count.                     *)
LEMMA AgainKeeps ==
    ASSUME NEW t \in Threads, TypeInv, Again(t, call[t])
    PROVE  /\ pc'[t] \in {"breaker", "setup", "vltEnd"}
           /\ call'[t].ret = call[t].ret /\ call'[t].isGood = call[t].isGood
           /\ call'[t].vltGood = call[t].vltGood /\ call'[t].answered = call[t].answered
           /\ call'[t].dest = call[t].dest
           /\ \A u \in Threads \ {t} : pc'[u] = pc[u] /\ call'[u] = call[u]
<1>1. /\ pc'[t] \in {"breaker", "setup", "vltEnd"}
      /\ \A u \in Threads \ {t} : pc'[u] = pc[u]
  BY DEF Again, Go, TypeInv, TypeOK, PcOK
<1>2. call'[t] = [call[t] EXCEPT !.lp3 = @ + 1] /\ call[t] \in Calls
      /\ \A u \in Threads \ {t} : call'[u] = call[u]
  BY DEF Again, Local, TypeInv, TypeOK, CallsOK
<1> QED
  BY <1>1, <1>2 DEF Calls

LEMMA AgainTold ==
    ASSUME NEW t \in Threads, TypeInv, pc[t] \in Attempt \ {"await"}, Told(t),
           Again(t, call[t])
    PROVE  Told(t)'
BY AgainKeeps DEF Told, Send, Attempt

(* Its knowledge of the answers stays right.                                 *)
LEMMA ToldThreads ==
    ASSUME NEW t \in Threads, TypeInv, Meant(t), Told(t),
           Begin(t) \/ SendStep(t)
    PROVE  Told(t)'
<1>1. CASE Begin(t)
  BY <1>1 DEF Begin, At, Local, NoCall, Go, Meant, Told, Send, Servers,
     SessionOK, TypeInv, TypeOK, PcOK, CallsOK, Calls, Labels, Attempt
<1>2. CASE SetupPrepare(t)
  <2>1. pc[t] \in Attempt \ {"await"}
    BY <1>2 DEF SetupPrepare, At, Attempt
  <2>2. CASE Again(t, call[t])
    BY <2>1, <2>2, AgainTold
  <2>3. CASE Go(t, "check") /\ UNCHANGED call
    BY <1>2, <2>3 DEF SetupPrepare, At, Go, Told, Send, Attempt, TypeInv, TypeOK, PcOK
  <2> QED
    BY <1>2, <2>2, <2>3 DEF SetupPrepare
<1>3. CASE SetupCheck(t)
  BY <1>3 DEF SetupCheck, At, Go, Meant, Told, Send, Servers, SessionOK,
     TypeInv, TypeOK, PcOK, CallsOK, Calls, Labels, Attempt
<1>4. CASE SetupUrl(t)
  <2>1. pc[t] \in Attempt \ {"await"}
    BY <1>4 DEF SetupUrl, At, Attempt
  <2>2. CASE Again(t, call[t])
    BY <2>1, <2>2, AgainTold
  <2>3. CASE Go(t, "connect") /\ UNCHANGED call
    BY <1>4, <2>3 DEF SetupUrl, At, Go, Told, Send, Attempt, TypeInv, TypeOK, PcOK
  <2> QED
    BY <1>4, <2>2, <2>3 DEF SetupUrl
<1>5. CASE Connected(t)
  BY <1>5 DEF Connected, At, Local, Go, Meant, Told, Send, Servers,
     SessionOK, TypeInv, TypeOK, PcOK, CallsOK, Calls, Labels, Attempt
<1>6. CASE NotConnected(t)
  BY <1>6 DEF NotConnected, At, Again, Local, Go, Meant, Told, Send,
     Servers, SessionOK, TypeInv, TypeOK, PcOK, CallsOK, Calls, Labels,
     Attempt
<1>7. CASE PostReady(t)
  BY <1>7 DEF PostReady, At, Go, Meant, Told, Send, Servers, SessionOK,
     TypeInv, TypeOK, PcOK, CallsOK, Calls, Labels, Attempt
<1>8. CASE PostNotReady(t)
  BY <1>8 DEF PostNotReady, At, Again, Local, Go, Meant, Told, Send,
     Servers, SessionOK, TypeInv, TypeOK, PcOK, CallsOK, Calls, Labels,
     Attempt
<1>9. CASE PostRefresh(t)
  <2>1. pc[t] \in Attempt \ {"await"}
    BY <1>9 DEF PostRefresh, At, Attempt
  <2>2. CASE Again(t, call[t])
    BY <2>1, <2>2, AgainTold
  <2>3. CASE Go(t, "send") /\ UNCHANGED call
    BY <1>9, <2>3 DEF PostRefresh, At, Go, Told, Send, Attempt, TypeInv, TypeOK, PcOK
  <2> QED
    BY <1>9, <2>2, <2>3 DEF PostRefresh
<1>10. CASE PostAnswered(t)
  BY <1>10 DEF PostAnswered, At, Local, Go, Meant, Told, Send, Servers,
     SessionOK, TypeInv, TypeOK, PcOK, CallsOK, Calls, Labels, Attempt
<1>11. CASE PostFailed(t)
  BY <1>11 DEF PostFailed, At, Again, Local, Go, Meant, Told, Send, Servers,
     SessionOK, TypeInv, TypeOK, PcOK, CallsOK, Calls, Labels, Attempt
<1>12. CASE AnswerSeen(t)
  BY <1>12 DEF AnswerSeen, At, Local, Go, Meant, Told, Send, Servers,
     SessionOK, TypeInv, TypeOK, PcOK, CallsOK, Calls, Labels, Attempt
<1>13. CASE AnswerTimesOut(t)
  BY <1>13 DEF AnswerTimesOut, At, Again, Local, Go, Meant, Told, Send,
     Servers, SessionOK, TypeInv, TypeOK, PcOK, CallsOK, Calls, Labels,
     Attempt
<1>14. CASE Breaker(t)
  BY <1>14 DEF Breaker, At, Go, Meant, Told, Send, Servers, SessionOK,
     TypeInv, TypeOK, PcOK, CallsOK, Calls, Labels, Attempt
<1>15. CASE Vlt(t)
  <2>1. pc[t] = "vlt" /\ pc[t] \in Send
    BY <1>15 DEF Vlt, At, Send
  <2>2. CASE Local(t, [call[t] EXCEPT !.dest = "S3", !.lp3 = 0]) /\ Go(t, "setup")
    <3>1. pc'[t] = "setup" /\ call'[t] = [call[t] EXCEPT !.dest = "S3", !.lp3 = 0]
      BY <2>2 DEF Local, Go, TypeInv, TypeOK, PcOK, CallsOK
    <3>2. /\ call'[t].ret = call[t].ret /\ call'[t].isGood = call[t].isGood
          /\ call'[t].vltGood = call[t].vltGood /\ call'[t].answered = call[t].answered
      BY <3>1 DEF TypeInv, TypeOK, CallsOK, Calls
    <3> QED
      BY <2>1, <3>1, <3>2 DEF Told
  <2>3. CASE Go(t, "return") /\ UNCHANGED call
    BY <2>1, <2>3 DEF Go, Told, TypeInv, TypeOK, PcOK
  <2> QED
    BY <1>15, <2>2, <2>3 DEF Vlt
<1>16. CASE VltEnd(t)
  BY <1>16 DEF VltEnd, At, Go, Meant, Told, Send, Servers, SessionOK,
     TypeInv, TypeOK, PcOK, CallsOK, Calls, Labels, Attempt
<1>17. CASE Return(t)
  BY <1>17 DEF Return, At, Local, NoCall, Go, Meant, Told, Send, Servers,
     SessionOK, TypeInv, TypeOK, PcOK, CallsOK, Calls, Labels, Attempt
<1> QED
  BY <1>1, <1>2, <1>3, <1>4, <1>5, <1>6, <1>7, <1>8, <1>9, <1>10, <1>11,
     <1>12, <1>13, <1>14, <1>15, <1>16, <1>17 DEF SendStep

(* Whoever steps, what is reported was told.                                 *)
LEMMA HonestThreads ==
    ASSUME NEW t \in Threads, TypeInv,
           \A u \in Threads : Honest(u),
           Begin(t) \/ SendStep(t)
    PROVE  \A u \in Threads : Honest(u)'
<1>1. CASE Begin(t)
  BY <1>1 DEF Begin, At, Local, NoCall, Go, Honest, TypeInv, TypeOK, PcOK,
     CallsOK, Calls, SessionOK, Servers
<1>2. CASE SetupPrepare(t)
  <2>1. CASE Again(t, call[t])
    BY <2>1, AgainKeeps DEF Honest
  <2>2. CASE Go(t, "check") /\ UNCHANGED call
    BY <2>2 DEF Go, Honest, TypeInv, TypeOK, PcOK
  <2> QED
    BY <1>2, <2>1, <2>2 DEF SetupPrepare
<1>3. CASE SetupCheck(t)
  BY <1>3 DEF SetupCheck, At, Go, Honest, TypeInv, TypeOK, PcOK, CallsOK,
     Calls, SessionOK, Servers
<1>4. CASE SetupUrl(t)
  <2>1. CASE Again(t, call[t])
    BY <2>1, AgainKeeps DEF Honest
  <2>2. CASE Go(t, "connect") /\ UNCHANGED call
    BY <2>2 DEF Go, Honest, TypeInv, TypeOK, PcOK
  <2> QED
    BY <1>4, <2>1, <2>2 DEF SetupUrl
<1>5. CASE Connected(t)
  BY <1>5 DEF Connected, At, Local, Go, Honest, TypeInv, TypeOK, PcOK,
     CallsOK, Calls, SessionOK, Servers
<1>6. CASE NotConnected(t)
  BY <1>6 DEF NotConnected, At, Again, Local, Go, Honest, TypeInv, TypeOK,
     PcOK, CallsOK, Calls, SessionOK, Servers
<1>7. CASE PostReady(t)
  BY <1>7 DEF PostReady, At, Go, Honest, TypeInv, TypeOK, PcOK, CallsOK,
     Calls, SessionOK, Servers
<1>8. CASE PostNotReady(t)
  BY <1>8 DEF PostNotReady, At, Again, Local, Go, Honest, TypeInv, TypeOK,
     PcOK, CallsOK, Calls, SessionOK, Servers
<1>9. CASE PostRefresh(t)
  <2>1. CASE Again(t, call[t])
    BY <2>1, AgainKeeps DEF Honest
  <2>2. CASE Go(t, "send") /\ UNCHANGED call
    BY <2>2 DEF Go, Honest, TypeInv, TypeOK, PcOK
  <2> QED
    BY <1>9, <2>1, <2>2 DEF PostRefresh
<1>10. CASE PostAnswered(t)
  BY <1>10 DEF PostAnswered, At, Local, Go, Honest, TypeInv, TypeOK, PcOK,
     CallsOK, Calls, SessionOK, Servers
<1>11. CASE PostFailed(t)
  BY <1>11 DEF PostFailed, At, Again, Local, Go, Honest, TypeInv, TypeOK,
     PcOK, CallsOK, Calls, SessionOK, Servers
<1>12. CASE AnswerSeen(t)
  BY <1>12 DEF AnswerSeen, At, Local, Go, Honest, TypeInv, TypeOK, PcOK,
     CallsOK, Calls, SessionOK, Servers
<1>13. CASE AnswerTimesOut(t)
  BY <1>13 DEF AnswerTimesOut, At, Again, Local, Go, Honest, TypeInv,
     TypeOK, PcOK, CallsOK, Calls, SessionOK, Servers
<1>14. CASE Breaker(t)
  BY <1>14 DEF Breaker, At, Go, Honest, TypeInv, TypeOK, PcOK, CallsOK,
     Calls, SessionOK, Servers
<1>15. CASE Vlt(t)
  <2>1. CASE Local(t, [call[t] EXCEPT !.dest = "S3", !.lp3 = 0]) /\ Go(t, "setup")
    <3>1. /\ pc' = [pc EXCEPT ![t] = "setup"]
          /\ call' = [call EXCEPT ![t] = [call[t] EXCEPT !.dest = "S3", !.lp3 = 0]]
      BY <2>1 DEF Local, Go
    <3>2. /\ call'[t].ret = call[t].ret /\ call'[t].vltGood = call[t].vltGood
          /\ call'[t].answered = call[t].answered /\ pc'[t] = "setup"
          /\ \A u \in Threads \ {t} : pc'[u] = pc[u] /\ call'[u] = call[u]
      BY <3>1 DEF TypeInv, TypeOK, CallsOK, Calls, PcOK
    <3> QED
      BY <3>2 DEF Honest
  <2>2. CASE Go(t, "return") /\ UNCHANGED call
    BY <2>2 DEF Go, Honest, TypeInv, TypeOK, PcOK
  <2> QED
    BY <1>15, <2>1, <2>2 DEF Vlt
<1>16. CASE VltEnd(t)
  BY <1>16 DEF VltEnd, At, Go, Honest, TypeInv, TypeOK, PcOK, CallsOK,
     Calls, SessionOK, Servers
<1>17. CASE Return(t)
  BY <1>17 DEF Return, At, Local, NoCall, Go, Honest, TypeInv, TypeOK, PcOK,
     CallsOK, Calls, SessionOK, Servers
<1> QED
  BY <1>1, <1>2, <1>3, <1>4, <1>5, <1>6, <1>7, <1>8, <1>9, <1>10, <1>11,
     <1>12, <1>13, <1>14, <1>15, <1>16, <1>17 DEF SendStep

LEMMA HonestOthers ==
    ASSUME TypeInv, \A u \in Threads : Honest(u),
           CloseSession \/ ArmStep \/ CooldownElapses \/ NetChanges
    PROVE  \A u \in Threads : Honest(u)'
<1>1. CASE CloseSession
  BY <1>1 DEF CloseSession, At, Go, Honest, TypeInv, TypeOK, PcOK, CallsOK,
     Calls
<1>2. CASE ArmBegin
  BY <1>2 DEF ArmBegin, At, Go, Honest, TypeInv, TypeOK, PcOK, CallsOK,
     Calls
<1>3. CASE ArmCheck
  BY <1>3 DEF ArmCheck, At, Go, Honest, TypeInv, TypeOK, PcOK, CallsOK,
     Calls
<1>4. CASE Arm
  BY <1>4 DEF Arm, At, Go, Honest, TypeInv, TypeOK, PcOK, CallsOK, Calls
<1>5. CASE FollowState
  BY <1>5 DEF FollowState, At, Honest, TypeInv, TypeOK, PcOK, CallsOK, Calls
<1>6. CASE CooldownElapses
  BY <1>6 DEF CooldownElapses, Honest, TypeInv, TypeOK, PcOK, CallsOK, Calls
<1>7. CASE NetChanges
  BY <1>7 DEF NetChanges, Honest, TypeInv, TypeOK, PcOK, CallsOK, Calls
<1> QED
  BY <1>1, <1>2, <1>3, <1>4, <1>5, <1>6, <1>7 DEF ArmStep

(* The rest of the system leaves a sending thread its session.               *)
LEMMA SentOthers ==
    ASSUME TypeInv, OneAtATime, Alone,
           \A t \in Threads : Meant(t) /\ Told(t),
           CloseSession \/ ArmStep \/ CooldownElapses \/ NetChanges
    PROVE  \A t \in Threads : Meant(t)' /\ Told(t)'
<1>1. CASE CloseSession
  BY <1>1 DEF CloseSession, At, Go, Close, breaker, net, SetReadyState,
     TypeInv, TypeOK, PcOK, Labels, Send, Attempt, Threads, Arming,
     OneAtATime, Alone, Meant, Told
<1>2. CASE ArmBegin
  BY <1>2 DEF ArmBegin, At, Go, SetReadyState, breaker, net, TypeInv,
     TypeOK, PcOK, Labels, Send, Attempt, Threads, Arming, OneAtATime,
     Alone, Meant, Told
<1>3. CASE ArmCheck
  BY <1>3 DEF ArmCheck, At, Go, breaker, net, TypeInv, TypeOK, PcOK, Labels,
     Send, Attempt, Threads, Arming, OneAtATime, Alone, Meant, Told
<1>4. CASE Arm
  BY <1>4 DEF Arm, At, SetReadyState, Go, breaker, net, TypeInv, TypeOK,
     PcOK, Labels, Send, Attempt, Threads, Arming, OneAtATime, Alone, Meant,
     Told
<1>5. CASE FollowState
  BY <1>5 DEF FollowState, At, breaker, net, TypeInv, TypeOK, PcOK, Labels,
     Send, Attempt, Threads, Arming, OneAtATime, Alone, Meant, Told
<1>6. CASE CooldownElapses
  BY <1>6 DEF CooldownElapses, session, net, TypeInv, TypeOK, PcOK, Labels,
     Send, Attempt, Threads, Arming, OneAtATime, Alone, Meant, Told
<1>7. CASE NetChanges
  BY <1>7 DEF NetChanges, session, breaker, TypeInv, TypeOK, PcOK, Labels,
     Send, Attempt, Threads, Arming, OneAtATime, Alone, Meant, Told
<1> QED
  BY <1>1, <1>2, <1>3, <1>4, <1>5, <1>6, <1>7 DEF ArmStep

LEMMA SendInit == Init => SendInv
<1> SUFFICES ASSUME Init PROVE SendInv
  OBVIOUS
<1>1. pc = [t \in Threads |-> "idle"]
  BY DEF Init
<1>2. Alone
  BY <1>1 DEF Alone, Send, Attempt, Threads
<1>3. \A t \in Threads : Meant(t) /\ Told(t)
  BY <1>1 DEF Meant, Told, Send, Attempt
<1>4. \A t \in Threads : Honest(t)
  BY DEF Init, Honest, NoCall
<1> QED
  BY <1>2, <1>3, <1>4, TypeInit DEF SendInv

LEMMA SendStepKeeps == SendInv /\ [Next]_vars => SendInv'
<1> SUFFICES ASSUME SendInv, [Next]_vars PROVE SendInv'
  OBVIOUS
<1>1. TypeInv /\ TypeInv'
  BY TypeStep DEF SendInv
<1>2. world' = world
  BY DEF Next, SendStep, ArmStep, vars, Begin, SetupPrepare, SetupCheck,
     SetupUrl, Connected, NotConnected, PostReady, PostNotReady,
     PostRefresh, PostAnswered, PostFailed, AnswerSeen, AnswerTimesOut,
     Breaker, Vlt, VltEnd, Return, CloseSession, ArmBegin, ArmCheck, Arm,
     FollowState, CooldownElapses, NetChanges
<1>3. \A u \in Threads : Honest(u)'
  BY <1>1, HonestThreads, HonestOthers DEF SendInv, Next, vars, Honest
<1>4. SUFFICES ASSUME OneAtATime
               PROVE  Alone' /\ \A t \in Threads : Meant(t)' /\ Told(t)'
  BY <1>1, <1>2, <1>3 DEF SendInv, OneAtATime
<1>5. Alone /\ \A t \in Threads : Meant(t) /\ Told(t)
  BY <1>4 DEF SendInv
<1>6. ASSUME NEW t \in Threads, Begin(t) \/ SendStep(t)
      PROVE  Alone' /\ \A u \in Threads : Meant(u)' /\ Told(u)'
  <2>1. Alone' /\ \A u \in Threads \ {t} : pc'[u] = "idle"
    BY <1>1, <1>4, <1>5, <1>6, AloneThreads
  <2>2. Meant(t)' /\ Told(t)'
    BY <1>1, <1>5, <1>6, MeantThreads, ToldThreads
  <2>3. ASSUME NEW u \in Threads \ {t} PROVE Meant(u)' /\ Told(u)'
    BY <2>1 DEF Meant, Told, Send, Attempt
  <2> QED
    BY <2>1, <2>2, <2>3
<1>7. CASE CloseSession \/ ArmStep \/ CooldownElapses \/ NetChanges
  BY <1>1, <1>4, <1>5, <1>7, AloneOthers, SentOthers
<1>8. CASE UNCHANGED vars
  BY <1>5, <1>8 DEF vars, session, breaker, net, Alone, Meant, Told
<1> QED
  BY <1>6, <1>7, <1>8 DEF Next

(* As long as one thread posts at a time, a packet is posted to the server it *)
(* is meant for: the URL the modem has is the one this post put there.        *)
THEOREM PostsMeant == Spec => PostsWhereMeant
<1>1. SendInv /\ [Next]_vars =>
        [OneAtATime => \A t \in Threads : PostAnswered(t) => armed = call[t].dest]_vars
  BY DEF SendInv, Meant, PostAnswered, At
<1> QED
  BY <1>1, SendInit, SendStepKeeps, PTL DEF Spec, PostsWhereMeant

(* What SendDataToServer reports as delivered a server answered, in every      *)
(* world; and one send at a time reports all that was answered.               *)
THEOREM DeliveredMeansAnswered == Spec => DeliveredIffAnswered
<1>1. ASSUME SendInv, NEW t \in Threads, Return(t)
      PROVE  /\ Result(t) => call[t].answered # {}
             /\ OneAtATime /\ call[t].answered # {} => Result(t)
  <2>1. Result(t) => call[t].answered # {}
    BY <1>1 DEF SendInv, Honest, Result
  <2>2. ASSUME OneAtATime, call[t].answered # {} PROVE Result(t)
    <3>1. Told(t) /\ pc[t] = "return" /\ pc[t] \in Send
      BY <1>1, <2>2 DEF SendInv, Return, At, Send
    <3>2. "S1" \in call[t].answered \/ "S3" \in call[t].answered
      BY <1>1, <2>2 DEF SendInv, TypeInv, TypeOK, CallsOK, Calls, Servers
    <3> QED
      BY <3>1, <3>2 DEF Result, Told
  <2> QED
    BY <2>1, <2>2
<1>2. SendInv /\ [Next]_vars =>
        [\A t \in Threads : Return(t) =>
            /\ Result(t) => call[t].answered # {}
            /\ OneAtATime /\ call[t].answered # {} => Result(t)]_vars
  BY <1>1
<1> QED
  BY <1>2, SendInit, SendStepKeeps, PTL DEF Spec, DeliveredIffAnswered

====
