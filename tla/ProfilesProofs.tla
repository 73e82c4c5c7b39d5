--------------------------- MODULE ProfilesProofs ---------------------------
(***************************************************************************)
(* Theorems about Profiles for any number of profiles, any network, any     *)
(* number of disturbances and any set of worlds.                            *)
(***************************************************************************)
EXTENDS Profiles, TLAPS, WellFoundedInduction

\* What the types rest on: a command goes out for a profile the SIM supports.
TargetOK ==
    thread.pc \in {"verify", "commit", "mark"} => thread.target \in Profiles

TypeInv == TypeOK /\ TargetOK

\* The refusals of this window are refusals of this profile.
WindowInv == TypeInv /\ deny <= denials

\* Where the device's idea of its profile is, relative to the SIM's.
Moving == {"verify", "commit"}

StepInv ==
    /\ At("verify") => imsi = cur /\ sim \in {cur, thread.target}
    /\ ~ At("verify") => imsi \in {NONE, sim}
    /\ At("commit") => sim = thread.target
    /\ thread.pc \notin Moving => cur = sim
    /\ imsi = NONE => /\ gsm = "nosim" /\ bearer = "down" /\ ~ late
                      /\ thread.pc \in {"loop", "check"} /\ ~ thread.nested
    /\ cur # NONE

\* What the device was connected with.
ReachedInv ==
    /\ bearer = "pending" => At("wait")
    /\ thread.pc \in Moving /\ sim # cur => bearer = "down"
    /\ bearer = "up" => sim \in reached
    /\ active.reason # "none" => active.profile \in reached

KnownInv == TypeInv /\ (Known => StepInv /\ ReachedInv)

-----------------------------------------------------------------------------
LEMMA Sizes ==
    /\ N \in Nat /\ N >= 1 /\ DefProfile \in Profiles
    /\ MAX_CONSECUTIVE_FAILS \in Nat /\ MAX_CONSECUTIVE_FAILS >= 1
    /\ MAX_GPRS_INIT_FAILS \in Nat /\ MAX_GPRS_INIT_FAILS >= 1
    /\ DENY_WINDOW \in Nat /\ MAX_FAULTS \in Nat
    /\ WIDTH \in Nat /\ WIDTH >= 2
BY ProfilesAssumption DEF Profiles

(* A set of naturals that is not empty has a least element.                  *)
LEMMA Least ==
    ASSUME NEW T \in SUBSET Nat, T # {}
    PROVE  \E x \in T : \A y \in T : x <= y
<1>1. IsWellFoundedOn(OpToRel(<, Nat), Nat)
  BY NatLessThanWellFounded, Zenon
<1>2. PICK x \in T : \A y \in T : ~ (<<y, x>> \in OpToRel(<, Nat))
  BY <1>1, WFMin, Zenon
<1>3. ASSUME NEW y \in T PROVE x <= y
  <2>1. ~ (<<y, x>> \in OpToRel(<, Nat))
    BY <1>2, Zenon
  <2>2. ~ (y < x)
    BY <2>1 DEF OpToRel
  <2> QED
    BY <2>2
<1> QED
  BY <1>3

(* Going round from anywhere, every profile comes up within N steps.         *)
LEMMA RoundRobin ==
    ASSUME NEW p \in 0..N
    PROVE  /\ \A i \in 1..N : After(p, i) \in Profiles
           /\ \A q \in Profiles : \E i \in 1..N : After(p, i) = q
<1>1. \A i \in 1..N : After(p, i) \in Profiles
  BY Sizes DEF After, Profiles
<1>2. ASSUME NEW q \in Profiles PROVE \E i \in 1..N : After(p, i) = q
  <2>1. CASE q > p
    <3>1. q - p \in 1..N /\ After(p, q - p) = q
      BY <2>1, Sizes DEF After, Profiles
    <3> QED
      BY <3>1
  <2>2. CASE ~ (q > p)
    <3>1. q - p + N \in 1..N /\ After(p, q - p + N) = q
      BY <2>2, Sizes DEF After, Profiles
    <3> QED
      BY <3>1
  <2> QED
    BY <2>1, <2>2
<1> QED
  BY <1>1, <1>2

(* GetNextValidProfile returns a profile that is not blacklisted, or not any *)
(* more.                                                                     *)
LEMMA NextValidIsViable ==
    ASSUME NEW counts \in Counts, NEW p \in 0..N
    PROVE  /\ NextValid(counts, p) \in Profiles
           /\ Viable(Forgiven(counts), NextValid(counts, p))
<1>1. CASE SomeViable(counts)
  <2> DEFINE First(i) == /\ Viable(counts, After(p, i))
                         /\ \A j \in 1..(i - 1) : ~ Viable(counts, After(p, j))
  <2> DEFINE T == {i \in 1..N : Viable(counts, After(p, i))}
  <2>1. T # {}
    BY <1>1, RoundRobin DEF SomeViable
  <2>2. T \in SUBSET Nat
    BY Sizes
  <2>3. PICK i \in T : \A j \in T : i <= j
    BY <2>1, <2>2, Least
  <2>4. i \in 1..N /\ First(i)
    <3>1. ASSUME NEW j \in 1..(i - 1) PROVE ~ Viable(counts, After(p, j))
      <4>1. j \in 1..N /\ ~ (i <= j)
        BY <2>3, Sizes
      <4> QED
        BY <2>3, <4>1
    <3> QED
      BY <2>3, <3>1
  <2>5. (CHOOSE k \in 1..N : First(k)) \in 1..N /\ First(CHOOSE k \in 1..N : First(k))
    BY <2>4
  <2>6. NextValid(counts, p) = After(p, CHOOSE k \in 1..N : First(k))
    BY <1>1 DEF NextValid
  <2>7. Forgiven(counts) = counts
    BY <1>1 DEF Forgiven
  <2> HIDE DEF First
  <2>8. NextValid(counts, p) \in Profiles
    BY <2>5, <2>6, RoundRobin
  <2>9. Viable(counts, NextValid(counts, p))
    BY <2>5, <2>6 DEF First
  <2> QED
    BY <2>7, <2>8, <2>9
<1>2. CASE ~ SomeViable(counts)
  <2>1. NextValid(counts, p) = After(p, 1) /\ After(p, 1) \in Profiles
    BY <1>2, RoundRobin, Sizes DEF NextValid
  <2>2. Forgiven(counts) = [q \in Profiles |-> 0]
    BY <1>2 DEF Forgiven
  <2> QED
    BY <2>1, <2>2, Sizes DEF Viable
<1> QED
  BY <1>1, <1>2

(* What the counts become stays in range.                                    *)
LEMMA CountsTyped ==
    ASSUME NEW counts \in Counts
    PROVE  Forgiven(counts) \in Counts
BY Sizes DEF Forgiven, Counts

LEMMA FailsTyped ==
    ASSUME fails \in Counts, NEW p
    PROVE  Failed(p) \in Counts /\ Succeeded(p) \in Counts
<1>1. \A q \in Profiles : fails[q] \in Nat /\ fails[q] < WIDTH
  BY Sizes DEF Counts
<1>2. Failed(p) \in Counts
  <2>1. CASE p \in Profiles
    <3>1. (fails[p] + 1) % WIDTH \in 0..(WIDTH - 1)
      BY <1>1, <2>1, Sizes
    <3> QED
      BY <3>1 DEF Failed, Counts
  <2>2. CASE p \notin Profiles
    BY <2>2 DEF Failed, Counts
  <2> QED
    BY <2>1, <2>2
<1>3. Succeeded(p) \in Counts
  BY <1>1, Sizes DEF Succeeded, Counts
<1> QED
  BY <1>2, <1>3

LEMMA MarkedTyped ==
    ASSUME active \in Marks, NEW p \in 0..N, NEW why \in {"none", "gprs", "server"}
    PROVE  Marked(p, why) \in Marks
BY DEF Marked, Marks

LEMMA MarkedProfile ==
    ASSUME NEW p, NEW why
    PROVE  /\ Marked(p, why).profile = p
           /\ Marked(p, "none").reason # "none" => Marked(p, "none") = active
BY DEF Marked

LEMMA WantedTyped ==
    ASSUME TypeOK
    PROVE  Wanted \in Requests
<1>1. LastActive \in {NONE} \cup Profiles
  BY DEF LastActive
<1>2. FirstBoot \in Profiles
  <2>1. NextValid(fails, NONE) \in Profiles
    BY NextValidIsViable, Sizes DEF TypeOK, FileOK, NONE
  <2> QED
    BY <2>1, Sizes DEF FirstBoot
<1> QED
  BY <1>1, <1>2 DEF Wanted, TypeOK, Requests

-----------------------------------------------------------------------------
LEMMA TypeInit == Init => TypeInv
<1> SUFFICES ASSUME Init PROVE TypeInv
  OBVIOUS
<1>1. cur \in 0..N /\ sim \in Profiles
  BY Sizes DEF Init, Profiles, NONE
<1>2. FileOK
  BY <1>1, Sizes DEF Init, FileOK, Marks, Counts
<1>3. thread \in Threads /\ prfReq \in Requests
  BY DEF Init, Place, Threads, Labels, Requests
<1>4. StateOK /\ bearer = "down" /\ denials = 0
  BY Sizes DEF Init, StateOK, NONE
<1>5. FixedOK /\ reached = {}
  BY Sizes DEF Init, FixedOK
<1>6. FlagsOK
  BY DEF Init, FlagsOK
<1>7. TypeOK
  BY <1>1, <1>2, <1>3, <1>4, <1>5, <1>6, Sizes DEF TypeOK, ModemOK, PastOK
<1>8. TargetOK
  BY DEF Init, Place, TargetOK
<1> QED
  BY <1>7, <1>8 DEF TypeInv

(* The thread is where Goto sends it, with what it had.                      *)
LEMMA GotoMoves ==
    ASSUME thread \in Threads, NEW l \in Labels, Goto(l)
    PROVE  /\ thread' \in Threads /\ thread'.pc = l
           /\ thread'.target = thread.target /\ thread'.try = thread.try
           /\ thread'.nested = thread.nested
BY DEF Goto, Threads

LEMMA ReturnedTyped ==
    ASSUME thread \in Threads
    PROVE  Returned \in Threads /\ Returned.pc \in {"loop", "denied"}
BY DEF Returned, Place, Threads, Labels, Requests

(* The steps that change a part of the state.                                *)
LEMMA FileChanges ==
    ASSUME [Next]_vars
    PROVE  \/ UNCHANGED file
           \/ RegisterDenied \/ HasAddress \/ ScoreProfile \/ CheckRequest
           \/ StkNotReady \/ SwitchUnsupported \/ CommandFails \/ ImsiUnread
           \/ ImsiSame \/ SwitchVerified \/ SwitchSaved \/ SwitchDone
           \/ ProfileTimer \/ ServerConnects \/ PowerCut
BY DEF Next, GprsStep, SwitchStep, CallbackStep, OtherStep, vars,
   Register, Activating, Scored, Checking, Callback, Others, file, state,
   modem, fixed, past, ScoreOne, ScoreHang, DetectSim, RegisterNoSim,
   RegisterSearching, RegisterOk, RegisterWaits, RegisterFail,
   ActivateSkipped, ActivateStart, ActivateFails, WaitAborted, WaitTimedOut,
   NoAddress, ScoreOne, ScoreHang, StayActive, CheckNothing, StkReady,
   CommandSent, Activated, Refused, ActivatedLate, Deactived, Drops,
   ProfileCommand, UpdateBegins, UpdateEnds

LEMMA RequestChanges ==
    ASSUME [Next]_vars
    PROVE  \/ UNCHANGED prfReq
           \/ RegisterDenied \/ ScoreProfile \/ CheckRequest \/ StkNotReady
           \/ SwitchUnsupported \/ CommandFails \/ ImsiUnread \/ ImsiSame
           \/ SwitchDone \/ ProfileTimer \/ ProfileCommand \/ PowerCut
BY DEF Next, GprsStep, SwitchStep, CallbackStep, OtherStep, vars,
   Register, Activating, Scored, Checking, Callback, Others, file, state,
   modem, fixed, past, DetectSim, RegisterNoSim, RegisterSearching,
   RegisterOk, RegisterWaits, RegisterFail, ActivateSkipped, ActivateStart,
   ActivateFails, WaitAborted, WaitTimedOut, NoAddress, HasAddress, ScoreOne,
   ScoreHang, StayActive, CheckNothing, StkReady, CommandSent, SwitchVerified,
   SwitchSaved, Activated, Refused, ActivatedLate, Deactived, Drops,
   ServerConnects, UpdateBegins, UpdateEnds

LEMMA StateChanges ==
    ASSUME [Next]_vars
    PROVE  \/ UNCHANGED <<gsm, imsi, deny, initFails>>
           \/ DetectSim \/ RegisterNoSim \/ RegisterSearching \/ RegisterOk
           \/ RegisterWaits \/ RegisterDenied \/ RegisterFail
           \/ ActivateSkipped \/ WaitAborted \/ WaitTimedOut \/ NoAddress
           \/ ScoreOne \/ ScoreHang \/ ScoreProfile \/ StayActive
           \/ SwitchVerified \/ SwitchDone \/ Activated \/ Refused
           \/ ActivatedLate \/ Deactived \/ PowerCut
BY DEF Next, GprsStep, SwitchStep, CallbackStep, OtherStep, vars,
   Register, Activating, Scored, Checking, Callback, Others, file, state,
   modem, fixed, past, SwitchFails, ActivateStart, ActivateFails, HasAddress,
   CheckNothing, CheckRequest, StkReady, StkNotReady, SwitchUnsupported,
   CommandFails, CommandSent, ImsiUnread, ImsiSame, SwitchSaved, Drops,
   ProfileTimer, ProfileCommand, ServerConnects, UpdateBegins, UpdateEnds

LEMMA ModemChanges ==
    ASSUME [Next]_vars
    PROVE  \/ UNCHANGED <<sim, bearer>>
           \/ ActivateStart \/ ActivateFails \/ WaitAborted \/ WaitTimedOut
           \/ NoAddress \/ ScoreHang \/ StkNotReady \/ SwitchUnsupported
           \/ CommandFails \/ ImsiUnread \/ ImsiSame \/ CommandSent
           \/ Activated \/ Refused \/ Drops \/ PowerCut
BY DEF Next, GprsStep, SwitchStep, CallbackStep, OtherStep, vars,
   Register, Activating, Scored, Checking, Callback, Others, file, state,
   modem, fixed, past, DetectSim, RegisterNoSim, RegisterSearching,
   RegisterOk, RegisterWaits, RegisterDenied, RegisterFail, ActivateSkipped,
   HasAddress, ScoreOne, ScoreProfile, StayActive, CheckNothing, CheckRequest,
   StkReady, SwitchVerified, SwitchSaved, SwitchDone, ActivatedLate,
   Deactived, ProfileTimer, ProfileCommand, ServerConnects, UpdateBegins,
   UpdateEnds

LEMMA PastChanges ==
    ASSUME [Next]_vars
    PROVE  \/ UNCHANGED past
           \/ RegisterOk \/ RegisterWaits \/ SwitchDone \/ Activated
           \/ PowerCut
BY DEF Next, GprsStep, SwitchStep, CallbackStep, OtherStep, vars,
   Register, Activating, Scored, Checking, Callback, Others, file, state,
   modem, fixed, past, SwitchFails, DetectSim, RegisterNoSim,
   RegisterSearching, RegisterDenied, RegisterFail, ActivateSkipped,
   ActivateStart, ActivateFails, WaitAborted, WaitTimedOut, NoAddress,
   HasAddress, ScoreOne, ScoreHang, ScoreProfile, StayActive, CheckNothing,
   CheckRequest, StkReady, StkNotReady, SwitchUnsupported, CommandFails,
   CommandSent, ImsiUnread, ImsiSame, SwitchVerified, SwitchSaved, Refused,
   ActivatedLate, Deactived, Drops, ProfileTimer, ProfileCommand,
   ServerConnects, UpdateBegins, UpdateEnds

-----------------------------------------------------------------------------
LEMMA FileTyped ==
    ASSUME TypeInv, [Next]_vars
    PROVE  FileOK'
<1>0. /\ cur \in 0..N /\ fails \in Counts /\ active \in Marks /\ sim \in Profiles
      /\ thread \in Threads /\ TargetOK
  BY DEF TypeInv, TypeOK, FileOK, ModemOK
<1> USE <1>0
<1>1. CASE RegisterDenied
  BY <1>1, CountsTyped
  DEF RegisterDenied, Register, FileOK
<1>2. CASE HasAddress
  BY <1>2, Sizes, MarkedTyped
  DEF HasAddress, FileOK, Counts, Profiles
<1>3. CASE ScoreProfile
  BY <1>3, CountsTyped, FailsTyped
  DEF ScoreProfile, Scored, FileOK
<1>4. CASE CheckRequest
  BY <1>4, CountsTyped
  DEF CheckRequest, Checking, FileOK
<1>5. CASE StkNotReady
  BY <1>5
  DEF StkNotReady, GiveUp, Checking, FileOK, Profiles
<1>6. CASE SwitchUnsupported
  BY <1>6
  DEF SwitchUnsupported, SwitchFails, GiveUp, Checking, FileOK, Profiles
<1>7. CASE CommandFails
  BY <1>7, FailsTyped
  DEF CommandFails, SwitchFails, GiveUp, Checking, FileOK, Profiles
<1>8. CASE ImsiUnread
  BY <1>8, FailsTyped
  DEF ImsiUnread, SwitchFails, GiveUp, Checking, FileOK, Profiles
<1>9. CASE ImsiSame
  BY <1>9, FailsTyped
  DEF ImsiSame, SwitchFails, GiveUp, Checking, FileOK, Profiles
<1>10. CASE SwitchVerified
  BY <1>10, FailsTyped
  DEF SwitchVerified, FileOK
<1>11. CASE SwitchSaved
  BY <1>11
  DEF SwitchSaved, At, TargetOK, FileOK, Profiles
<1>12. CASE SwitchDone
  BY <1>12, MarkedTyped
  DEF SwitchDone, At, TargetOK, FileOK, Profiles
<1>13. CASE ProfileTimer
  BY <1>13, CountsTyped
  DEF ProfileTimer, Others, FileOK
<1>14. CASE ServerConnects
  BY <1>14, MarkedTyped
  DEF ServerConnects, Others, FileOK
<1>15. CASE PowerCut
  BY <1>15
  DEF PowerCut, FileOK, Marks
<1>16. CASE UNCHANGED file
  BY <1>16 DEF file, FileOK
<1> QED
  BY FileChanges, <1>1, <1>2, <1>3, <1>4, <1>5, <1>6, <1>7, <1>8, <1>9, <1>10,
  <1>11, <1>12, <1>13, <1>14, <1>15, <1>16

LEMMA RequestTyped ==
    ASSUME TypeInv, [Next]_vars
    PROVE  prfReq' \in Requests
<1>0. cur \in 0..N /\ fails \in Counts /\ prfReq \in Requests
  BY DEF TypeInv, TypeOK, FileOK
<1> USE <1>0
<1>1. CASE RegisterDenied
  BY <1>1, NextValidIsViable
  DEF RegisterDenied, Requests
<1>2. CASE ScoreProfile
  BY <1>2, NextValidIsViable, FailsTyped
  DEF ScoreProfile, Requests
<1>3. CASE CheckRequest
  BY <1>3, WantedTyped
  DEF CheckRequest, TypeInv
<1>4. CASE StkNotReady
  BY <1>4
  DEF StkNotReady, GiveUp, Requests
<1>5. CASE SwitchUnsupported
  BY <1>5
  DEF SwitchUnsupported, SwitchFails, GiveUp, Requests
<1>6. CASE CommandFails
  BY <1>6
  DEF CommandFails, SwitchFails, GiveUp, Requests
<1>7. CASE ImsiUnread
  BY <1>7
  DEF ImsiUnread, SwitchFails, GiveUp, Requests
<1>8. CASE ImsiSame
  BY <1>8
  DEF ImsiSame, SwitchFails, GiveUp, Requests
<1>9. CASE SwitchDone
  BY <1>9
  DEF SwitchDone, Requests
<1>10. CASE ProfileTimer
  BY <1>10, NextValidIsViable
  DEF ProfileTimer, Requests
<1>11. CASE ProfileCommand
  BY <1>11
  DEF ProfileCommand, Requests
<1>12. CASE PowerCut
  BY <1>12
  DEF PowerCut, Requests
<1>13. CASE UNCHANGED prfReq
  BY <1>13
<1> QED
  BY RequestChanges, <1>1, <1>2, <1>3, <1>4, <1>5, <1>6, <1>7, <1>8, <1>9,
  <1>10, <1>11, <1>12, <1>13

LEMMA StateTyped ==
    ASSUME TypeInv, [Next]_vars
    PROVE  StateOK'
<1>0. StateOK /\ sim \in 0..N
  BY Sizes DEF TypeInv, TypeOK, ModemOK, Profiles
<1> USE <1>0, Sizes DEF StateOK
<1>1. CASE DetectSim
  BY <1>1
  DEF DetectSim, SimRead
<1>2. CASE RegisterNoSim
  BY <1>2
  DEF RegisterNoSim, Register, SimRead, NONE
<1>3. CASE RegisterSearching
  BY <1>3
  DEF RegisterSearching, Register, SimRead, NONE
<1>4. CASE RegisterOk
  BY <1>4
  DEF RegisterOk, Register, SimRead, NONE
<1>5. CASE RegisterWaits
  BY <1>5
  DEF RegisterWaits, Register, SimRead, NONE
<1>6. CASE RegisterDenied
  BY <1>6
  DEF RegisterDenied, Register, SimRead, NONE
<1>7. CASE RegisterFail
  BY <1>7
  DEF RegisterFail
<1>8. CASE ActivateSkipped
  BY <1>8
  DEF ActivateSkipped, Activating
<1>9. CASE WaitAborted
  BY <1>9
  DEF WaitAborted, Activating
<1>10. CASE WaitTimedOut
  BY <1>10
  DEF WaitTimedOut, Activating
<1>11. CASE NoAddress
  BY <1>11
  DEF NoAddress, Activating
<1>12. CASE ScoreOne
  BY <1>12
  DEF ScoreOne, Scored
<1>13. CASE ScoreHang
  BY <1>13
  DEF ScoreHang, Scored
<1>14. CASE ScoreProfile
  BY <1>14
  DEF ScoreProfile, Scored
<1>15. CASE StayActive
  BY <1>15
  DEF StayActive
<1>16. CASE SwitchVerified
  BY <1>16
  DEF SwitchVerified
<1>17. CASE SwitchDone
  BY <1>17
  DEF SwitchDone
<1>18. CASE Activated
  BY <1>18
  DEF Activated, Callback
<1>19. CASE Refused
  BY <1>19
  DEF Refused, Callback
<1>20. CASE ActivatedLate
  BY <1>20
  DEF ActivatedLate, Callback
<1>21. CASE Deactived
  BY <1>21
  DEF Deactived, Callback
<1>22. CASE PowerCut
  BY <1>22
  DEF PowerCut, NONE
<1>23. CASE UNCHANGED <<gsm, imsi, deny, initFails>>
  BY <1>23
<1> QED
  BY StateChanges, <1>1, <1>2, <1>3, <1>4, <1>5, <1>6, <1>7, <1>8, <1>9,
  <1>10, <1>11, <1>12, <1>13, <1>14, <1>15, <1>16, <1>17, <1>18, <1>19, <1>20,
  <1>21, <1>22, <1>23

LEMMA ModemTyped ==
    ASSUME TypeInv, [Next]_vars
    PROVE  ModemOK'
<1>0. ModemOK
  BY DEF TypeInv, TypeOK
<1> USE <1>0 DEF ModemOK
<1>1. CASE ActivateStart
  BY <1>1
  DEF ActivateStart, Deactivate, Activating
<1>2. CASE ActivateFails
  BY <1>2
  DEF ActivateFails, Deactivate, Activating
<1>3. CASE WaitAborted
  BY <1>3
  DEF WaitAborted, Deactivate, Activating
<1>4. CASE WaitTimedOut
  BY <1>4
  DEF WaitTimedOut, Deactivate, Activating
<1>5. CASE NoAddress
  BY <1>5
  DEF NoAddress, Deactivate, Activating
<1>6. CASE ScoreHang
  BY <1>6
  DEF ScoreHang, Deactivate, Scored, ResetGSMModule
<1>7. CASE StkNotReady
  BY <1>7
  DEF StkNotReady, Deactivate, GiveUp, ResetGSMModule
<1>8. CASE SwitchUnsupported
  BY <1>8
  DEF SwitchUnsupported, Deactivate, SwitchFails, GiveUp, ResetGSMModule
<1>9. CASE CommandFails
  BY <1>9
  DEF CommandFails, Deactivate, SwitchFails, GiveUp, ResetGSMModule
<1>10. CASE ImsiUnread
  BY <1>10
  DEF ImsiUnread, Deactivate, SwitchFails, GiveUp, ResetGSMModule
<1>11. CASE ImsiSame
  BY <1>11
  DEF ImsiSame, Deactivate, SwitchFails, GiveUp, ResetGSMModule
<1>12. CASE CommandSent
  BY <1>12
  DEF CommandSent, Deactivate
<1>13. CASE Activated
  BY <1>13
  DEF Activated, Deactivate, Callback
<1>14. CASE Refused
  BY <1>14
  DEF Refused, Deactivate, Callback
<1>15. CASE Drops
  BY <1>15
  DEF Drops, Deactivate, Callback
<1>16. CASE PowerCut
  BY <1>16
  DEF PowerCut, Deactivate
<1>17. CASE UNCHANGED <<sim, bearer>>
  BY <1>17
<1> QED
  BY ModemChanges, <1>1, <1>2, <1>3, <1>4, <1>5, <1>6, <1>7, <1>8, <1>9,
  <1>10, <1>11, <1>12, <1>13, <1>14, <1>15, <1>16, <1>17

LEMMA PastTyped ==
    ASSUME TypeInv, [Next]_vars
    PROVE  PastOK'
<1>0. PastOK /\ sim \in Profiles
  BY DEF TypeInv, TypeOK, ModemOK
<1> USE <1>0, Sizes DEF PastOK
<1>1. CASE RegisterOk
  BY <1>1
  DEF RegisterOk, Register
<1>2. CASE RegisterWaits
  BY <1>2
  DEF RegisterWaits, Register
<1>3. CASE SwitchDone
  BY <1>3
  DEF SwitchDone
<1>4. CASE Activated
  BY <1>4
  DEF Activated, Callback
<1>5. CASE PowerCut
  BY <1>5
  DEF PowerCut
<1>6. CASE UNCHANGED past
  BY <1>6 DEF past
<1> QED
  BY PastChanges, <1>1, <1>2, <1>3, <1>4, <1>5, <1>6

(* The disturbances are counted, and the network and the world stay.         *)
LEMMA WorldStays ==
    ASSUME [Next]_vars
    PROVE  /\ UNCHANGED <<net, world>>
           /\ faults' = faults \/ (faults < MAX_FAULTS /\ faults' = faults + 1)
BY DEF Next, GprsStep, SwitchStep, CallbackStep, OtherStep, vars, Fault, SimRead,
   Register, Activating, Scored, Checking, Callback, Others, file, state,
   modem, fixed, past, SwitchFails, DetectSim, RegisterNoSim,
   RegisterSearching, RegisterOk, RegisterWaits, RegisterDenied,
   RegisterFail, ActivateSkipped, ActivateStart, ActivateFails, WaitAborted,
   WaitTimedOut, NoAddress, HasAddress, ScoreOne, ScoreHang, ScoreProfile,
   StayActive, CheckNothing, CheckRequest, StkReady, StkNotReady,
   SwitchUnsupported, CommandFails, CommandSent, ImsiUnread, ImsiSame,
   SwitchVerified, SwitchSaved, SwitchDone, Activated, Refused,
   ActivatedLate, Deactived, Drops, ProfileTimer, ProfileCommand,
   ServerConnects, UpdateBegins, UpdateEnds, PowerCut

LEMMA FixedTyped ==
    ASSUME TypeInv, [Next]_vars
    PROVE  FixedOK'
BY WorldStays, Sizes DEF TypeInv, TypeOK, FixedOK

LEMMA FlagsTyped ==
    ASSUME TypeInv, [Next]_vars
    PROVE  FlagsOK'
<1>1. FlagsOK
  BY DEF TypeInv, TypeOK
<1>2. /\ restored' \in {restored, TRUE, FALSE, restored \/ prfReq = NONE}
      /\ updating' \in {updating, TRUE, FALSE}
      /\ late' \in {late, FALSE, late \/ bearer = "pending"}
      /\ connected' \in {connected, TRUE, FALSE}
  BY DEF Next, GprsStep, SwitchStep, CallbackStep, OtherStep, vars, Deactivate,
     ResetGSMModule, GiveUp,
     Register, Activating, Scored, Checking, Callback, Others, file, state,
     modem, fixed, past, SwitchFails, DetectSim, RegisterNoSim,
     RegisterSearching, RegisterOk, RegisterWaits, RegisterDenied,
     RegisterFail, ActivateSkipped, ActivateStart, ActivateFails, WaitAborted,
     WaitTimedOut, NoAddress, HasAddress, ScoreOne, ScoreHang, ScoreProfile,
     StayActive, CheckNothing, CheckRequest, StkReady, StkNotReady,
     SwitchUnsupported, CommandFails, CommandSent, ImsiUnread, ImsiSame,
     SwitchVerified, SwitchSaved, SwitchDone, Activated, Refused,
     ActivatedLate, Deactived, Drops, ProfileTimer, ProfileCommand,
     ServerConnects, UpdateBegins, UpdateEnds, PowerCut
<1> QED
  BY <1>1, <1>2 DEF FlagsOK

(* The thread's ways.                                                        *)
LEMMA ThreadChanges ==
    ASSUME [Next]_vars
    PROVE  \/ UNCHANGED thread
           \/ Goto("check") \/ Goto("score") \/ Goto("wait")
           \/ At("switch") /\ thread.target \in Profiles /\ Goto("verify")
           \/ At("verify") /\ Goto("commit")
           \/ At("commit") /\ Goto("mark")
           \/ thread' = Returned
           \/ thread' = Trying("switch", thread.target, 2)
           \/ RegisterDenied \/ RegisterFail \/ CheckRequest \/ StkReady \/ PowerCut
BY DEF Next, GprsStep, SwitchStep, CallbackStep, OtherStep, vars, SwitchFails, GiveUp,
   Scored, Callback, Others, Checking, DetectSim, RegisterNoSim,
   RegisterSearching, RegisterOk, RegisterWaits, ActivateSkipped,
   ActivateStart, ActivateFails, WaitAborted, WaitTimedOut, NoAddress,
   HasAddress, ScoreOne, ScoreHang, ScoreProfile, StayActive, CheckNothing,
   StkNotReady, SwitchUnsupported, CommandFails, ImsiUnread, ImsiSame,
   CommandSent, SwitchVerified, SwitchSaved, SwitchDone, Activated, Refused,
   ActivatedLate, Deactived, Drops, ProfileTimer, ProfileCommand,
   ServerConnects, UpdateBegins, UpdateEnds

LEMMA ThreadTyped ==
    ASSUME TypeInv, [Next]_vars
    PROVE  thread' \in Threads /\ TargetOK'
<1>0. thread \in Threads /\ TargetOK
  BY DEF TypeInv, TypeOK
<1>1. CASE Goto("check") \/ Goto("score") \/ Goto("wait")
  BY <1>0, <1>1, GotoMoves DEF TargetOK, Labels
<1>2. CASE At("switch") /\ thread.target \in Profiles /\ Goto("verify")
  BY <1>0, <1>2, GotoMoves DEF TargetOK, Labels
<1>3. CASE (At("verify") /\ Goto("commit")) \/ (At("commit") /\ Goto("mark"))
  BY <1>0, <1>3, GotoMoves DEF TargetOK, Labels, At
<1>4. CASE thread' = Returned
  BY <1>0, <1>4, ReturnedTyped DEF TargetOK
<1>5. CASE thread' = Trying("switch", thread.target, 2)
  BY <1>0, <1>5 DEF TargetOK, Trying, Threads, Labels
<1>6. CASE RegisterDenied
  BY <1>0, <1>6 DEF TargetOK, RegisterDenied, Place, Threads, Labels, Requests
<1>7. CASE RegisterFail
  BY <1>0, <1>7 DEF TargetOK, RegisterFail, Place, Threads, Labels, Requests
<1>8. CASE CheckRequest
  BY <1>0, <1>8, WantedTyped DEF TargetOK, CheckRequest, TypeInv, Trying, Threads, Labels
<1>9. CASE StkReady
  BY <1>0, <1>9 DEF TargetOK, StkReady, Trying, Threads, Labels
<1>10. CASE PowerCut
  BY <1>0, <1>10 DEF TargetOK, PowerCut, Place, Threads, Labels, Requests
<1>11. CASE UNCHANGED thread
  BY <1>0, <1>11 DEF TargetOK
<1> QED
  BY <1>1, <1>2, <1>3, <1>4, <1>5, <1>6, <1>7, <1>8, <1>9, <1>10,
     <1>11, ThreadChanges

LEMMA TypeStep == TypeInv /\ [Next]_vars => TypeInv'
BY FileTyped, RequestTyped, StateTyped, ThreadTyped, ModemTyped, FlagsTyped,
   FixedTyped, PastTyped DEF TypeInv, TypeOK

(* Whatever the network, the modem, the other threads and the power supply   *)
(* do: profiles, counts of failures and counters stay in range, and the      *)
(* thread where it can be.                                                   *)
THEOREM ProfilesTypeCorrect == Spec => []TypeOK
<1>1. Init => TypeInv
  BY TypeInit
<1>2. TypeInv /\ [Next]_vars => TypeInv'
  BY TypeStep
<1>3. TypeInv => TypeOK
  BY DEF TypeInv
<1> QED
  BY <1>1, <1>2, <1>3, PTL DEF Spec

-----------------------------------------------------------------------------
(* The first boot asks for the default profile, or for the next viable one.  *)
LEMMA FirstBootIsViable ==
    ASSUME fails \in Counts
    PROVE  FirstBoot \in Profiles /\ Viable(Forgiven(fails), FirstBoot)
<1>1. CASE Viable(fails, DefProfile)
  <2>1. FirstBoot = DefProfile /\ DefProfile \in Profiles
    BY <1>1, Sizes DEF FirstBoot
  <2>2. Forgiven(fails) = fails
    BY <1>1, Sizes DEF Forgiven, SomeViable
  <2> QED
    BY <1>1, <2>1, <2>2
<1>2. CASE ~ Viable(fails, DefProfile)
  <2>1. FirstBoot = NextValid(fails, NONE) /\ NONE \in 0..N
    BY <1>2, Sizes DEF FirstBoot, NONE
  <2> QED
    BY <2>1, NextValidIsViable
<1> QED
  BY <1>1, <1>2

LEMMA LastActiveIsViable ==
    LastActive # NONE
      => LastActive \in Profiles /\ Viable(fails, LastActive) /\ Forgiven(fails) = fails
BY DEF LastActive, Forgiven, SomeViable

LEMMA RequestIsViable ==
    ASSUME TypeInv, [Next]_vars, prfReq' # prfReq, prfReq' # NONE, ~ ProfileCommand
    PROVE  prfReq' \in Profiles /\ Viable(fails', prfReq')
<1>0. cur \in 0..N /\ fails \in Counts
  BY DEF TypeInv, TypeOK, FileOK
<1>1. CASE RegisterDenied
  BY <1>0, <1>1, NextValidIsViable DEF RegisterDenied
<1>2. CASE ScoreProfile
  <2> DEFINE counts == IF cur = NONE THEN fails ELSE Failed(cur)
             listed == cur # NONE /\ ~ Viable(counts, cur)
  <2>1. counts \in Counts
    BY <1>0, FailsTyped
  <2>2. /\ fails' = IF listed THEN Forgiven(counts) ELSE counts
        /\ prfReq' = IF listed THEN NextValid(counts, cur) ELSE prfReq
    BY <1>2 DEF ScoreProfile
  <2> HIDE DEF counts, listed
  <2> QED
    BY <1>0, <2>1, <2>2, NextValidIsViable
<1>3. CASE CheckRequest
  <2>1. /\ prfReq' = Wanted /\ prfReq = NONE
        /\ fails' = IF cur = NONE THEN Forgiven(fails) ELSE fails
    BY <1>3 DEF CheckRequest, Wanted
  <2>2. \/ prfReq' = LastActive
        \/ cur = NONE /\ prfReq' = FirstBoot
    BY <2>1 DEF Wanted
  <2> QED
    BY <1>0, <2>1, <2>2, FirstBootIsViable, LastActiveIsViable
<1>4. CASE ProfileTimer
  BY <1>0, <1>4, NextValidIsViable DEF ProfileTimer
<1>5. CASE StkNotReady \/ SwitchUnsupported \/ CommandFails \/ ImsiUnread \/ ImsiSame
  BY <1>5 DEF StkNotReady, SwitchUnsupported, CommandFails, ImsiUnread, ImsiSame,
              SwitchFails, GiveUp
<1>6. CASE SwitchDone \/ PowerCut
  BY <1>6 DEF SwitchDone, PowerCut
<1> QED
  BY RequestChanges, <1>1, <1>2, <1>3, <1>4, <1>5, <1>6

(* Whichever of its threads asks, and however the failures, resets and       *)
(* commands before it fell: a profile the device asks for of itself is one   *)
(* it has, and not blacklisted.                                              *)
THEOREM ProfilesPickViable == Spec => AutoPicksViable
<1>1. /\ TypeInv /\ [Next]_vars
      => [prfReq' # prfReq /\ prfReq' # NONE /\ ~ ProfileCommand
          => prfReq' \in Profiles /\ Viable(fails', prfReq')]_vars
  BY RequestIsViable
<1> QED
  BY <1>1, TypeInit, TypeStep, PTL DEF Spec, AutoPicksViable

-----------------------------------------------------------------------------
LEMMA WindowChanges ==
    ASSUME [Next]_vars
    PROVE  \/ UNCHANGED <<deny, denials>>
           \/ RegisterOk \/ RegisterWaits \/ RegisterDenied \/ SwitchDone \/ PowerCut
BY DEF Next, GprsStep, SwitchStep, CallbackStep, OtherStep, vars,
   Register, Activating, Scored, Checking, Callback, Others, file, state,
   modem, fixed, past, SwitchFails, DetectSim, RegisterNoSim,
   RegisterSearching, RegisterFail, ActivateSkipped, ActivateStart,
   ActivateFails, WaitAborted, WaitTimedOut, NoAddress, HasAddress, ScoreOne,
   ScoreHang, ScoreProfile, StayActive, CheckNothing, CheckRequest, StkReady,
   StkNotReady, SwitchUnsupported, CommandFails, CommandSent, ImsiUnread,
   ImsiSame, SwitchVerified, SwitchSaved, Activated, Refused, ActivatedLate,
   Deactived, Drops, ProfileTimer, ProfileCommand, ServerConnects,
   UpdateBegins, UpdateEnds

LEMMA WindowStep == WindowInv /\ [Next]_vars => WindowInv'
<1> SUFFICES ASSUME WindowInv, [Next]_vars PROVE WindowInv'
  OBVIOUS
<1>1. TypeInv /\ deny \in 0..DENY_WINDOW /\ denials \in 0..DENY_WINDOW /\ deny <= denials
  BY DEF WindowInv, TypeInv, TypeOK, StateOK, PastOK
<1>2. TypeInv'
  BY <1>1, TypeStep
<1>3. CASE RegisterOk
  BY <1>2, <1>3 DEF RegisterOk, Register, WindowInv
<1>4. CASE RegisterWaits
  BY <1>1, <1>2, <1>4, Sizes DEF RegisterWaits, Register, WindowInv
<1>5. CASE RegisterDenied
  BY <1>1, <1>2, <1>5, Sizes DEF RegisterDenied, Register, WindowInv
<1>6. CASE SwitchDone
  BY <1>2, <1>6 DEF SwitchDone, WindowInv
<1>7. CASE PowerCut
  BY <1>2, <1>7 DEF PowerCut, WindowInv
<1>8. CASE UNCHANGED <<deny, denials>>
  BY <1>1, <1>2, <1>8 DEF WindowInv
<1> QED
  BY WindowChanges, <1>3, <1>4, <1>5, <1>6, <1>7, <1>8

(* A profile is left for refusing only after it, and not the profile before  *)
(* it, refused for the whole of the window.                                  *)
THEOREM ProfilesFreshWindow == Spec => FreshWindow
<1>1. Init => WindowInv
  BY TypeInit, Sizes DEF Init, WindowInv
<1>2. WindowInv => [RegisterDenied => denials = DENY_WINDOW]_vars
  <2> SUFFICES ASSUME WindowInv, RegisterDenied PROVE denials = DENY_WINDOW
    OBVIOUS
  <2>1. deny \in 0..DENY_WINDOW /\ denials \in 0..DENY_WINDOW /\ deny <= denials
    BY DEF WindowInv, TypeInv, TypeOK, StateOK, PastOK
  <2>2. deny >= DENY_WINDOW
    BY DEF RegisterDenied
  <2> QED
    BY <2>1, <2>2, Sizes
<1> QED
  BY <1>1, <1>2, WindowStep, PTL DEF Spec, FreshWindow

-----------------------------------------------------------------------------
(* Where the device and the SIM stand, under each step.                      *)

Standing == TypeInv /\ Known /\ StepInv /\ ReachedInv

Stands == StepInv' /\ ReachedInv'

LEMMA StandingTyped ==
    Standing => /\ thread \in Threads /\ thread.target \in Requests /\ TargetOK
                /\ sim \in Profiles /\ sim # NONE
BY Sizes DEF Standing, TypeInv, TypeOK, Threads, ModemOK, NONE, Profiles

(* Detection and registration.                                               *)
LEMMA RegisterKnows ==
    ASSUME Standing,
           \/ DetectSim \/ RegisterNoSim \/ RegisterSearching \/ RegisterOk
           \/ RegisterWaits \/ RegisterDenied \/ RegisterFail
    PROVE  Stands
<1> USE StandingTyped DEF Standing, Stands, StepInv, ReachedInv, Moving, At, NONE
<1>1. CASE DetectSim
  BY <1>1 DEF DetectSim, SimRead, Fault, Goto, file, modem, fixed, past,
     Known, Threads
<1>2. CASE RegisterNoSim
  BY <1>2 DEF RegisterNoSim, Register, Fault, Goto, modem, fixed, Known,
     Threads
<1>3. CASE RegisterSearching
  BY <1>3 DEF RegisterSearching, Register, Fault, Goto, modem, fixed, Known,
     Threads
<1>4. CASE RegisterOk
  BY <1>4 DEF RegisterOk, Register, SimRead, Goto, Fault, modem, fixed,
     Known, Threads
<1>5. CASE RegisterWaits
  BY <1>5 DEF RegisterWaits, Register, SimRead, Goto, Fault, modem, fixed,
     Known, Threads
<1>6. CASE RegisterDenied
  BY <1>6 DEF RegisterDenied, Register, SimRead, Place, Fault, modem, fixed,
     Known, Threads
<1>7. CASE RegisterFail
  BY <1>7 DEF RegisterFail, Place, file, modem, fixed, past, Threads
<1> QED
  BY <1>1, <1>2, <1>3, <1>4, <1>5, <1>6, <1>7

(* Activation.                                                               *)
LEMMA ActivateKnows ==
    ASSUME Standing,
           \/ ActivateSkipped \/ ActivateStart \/ ActivateFails \/ WaitAborted
           \/ WaitTimedOut \/ NoAddress \/ HasAddress \/ ScoreOne
           \/ ScoreHang \/ ScoreProfile \/ StayActive
    PROVE  Stands
<1> USE StandingTyped DEF Standing, Stands, StepInv, ReachedInv, Moving, At, NONE
<1>1. CASE ActivateSkipped
  BY <1>1 DEF ActivateSkipped, Goto, Activating, file, fixed, past, Threads
<1>2. CASE ActivateStart
  BY <1>2 DEF ActivateStart, Goto, Activating, file, fixed, past, Threads
<1>3. CASE ActivateFails
  BY <1>3 DEF ActivateFails, Fault, Deactivate, Goto, Activating, file,
     fixed, past, Known, Threads
<1>4. CASE WaitAborted
  BY <1>4 DEF WaitAborted, Deactivate, Goto, Activating, file, fixed, past,
     Threads
<1>5. CASE WaitTimedOut
  BY <1>5 DEF WaitTimedOut, Fault, Deactivate, Goto, Activating, file,
     fixed, past, Known, Threads
<1>6. CASE NoAddress
  BY <1>6 DEF NoAddress, Fault, Deactivate, Goto, Activating, file, fixed,
     past, Known, Threads
<1>7. CASE HasAddress
  BY <1>7, MarkedProfile DEF HasAddress, Goto, state, modem, fixed, past,
     Threads
<1>8. CASE ScoreOne
  BY <1>8 DEF ScoreOne, Scored, Goto, fixed, past, Threads
<1>9. CASE ScoreHang
  BY <1>9 DEF ScoreHang, Scored, Fault, ResetGSMModule, Deactivate, Goto,
     fixed, past, Known, Threads
<1>10. CASE ScoreProfile
  BY <1>10 DEF ScoreProfile, Scored, Goto, fixed, past, Threads
<1>11. CASE StayActive
  BY <1>11 DEF StayActive, Goto, file, modem, fixed, past, Threads
<1> QED
  BY <1>1, <1>2, <1>3, <1>4, <1>5, <1>6, <1>7, <1>8, <1>9, <1>10, <1>11

(* The switch.                                                               *)
LEMMA SwitchKnows ==
    ASSUME Standing,
           \/ CheckNothing \/ CheckRequest \/ StkReady \/ StkNotReady
           \/ SwitchUnsupported \/ CommandFails \/ CommandSent \/ ImsiUnread
           \/ ImsiSame \/ SwitchVerified \/ SwitchSaved \/ SwitchDone
    PROVE  Stands
<1> USE StandingTyped DEF Standing, Stands, StepInv, ReachedInv, Moving, At, NONE
<1>1. CASE CheckNothing
  BY <1>1 DEF CheckNothing, Returned, Checking, modem, fixed, Place, Threads
<1>2. CASE CheckRequest
  BY <1>2 DEF CheckRequest, Trying, Checking, modem, fixed, Threads
<1>3. CASE StkReady
  BY <1>3 DEF StkReady, Trying, Checking, modem, fixed, Threads
<1>4. CASE StkNotReady
  BY <1>4 DEF StkNotReady, Fault, GiveUp, Checking, fixed, ResetGSMModule,
     Returned, Place, Deactivate, Known, Threads
<1>5. CASE SwitchUnsupported
  BY <1>5 DEF SwitchUnsupported, SwitchFails, Trying, GiveUp, Checking,
     fixed, ResetGSMModule, Returned, Place, Deactivate, Threads
<1>6. CASE CommandFails
  BY <1>6 DEF CommandFails, Fault, SwitchFails, Trying, GiveUp, Checking,
     fixed, ResetGSMModule, Returned, Place, Deactivate, Known, Threads
<1>7. CASE CommandSent
  BY <1>7 DEF CommandSent, Goto, Deactivate, Checking, fixed, Threads,
     TargetOK
<1>8. CASE ImsiUnread
  BY <1>8 DEF ImsiUnread, Fault, SwitchFails, Trying, GiveUp, Checking,
     fixed, ResetGSMModule, Returned, Place, Deactivate, Known, Threads
<1>9. CASE ImsiSame
  BY <1>9 DEF ImsiSame, SwitchFails, Trying, GiveUp, Checking, fixed,
     ResetGSMModule, Returned, Place, Deactivate, Threads
<1>10. CASE SwitchVerified
  BY <1>10 DEF SwitchVerified, Goto, modem, fixed, past, Threads, TargetOK
<1>11. CASE SwitchSaved
  BY <1>11 DEF SwitchSaved, Goto, state, modem, fixed, past, Threads,
     TargetOK
<1>12. CASE SwitchDone
  BY <1>12, MarkedProfile DEF SwitchDone, Returned, modem, fixed, Place,
     Threads, TargetOK
<1> QED
  BY <1>1, <1>2, <1>3, <1>4, <1>5, <1>6, <1>7, <1>8, <1>9, <1>10, <1>11,
     <1>12

(* The callbacks, the other threads and the power supply.                    *)
LEMMA OthersKnow ==
    ASSUME Standing,
           \/ Activated \/ Refused \/ ActivatedLate \/ Deactived \/ Drops
           \/ ProfileTimer \/ ProfileCommand \/ ServerConnects \/ UpdateBegins
           \/ UpdateEnds \/ PowerCut
    PROVE  Stands
<1> USE StandingTyped DEF Standing, Stands, StepInv, ReachedInv, Moving, At, NONE
<1>1. CASE Activated
  BY <1>1 DEF Activated, Callback, file, fixed
<1>2. CASE Refused
  BY <1>2 DEF Refused, Callback, file, fixed
<1>3. CASE ActivatedLate
  BY <1>3 DEF ActivatedLate, Fault, Callback, file, fixed, Known
<1>4. CASE Deactived
  BY <1>4 DEF Deactived, Fault, Callback, file, fixed, Known
<1>5. CASE Drops
  BY <1>5 DEF Drops, Fault, Deactivate, Callback, file, fixed, Known
<1>6. CASE ProfileTimer
  BY <1>6 DEF ProfileTimer, Fault, Others, state, fixed, past, Known
<1>7. CASE ProfileCommand
  BY <1>7 DEF ProfileCommand, Fault, Others, state, fixed, past, Known
<1>8. CASE ServerConnects
  BY <1>8, MarkedProfile DEF ServerConnects, Others, state, fixed, past
<1>9. CASE UpdateBegins
  BY <1>9 DEF UpdateBegins, Fault, file, state, modem, fixed, past, Known
<1>10. CASE UpdateEnds
  BY <1>10 DEF UpdateEnds, file, state, modem, fixed, past
<1>11. CASE PowerCut
  BY <1>11 DEF PowerCut, Fault, Place, fixed, Known, Threads
<1> QED
  BY <1>1, <1>2, <1>3, <1>4, <1>5, <1>6, <1>7, <1>8, <1>9, <1>10, <1>11

(* Nothing moves.                                                            *)
LEMMA StillKnows ==
    ASSUME Standing, UNCHANGED vars
    PROVE  Stands
BY DEF vars, file, state, modem, past, Standing, Stands, StepInv, ReachedInv, Moving, At

LEMMA KnownStep == KnownInv /\ [Next]_vars => KnownInv'
<1> SUFFICES ASSUME KnownInv, [Next]_vars PROVE KnownInv'
  OBVIOUS
<1>1. TypeInv /\ TypeInv' /\ (Known' <=> Known)
  BY TypeStep, WorldStays DEF KnownInv, Known
<1>2. ASSUME Known PROVE Stands
  <2>1. Standing
    BY <1>1, <1>2 DEF KnownInv, Standing
  <2> QED
    BY <2>1, RegisterKnows, ActivateKnows, SwitchKnows, OthersKnow, StillKnows
    DEF Next, GprsStep, SwitchStep, CallbackStep, OtherStep
<1> QED
  BY <1>1, <1>2 DEF KnownInv, Stands

LEMMA KnownInit == Init => KnownInv
<1> SUFFICES ASSUME Init PROVE KnownInv
  OBVIOUS
<1>1. TypeInv
  BY TypeInit
<1>2. Known => cur = sim /\ sim # NONE
  BY <1>1, Sizes DEF Init, Known, TypeInv, TypeOK, ModemOK, Profiles, NONE
<1>3. Known => StepInv
  BY <1>2, Zenon DEF Init, StepInv, At, Place, Moving
<1>4. Known => ReachedInv
  BY DEF Init, ReachedInv, Place, Moving
<1> QED
  BY <1>1, <1>3, <1>4 DEF KnownInv

(* Outside a switch the device knows the profile its SIM is in, however      *)
(* switches fail, requests interfere and contexts come and go.               *)
THEOREM ProfilesInStep == Spec => []InStep
<1>1. KnownInv => InStep
  BY DEF KnownInv, StepInv, InStep, Moving, At
<1> QED
  BY <1>1, KnownInit, KnownStep, PTL DEF Spec

(* The profile recorded as one that reached an address or a server did reach *)
(* a PDP context: late answers and switches under way cannot credit another. *)
THEOREM ProfilesActiveReached == Spec => []ActiveReached
<1>1. KnownInv => ActiveReached
  BY DEF KnownInv, ReachedInv, ActiveReached, MarkedReached
<1> QED
  BY <1>1, KnownInit, KnownStep, PTL DEF Spec

(* The two together: what the device believes of its profile is so.          *)
THEOREM ProfilesTrue == Spec => []ProfileIsTrue
<1>1. InStep /\ ActiveReached => ProfileIsTrue
  BY DEF ProfileIsTrue
<1> QED
  BY <1>1, ProfilesInStep, ProfilesActiveReached, PTL

=============================================================================
