------------------------------ MODULE Profiles ------------------------------
(* Registration, GPRS activation and the switching between the operator       *)
(* profiles of a SIM: custom/GPRS.c with the profile files of custom/File.c.  *)
(* GPRSThreadEntry runs a state machine over GSM.GSMState and serves prfReq,  *)
(* the one request variable that registration, activation, the timer of       *)
(* Systic.c and the commands of SMS.c all write.  The modem's callbacks write *)
(* GSMState meanwhile.  The counts of failures, the current profile and the   *)
(* last active one are kept in flash and survive a power cut.                 *)
EXTENDS Naturals, FiniteSets

CONSTANTS
    N,            \* STKdata.profiles_supported
    Asked,        \* the profile numbers a command may ask for
    DefProfile,   \* VTSData.DefProfile
    MAX_CONSECUTIVE_FAILS,
    MAX_GPRS_INIT_FAILS,
    DENY_WINDOW,  \* the refusals that ProcessREGISTER waits through, 25
    WIDTH,        \* the count of failures is kept modulo this, 256
    MAX_FAULTS,   \* bound of the events that disturb a behaviour
    Nets,         \* what the profiles may be good for
    Worlds        \* the conditions under which the device may run

Profiles == 1..N
NONE == 0

Events == {"cut", "drop", "fota", "fresh", "hang", "imsi", "late", "order",
           "radio", "sim", "stk", "timer"}

ASSUME ProfilesAssumption ==
    /\ N \in Nat \ {0} /\ DefProfile \in Profiles
    /\ Asked \subseteq Nat \ {0}
    /\ MAX_CONSECUTIVE_FAILS \in Nat \ {0} /\ MAX_GPRS_INIT_FAILS \in Nat \ {0}
    /\ DENY_WINDOW \in Nat /\ MAX_FAULTS \in Nat
    /\ WIDTH \in Nat /\ WIDTH > MAX_CONSECUTIVE_FAILS
    /\ Nets \subseteq [Profiles -> {"missing", "denied", "rejects", "good"}]
    /\ Worlds \subseteq SUBSET Events

VARIABLES
    \* the device
    cur,       \* VTSState.CurrentProfile
    fails,     \* VTSState.ProfileFailCount
    active,    \* ActiveProfileState: the profile and why it counts as active
    prfReq,    \* the requested profile
    gsm,       \* GSM.GSMState
    imsi,      \* NetWork.IMSI: the profile whose IMSI it is, NONE if empty
    deny,      \* RegDenytemp
    initFails, \* gprs_fail_count
    restored,  \* s_bootActiveProfileRestoreChecked
    updating,  \* IsFotaProcessing or IsMotaProcessing
    thread,    \* where the GPRS thread is
    \* its environment
    sim,       \* the profile the SIM is in
    bearer,    \* the PDP context
    late,      \* the modem owes the answer to an activation given up
    connected, \* a server is connected
    net, world, faults,
    \* the past
    reached,   \* the profiles that had a PDP context
    denials    \* registrations refused since the profile was last switched

file == <<cur, fails, active>>
state == <<gsm, imsi, deny, initFails, restored>>
modem == <<sim, bearer, late, connected>>
fixed == <<net, world>>
past == <<reached, denials>>
vars == <<file, prfReq, state, updating, thread, modem, fixed, faults, past>>

(* The thread at a label, with nothing to switch to; nested in ProcessREGISTER *)
(* or not.                                                                    *)
Place(l, nested) == [pc |-> l, target |-> NONE, try |-> 0, nested |-> nested]

(* One of the disturbances that the behaviour may still have.                *)
Fault(e) == e \in world /\ faults < MAX_FAULTS /\ faults' = faults + 1

Init ==
    /\ net \in {n \in Nets : \E p \in Profiles : n[p] # "missing"}
    /\ world \in Worlds /\ faults = 0
    /\ sim \in {p \in Profiles : net[p] # "missing"}
    /\ cur = IF "fresh" \in world THEN NONE ELSE sim
    /\ active = [profile |-> cur, reason |-> "none"]
    /\ fails = [p \in Profiles |-> 0]
    /\ prfReq = NONE /\ gsm = "nosim" /\ imsi = NONE
    /\ deny = 0 /\ initFails = 0 /\ restored = FALSE /\ updating = FALSE
    /\ thread = Place("loop", FALSE)
    /\ bearer = "down" /\ late = FALSE /\ connected = FALSE
    /\ reached = {} /\ denials = 0

-----------------------------------------------------------------------------
(* The choice of the next profile.                                           *)

Viable(counts, p) == counts[p] < MAX_CONSECUTIVE_FAILS

SomeViable(counts) == \E p \in Profiles : Viable(counts, p)

(* The i-th profile after p, round robin.                                    *)
After(p, i) == IF p + i <= N THEN p + i ELSE p + i - N

(* GetNextValidProfile: the first viable one; when there is none, the next   *)
(* one, and all are given another chance.                                    *)
NextValid(counts, p) ==
    IF SomeViable(counts)
    THEN After(p, CHOOSE i \in 1..N :
                     /\ Viable(counts, After(p, i))
                     /\ \A j \in 1..(i - 1) : ~ Viable(counts, After(p, j)))
    ELSE After(p, 1)

\* Mutant of Forgiven: the blacklist is never emptied.
ForgivenNever(counts) == counts

Forgiven(counts) ==
    IF SomeViable(counts) THEN counts ELSE [p \in Profiles |-> 0]

(* GetBootRestoreActiveProfile                                               *)
LastActive ==
    IF active.reason # "none" /\ active.profile \in Profiles /\ Viable(fails, active.profile)
    THEN active.profile ELSE NONE

(* MarkActiveProfile: a profile known to reach the server keeps that mark.   *)
Marked(p, why) ==
    IF active.profile = p /\ active.reason \in {"server", why}
    THEN active ELSE [profile |-> p, reason |-> why]

Failed(p) == [fails EXCEPT ![p] = (@ + 1) % WIDTH]

(* SwitchProfile, its success: the others' counts decay.                     *)
Succeeded(p) ==
    [q \in Profiles |-> IF q = p \/ fails[q] = 0 THEN 0 ELSE fails[q] - 1]

(* The thread's way through GPRSThreadEntry.                                 *)
At(l) == thread.pc = l
Goto(l) == thread' = [thread EXCEPT !.pc = l]

(* With a profile to switch to, at a try.                                     *)
Trying(l, target, try) ==
    [pc |-> l, target |-> target, try |-> try, nested |-> thread.nested]

(* CheckprfReq returns, to the thread's loop or to ProcessREGISTER.          *)
Returned == Place(IF thread.nested THEN "denied" ELSE "loop", thread.nested)

-----------------------------------------------------------------------------
(* GetSimState                                                               *)

(* The IMSI is read, or the SIM card's number only.                          *)
SimRead ==
    \/ imsi' = sim /\ UNCHANGED faults
    \/ Fault("imsi") /\ UNCHANGED imsi

(* Case SIM_NOT_DETECTED of the loop.                                        *)
DetectSim ==
    /\ At("loop") /\ gsm = "nosim"
    /\ \/ SimRead /\ gsm' = "sim"
       \/ Fault("sim") /\ UNCHANGED <<gsm, imsi>>
    /\ initFails' = 0 /\ Goto("check")
    /\ UNCHANGED <<file, prfReq, deny, restored, updating, modem, fixed, past>>

(* Case SIM_DETECTED: ProcessREGISTER.                                       *)
Register(regState, regDeny) ==
    /\ At("loop") /\ gsm = "sim"
    /\ gsm' = regState /\ deny' = regDeny /\ initFails' = 0
    /\ UNCHANGED <<cur, active, restored, updating, modem, fixed, reached>>

RegisterNoSim ==
    /\ Register("nosim", deny) /\ Fault("sim") /\ Goto("check")
    /\ UNCHANGED <<fails, prfReq, imsi, denials>>

(* Searching, or the modem does not answer.                                  *)
RegisterSearching ==
    /\ Register("sim", deny) /\ Fault("radio") /\ Goto("check")
    /\ imsi' = sim
    /\ UNCHANGED <<fails, prfReq, denials>>

RegisterOk ==
    /\ net[sim] \in {"rejects", "good"}
    /\ Register("init", 0) /\ SimRead /\ Goto("check")
    /\ denials' = 0
    /\ UNCHANGED <<fails, prfReq>>

(* Refused, but a switch is not due yet or not allowed now.                  *)
RegisterWaits ==
    /\ net[sim] = "denied"
    /\ deny < DENY_WINDOW \/ updating
    /\ Register("sim", IF deny < DENY_WINDOW THEN deny + 1 ELSE deny)
    /\ SimRead /\ Goto("check")
    /\ denials' = IF denials < DENY_WINDOW THEN denials + 1 ELSE denials
    /\ UNCHANGED <<fails, prfReq>>

(* Refused for long enough: the next profile is requested and CheckprfReq    *)
(* called from here.                                                         *)
RegisterDenied ==
    /\ net[sim] = "denied" /\ deny >= DENY_WINDOW /\ ~ updating
    /\ Register("sim", 0) /\ SimRead
    /\ prfReq' = NextValid(fails, cur) /\ fails' = Forgiven(fails)
    /\ thread' = Place("check", TRUE)
    /\ UNCHANGED denials

(* REGISTER_FAIL after that call.                                            *)
RegisterFail ==
    /\ At("denied") /\ gsm' = "sim"
    /\ thread' = Place("check", FALSE)
    /\ UNCHANGED <<file, prfReq, imsi, deny, initFails, restored, updating, modem,
                   fixed, faults, past>>

-----------------------------------------------------------------------------
(* Case GPRS_INIT: ActivateGPRS                                              *)

Activating == <<file, prfReq, imsi, deny, initFails, restored, updating, sim, fixed, past>>

(* Ql_GPRS_Deactivate                                                        *)
Deactivate == bearer' = "down" /\ connected' = FALSE

ActivateSkipped ==
    /\ At("loop") /\ gsm = "init" /\ Goto("score")
    /\ \/ net[sim] = "denied" /\ gsm' = "sim"
       \/ net[sim] # "denied" /\ prfReq # NONE /\ UNCHANGED gsm
    /\ UNCHANGED <<Activating, bearer, late, connected, faults>>

(* Every try begins with giving up the context that an earlier one left.     *)
ActivateStart ==
    /\ At("loop") /\ gsm = "init" /\ net[sim] # "denied" /\ prfReq = NONE
    /\ bearer' = "pending" /\ connected' = FALSE /\ Goto("wait")
    /\ UNCHANGED <<Activating, gsm, late, faults>>

ActivateFails ==
    /\ At("loop") /\ gsm = "init" /\ net[sim] # "denied" /\ prfReq = NONE
    /\ Fault("radio") /\ Deactivate /\ Goto("score")
    /\ UNCHANGED <<Activating, gsm, late>>

(* A profile switch is requested during the wait.                            *)
WaitAborted ==
    /\ At("wait") /\ gsm # "active" /\ prfReq # NONE
    /\ Deactivate /\ gsm' = "init" /\ Goto("score")
    /\ late' = (late \/ bearer = "pending")
    /\ UNCHANGED <<Activating, faults>>

(* No answer in time, or an answer that came too late for it.                *)
WaitTimedOut ==
    /\ At("wait") /\ gsm # "active"
    /\ IF net[sim] = "good" /\ bearer = "pending"
       THEN Fault("late") ELSE UNCHANGED faults
    /\ Deactivate /\ gsm' = "init" /\ Goto("score")
    /\ late' = (late \/ bearer = "pending")
    /\ UNCHANGED Activating

(* Ql_GPRS_GetLocalIPAddress fails.                                          *)
NoAddress ==
    /\ At("wait") /\ gsm = "active"
    /\ IF bearer = "up" THEN Fault("radio") ELSE UNCHANGED faults
    /\ Deactivate /\ gsm' = "init" /\ Goto("score")
    /\ UNCHANGED <<Activating, late>>

HasAddress ==
    /\ At("wait") /\ gsm = "active" /\ bearer = "up"
    /\ active' = IF cur \in Profiles THEN Marked(cur, "gprs") ELSE active
    /\ fails' = IF cur \in Profiles THEN [fails EXCEPT ![cur] = 0] ELSE fails
    /\ Goto("score")
    /\ UNCHANGED <<cur, prfReq, state, updating, modem, fixed, faults, past>>

(* The loop counts the tries that failed.                                    *)
Scored(count) ==
    /\ At("score") /\ Goto("check") /\ initFails' = count
    /\ UNCHANGED <<cur, active, gsm, imsi, deny, restored, updating, sim, late, fixed, past>>

(* ResetGSMModule: the modem drops the connection if it obeys.               *)
ResetGSMModule ==
    \/ Deactivate
    \/ "hang" \in world /\ UNCHANGED <<bearer, connected>>

ScoreOne ==
    /\ IF gsm = "active" THEN Scored(initFails)
       ELSE initFails + 1 < MAX_GPRS_INIT_FAILS /\ Scored(initFails + 1)
    /\ UNCHANGED <<fails, prfReq, bearer, connected, faults>>

ScoreHang ==
    /\ gsm # "active" /\ initFails + 1 >= MAX_GPRS_INIT_FAILS
    /\ Scored(0) /\ Fault("hang") /\ ResetGSMModule
    /\ UNCHANGED <<fails, prfReq>>

\* Mutant of ScoreProfile: the switch is left to the timer.
ScoreProfileWaits ==
    /\ gsm # "active" /\ initFails + 1 >= MAX_GPRS_INIT_FAILS
    /\ Scored(0)
    /\ fails' = IF cur = NONE THEN fails ELSE Failed(cur)
    /\ UNCHANGED <<prfReq, bearer, connected, faults>>

(* The network rejects the profile, which counts as a failure of it.         *)
ScoreProfile ==
    /\ gsm # "active" /\ initFails + 1 >= MAX_GPRS_INIT_FAILS
    /\ Scored(0)
    /\ LET counts == IF cur = NONE THEN fails ELSE Failed(cur)
           listed == cur # NONE /\ ~ Viable(counts, cur)
       IN  /\ fails' = IF listed THEN Forgiven(counts) ELSE counts
           /\ prfReq' = IF listed THEN NextValid(counts, cur) ELSE prfReq
    /\ UNCHANGED <<bearer, connected, faults>>

(* Case GPRS_ACTIVE                                                          *)
StayActive ==
    /\ At("loop") /\ gsm = "active" /\ initFails' = 0 /\ Goto("check")
    /\ UNCHANGED <<file, prfReq, gsm, imsi, deny, restored, updating, modem, fixed,
                   faults, past>>

-----------------------------------------------------------------------------
(* CheckprfReq and SwitchProfile                                             *)

Checking == <<active, imsi, initFails, updating, fixed, denials, reached>>

(* On the first boot the default profile is wanted, unless it failed before. *)
FirstBoot == IF Viable(fails, DefProfile) THEN DefProfile ELSE NextValid(fails, NONE)

Wanted ==
    IF prfReq # NONE THEN prfReq
    ELSE IF ~ restored /\ LastActive \notin {NONE, cur} THEN LastActive
    ELSE IF cur = NONE THEN FirstBoot
    ELSE NONE

CheckNothing ==
    /\ At("check") /\ thread' = Returned
    /\ \/ (gsm = "nosim" \/ updating) /\ UNCHANGED restored
       \/ gsm # "nosim" /\ ~ updating /\ Wanted = NONE /\ restored' = TRUE
    /\ UNCHANGED <<Checking, cur, fails, prfReq, gsm, deny, modem, faults>>

CheckRequest ==
    /\ At("check") /\ gsm # "nosim" /\ ~ updating /\ Wanted # NONE
    /\ restored' = (restored \/ prfReq = NONE)
    /\ prfReq' = Wanted
    /\ fails' = IF prfReq = NONE /\ cur = NONE THEN Forgiven(fails) ELSE fails
    /\ thread' = Trying("ready", Wanted, 0)
    /\ UNCHANGED <<Checking, cur, gsm, deny, modem, faults>>

\* Mutant of GiveUp: the request stays.
GiveUpKeepsRequest ==
    /\ cur' = IF cur = NONE /\ thread.target \in Profiles THEN thread.target ELSE cur
    /\ ResetGSMModule /\ UNCHANGED prfReq
    /\ thread' = Returned

(* ClearFailedProfileSwitchRequest and the reset of the modem.               *)
GiveUp ==
    /\ cur' = IF cur = NONE /\ thread.target \in Profiles THEN thread.target ELSE cur
    /\ prfReq' = NONE
    /\ ResetGSMModule
    /\ thread' = Returned

(* EnsureSmsStkReadyForProfileSwitch                                         *)
StkReady ==
    /\ At("ready")
    /\ thread' = Trying("switch", thread.target, 1)
    /\ UNCHANGED <<Checking, cur, fails, prfReq, gsm, deny, restored, modem, faults>>

StkNotReady ==
    /\ At("ready") /\ Fault("stk") /\ GiveUp
    /\ UNCHANGED <<Checking, fails, gsm, deny, restored, sim, late>>

(* SwitchProfile fails: a second try, and no third.                          *)
SwitchFails(counts) ==
    /\ fails' = counts
    /\ \/ /\ thread.try = 1
          /\ thread' = Trying("switch", thread.target, 2)
          /\ UNCHANGED <<cur, prfReq, bearer, connected>>
       \/ thread.try = 2 /\ GiveUp
    /\ UNCHANGED <<Checking, gsm, deny, restored, sim, late>>

SwitchUnsupported ==
    /\ At("switch") /\ thread.target \notin Profiles
    /\ SwitchFails(fails) /\ UNCHANGED faults

CommandFails ==
    /\ At("switch") /\ thread.target \in Profiles
    /\ Fault("stk") /\ SwitchFails(Failed(thread.target))

(* The SIM goes to the profile, if it has it, and the modem to another network. *)
CommandSent ==
    /\ At("switch") /\ thread.target \in Profiles /\ Goto("verify")
    /\ IF net[thread.target] = "missing" \/ sim = thread.target
       THEN UNCHANGED <<sim, bearer, connected>>
       ELSE sim' = thread.target /\ Deactivate
    /\ UNCHANGED <<Checking, cur, fails, prfReq, gsm, deny, restored, late, faults>>

ImsiUnread ==
    /\ At("verify") /\ Fault("imsi") /\ SwitchFails(Failed(thread.target))

(* No known IMSI is taken for an unchanged one (strstr of an empty string).  *)
ImsiSame ==
    /\ At("verify") /\ imsi \in {NONE, sim}
    /\ SwitchFails(Failed(thread.target)) /\ UNCHANGED faults

\* Mutant of SwitchVerified: the IMSI is not compared.
SwitchVerifiedBlind ==
    /\ At("verify")
    /\ fails' = Succeeded(thread.target) /\ imsi' = sim
    /\ Goto("commit")
    /\ UNCHANGED <<cur, active, prfReq, gsm, deny, initFails, restored, updating, modem,
                   fixed, faults, past>>

SwitchVerified ==
    /\ At("verify") /\ imsi \notin {NONE, sim}
    /\ fails' = Succeeded(thread.target) /\ imsi' = sim
    /\ Goto("commit")
    /\ UNCHANGED <<cur, active, prfReq, gsm, deny, initFails, restored, updating, modem,
                   fixed, faults, past>>

SwitchSaved ==
    /\ At("commit") /\ cur' = thread.target /\ Goto("mark")
    /\ UNCHANGED <<fails, active, prfReq, state, updating, modem, fixed, faults, past>>

\* Mutant of SwitchDone: the window is not begun anew.
SwitchDoneKeepsDeny ==
    /\ At("mark") /\ thread' = Returned
    /\ active' = Marked(thread.target, "none")
    /\ prfReq' = NONE /\ gsm' = "sim" /\ denials' = 0
    /\ UNCHANGED <<cur, fails, imsi, deny, initFails, restored, updating, modem, fixed,
                   faults, reached>>

(* The new profile is marked and gets a debounce window of its own.          *)
SwitchDone ==
    /\ At("mark") /\ thread' = Returned
    /\ active' = Marked(thread.target, "none")
    /\ prfReq' = NONE /\ deny' = 0 /\ gsm' = "sim" /\ denials' = 0
    /\ UNCHANGED <<cur, fails, imsi, initFails, restored, updating, modem, fixed,
                   faults, reached>>

-----------------------------------------------------------------------------
(* The callbacks of the modem                                                *)

Callback == <<file, prfReq, imsi, deny, initFails, restored, updating, thread,
              sim, fixed, denials>>

(* Callback_GPRS_Activated, with success and without.                        *)
Activated ==
    /\ bearer = "pending" /\ net[sim] = "good"
    /\ bearer' = "up" /\ gsm' = "active"
    /\ reached' = reached \cup {sim}
    /\ UNCHANGED <<Callback, late, connected, faults>>

Refused ==
    /\ bearer = "pending" /\ net[sim] # "good"
    /\ bearer' = "down" /\ gsm' = "init"
    /\ UNCHANGED <<Callback, reached, late, connected, faults>>

(* The answer to an activation that was given up.                            *)
ActivatedLate ==
    /\ late /\ Fault("late")
    /\ late' = FALSE /\ gsm' \in {"active", "init"}
    /\ UNCHANGED <<Callback, reached, bearer, connected>>

(* Callback_GPRS_Deactived, which may also speak of an earlier context.      *)
Deactived ==
    /\ gsm = "active" /\ gsm' = "init"
    /\ IF bearer = "down" THEN UNCHANGED faults ELSE Fault("late")
    /\ UNCHANGED <<Callback, reached, bearer, late, connected>>

Drops ==
    /\ bearer = "up" /\ Fault("drop") /\ Deactivate
    /\ UNCHANGED <<Callback, reached, gsm, late>>

-----------------------------------------------------------------------------
(* The other threads                                                         *)

Others == <<cur, state, thread, updating, sim, bearer, late, fixed, past>>

(* Systic.c: no server for minutes.                                          *)
ProfileTimer ==
    /\ ~ connected /\ gsm # "nosim"
    /\ Fault("timer")
    /\ prfReq' = NextValid(fails, cur) /\ fails' = Forgiven(fails)
    /\ UNCHANGED <<Others, active, connected>>

(* SMS.c: PROFILE n, SWITCH operator.                                        *)
ProfileCommand ==
    /\ Fault("order") /\ prfReq' \in Asked
    /\ UNCHANGED <<Others, fails, active, connected>>

(* ConnectedCallback                                                         *)
ServerConnects ==
    /\ gsm = "active" /\ bearer = "up" /\ ~ connected
    /\ connected' = TRUE
    /\ active' = IF cur # NONE THEN Marked(cur, "server") ELSE active
    /\ UNCHANGED <<Others, fails, prfReq, faults>>

(* FTPStart, in the server's thread.                                         *)
UpdateBegins ==
    /\ ~ updating /\ bearer = "up" /\ Fault("fota") /\ updating' = TRUE
    /\ UNCHANGED <<file, prfReq, state, thread, modem, fixed, past>>

UpdateEnds ==
    /\ updating /\ updating' = FALSE
    /\ UNCHANGED <<file, prfReq, state, thread, modem, fixed, faults, past>>

(* The power goes and comes again.  LoadActiveProfile takes the profile last *)
(* marked for the current one; the SIM stays in the profile it is in.        *)
PowerCut ==
    /\ Fault("cut")
    /\ cur' = IF active.profile # NONE THEN active.profile ELSE cur
    /\ prfReq' = NONE /\ gsm' = "nosim" /\ imsi' = NONE
    /\ deny' = 0 /\ initFails' = 0 /\ restored' = FALSE /\ updating' = FALSE
    /\ thread' = Place("loop", FALSE)
    /\ bearer' = "down" /\ late' = FALSE /\ connected' = FALSE /\ denials' = 0
    /\ UNCHANGED <<fails, active, sim, fixed, reached>>

-----------------------------------------------------------------------------
SwitchStep ==
    \/ CheckNothing \/ CheckRequest \/ StkReady \/ StkNotReady
    \/ SwitchUnsupported \/ CommandFails \/ CommandSent
    \/ ImsiUnread \/ ImsiSame \/ SwitchVerified \/ SwitchSaved \/ SwitchDone

GprsStep ==
    \/ DetectSim \/ RegisterNoSim \/ RegisterSearching \/ RegisterOk
    \/ RegisterWaits \/ RegisterDenied \/ RegisterFail
    \/ ActivateSkipped \/ ActivateStart \/ ActivateFails
    \/ WaitAborted \/ WaitTimedOut \/ NoAddress \/ HasAddress
    \/ ScoreOne \/ ScoreHang \/ ScoreProfile \/ StayActive
    \/ SwitchStep

CallbackStep == Activated \/ Refused \/ ActivatedLate \/ Deactived \/ Drops

OtherStep ==
    \/ ProfileTimer \/ ProfileCommand \/ ServerConnects
    \/ UpdateBegins \/ UpdateEnds \/ PowerCut

Next == GprsStep \/ CallbackStep \/ OtherStep

Spec == Init /\ [][Next]_vars

(* The thread goes on, the modem answers within the minute the device waits, *)
(* and says when a context is gone, and a download ends.                     *)
FairSpec ==
    /\ Spec
    /\ WF_vars(GprsStep) /\ WF_vars(Activated) /\ WF_vars(UpdateEnds)
    /\ WF_vars(Deactived /\ bearer = "down")

-----------------------------------------------------------------------------
Labels == {"loop", "check", "denied", "wait", "score", "ready", "switch",
           "verify", "commit", "mark"}

Marks == [profile : 0..N, reason : {"none", "gprs", "server"}]
Counts == [Profiles -> 0..(WIDTH - 1)]
Requests == {NONE} \cup Profiles \cup Asked
Threads == [pc : Labels, target : Requests, try : 0..2, nested : BOOLEAN]

FileOK == cur \in 0..N /\ fails \in Counts /\ active \in Marks
StateOK ==
    /\ gsm \in {"nosim", "sim", "init", "active"} /\ imsi \in 0..N
    /\ deny \in 0..DENY_WINDOW /\ initFails \in 0..(MAX_GPRS_INIT_FAILS - 1)
ModemOK == sim \in Profiles /\ bearer \in {"down", "pending", "up"}
FlagsOK == {restored, updating, late, connected} \subseteq BOOLEAN
FixedOK == net \in Nets /\ world \in Worlds /\ faults \in 0..MAX_FAULTS
PastOK == reached \subseteq Profiles /\ denials \in 0..DENY_WINDOW

(* The current profile, the requests and the blacklist are of profiles there   *)
(* are, and the counters stay within their limits.                           *)
TypeOK ==
    /\ FileOK /\ prfReq \in Requests /\ StateOK /\ thread \in Threads
    /\ ModemOK /\ FlagsOK /\ FixedOK /\ PastOK

(* A profile the device asks for of itself, whichever of its threads does so, *)
(* is one it has and not one that is blacklisted.                            *)
AutoPicksViable ==
    [][prfReq' # prfReq /\ prfReq' # NONE /\ ~ ProfileCommand
       => prfReq' \in Profiles /\ Viable(fails', prfReq')]_vars

(* The device begins in a profile it knows, no power cut falls between the   *)
(* SIM's switch and its own note of it, and an IMSI that is there is read.   *)
Known == world \cap {"cut", "fresh", "imsi"} = {}

(* Outside a switch the device knows the profile its SIM is in.              *)
InStep ==
    Known => At("verify") \/ At("commit") \/ cur = sim

(* "Active means this profile previously reached GPRS IP or server           *)
(* connection and was saved to ActiveProfile.bin" (GPRS.c:1162-1163), whatever *)
(* happened before.  A power cut between the SIM's switch and the note of it   *)
(* leaves the device with the profile it was in; what the new one reaches is   *)
(* then noted for the old one, which is restored at every start.             *)
MarkedReached == active.reason = "none" \/ active.profile \in reached

(* The same where the device knows its profile.                              *)
ActiveReached == Known => MarkedReached

(* What the device believes of its profile is so.                            *)
ProfileIsTrue == InStep /\ ActiveReached

(* A profile is left for refusing only after it refused for the whole of the *)
(* window, counted from the switch to it.                                    *)
FreshWindow == [][RegisterDenied => denials = DENY_WINDOW]_vars

(* A request is dealt with: the server, TCP and hardware threads, which wait *)
(* for prfReq to be NONE, go on.                                             *)
ThreadsResume == prfReq # NONE ~> prfReq = NONE

(* If a profile is good, the device gets through and stays through; if none  *)
(* is, each that the SIM has is tried again and again.                       *)
GetsThrough ==
    Known =>
        IF \E p \in Profiles : net[p] = "good"
        THEN <>[](gsm = "active" /\ bearer = "up")
        ELSE \A p \in Profiles : net[p] # "missing" => []<>(sim = p)

=============================================================================
