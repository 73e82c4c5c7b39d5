------------------------------ MODULE Recovery ------------------------------
(* System recovery: the hardware watchdog, what SystemRecovery_FeedWatchdog  *)
(* asks before it feeds it, the timers of the GPS and of the server          *)
(* connection, the count of seconds without a loop of the server thread, and *)
(* the power-down for a low battery (custom/SystemRecovery.c, Systic.c).     *)
(*                                                                           *)
(* Time passes in seconds.  Tick ends a second in which every thread that is *)
(* not stuck in a call has gone round its loop, and chooses what the next    *)
(* second is like.  A time stamp is modelled by its age, which stops growing *)
(* past the limit it is compared with.                                       *)
EXTENDS Integers

CONSTANTS
    WdtTimeout,     \* SYSTEM_WATCHDOG_TIMEOUT_MS: the modem resets unless fed
    BootGrace,      \* an uninitialised system is not fed longer than this
    GprsStall,      \* SYSTEM_WATCHDOG_GPRS_STALL_MS
    GpsGrace,       \* after the start the GPS is not checked
    GpsFaultLimit,  \* the GPS may be in its fault state this long
    ConnLimit,      \* SYSTEM_CONNECTION_WATCHDOG_TIMEOUT_MS
    HangSecs,       \* SERVER_THREAD_HANG_SECS
    FtpExempt,      \* SERVER_FTP_EXEMPT_SECS
    ExemptWidth,    \* values of s_ftpExemptSecs, a uint16_t
    Worlds          \* sets of the things that may happen, one per behaviour

Happenings == { "hang",     \* a thread stays in a call, for long or for ever
                "nowdt",    \* Ql_WTD_Start may refuse every interval
                "gps",      \* the receiver fails and recovers
                "gpsoff",   \* the GPS check is switched off and on
                "net",      \* sockets are connected and lost
                "transfer", \* the server thread is in a download or an update
                "sleep",    \* the device sleeps and wakes
                "battery",  \* the modem reports a low battery
                "command",  \* a command or a failed download orders a reset
                "stall" }   \* Ql_Reset does not reset

ASSUME RecoveryAssumption ==
    /\ {WdtTimeout, BootGrace, GprsStall, GpsGrace, GpsFaultLimit, ConnLimit,
        HangSecs, FtpExempt, ExemptWidth} \subseteq Nat \ {0}
    /\ FtpExempt > 1 /\ FtpExempt + HangSecs < ExemptWidth
    /\ Worlds \subseteq SUBSET Happenings

Threads == {"systic", "gprs", "server"}
Unset == -1

VARIABLES
    world,
    up,             \* seconds since the start
    ran,            \* who has gone round its loop this second
    held,           \* threads that a call holds up in this second
    quiet,          \* seconds since a thread's last loop, of the server thread
                    \* those that the Systic thread was there to count
    inited,         \* s_recoveryInitialized
    wdt,            \* s_watchdogId >= 0
    fed,            \* age of the last Ql_WTD_Feed
    checkIn,        \* age of s_lastTaskCheckInMs[WDT_TASK_GPRS]
    gpsOk,          \* age of s_lastGpsOkMs
    serverOk,       \* age of s_lastServerOkMs
    wasSleeping,    \* s_wasSleeping
    timeout,        \* ServerThreadTimeout
    exempt,         \* s_ftpExemptSecs
    pdn,            \* how far the power-down has come
    resetting,      \* who is in SystemRecovery_RequestReset
    around,         \* what the checks look at in this second
    faultFor, downFor, transferFor      \* for how many seconds by now

timerVars == <<gpsOk, serverOk, wasSleeping>>
hangVars == <<timeout, exempt>>
worldVars == <<world, up, held, around, quiet, faultFor, downFor, transferFor>>
vars == <<worldVars, ran, inited, wdt, fed, checkIn, timerVars, hangVars,
          pdn, resetting>>

(* GPS_GetState() = 2; DisableGPSFaultReset or a simulation; a connected     *)
(* socket; SleepConfig.IsEnabled; FTPState # CLOSED, and with it the flags   *)
(* IsFotaProcessing and IsMotaProcessing in an update.                       *)
Surroundings(w) ==
    [fault : {FALSE, "gps" \in w}, unchecked : {FALSE, "gpsoff" \in w},
     net : {FALSE, "net" \in w}, sleeping : {FALSE, "sleep" \in w},
     transfer : {"none"} \cup IF "transfer" \in w THEN {"ftp", "ota"} ELSE {}]

Calm == [fault |-> FALSE, unchecked |-> FALSE, net |-> FALSE,
         sleeping |-> FALSE, transfer |-> "none"]

Free(t) == t \notin held \cup resetting

Upto(n, limit) == IF n > limit THEN limit ELSE n
Older(age, limit) == IF age = Unset THEN Unset ELSE Upto(age + 1, limit + 1)

(* The longest a thread can stay in one call before the device is reset, and *)
(* for the server thread the longest without a second of sleep.              *)
QuietLimit == [systic |-> WdtTimeout,
               gprs   |-> BootGrace + GprsStall + 2 * WdtTimeout + 1,
               server |-> FtpExempt + 2 * HangSecs]

Init ==
    /\ world \in Worlds
    /\ up = 0 /\ ran = {} /\ held = {} /\ quiet = [t \in Threads |-> 0]
    /\ inited = FALSE /\ wdt \in {TRUE, "nowdt" \notin world}
    /\ fed = 0 /\ checkIn = 0 /\ gpsOk = Unset
    /\ serverOk = Unset /\ wasSleeping = FALSE
    /\ timeout = 0 /\ exempt = 0 /\ pdn = "no" /\ resetting = {}
    /\ around = Calm /\ faultFor = 0 /\ downFor = 0 /\ transferFor = 0

(* A reset, a reset by the watchdog, the power coming back: main starts the  *)
(* watchdog before its message loop (SystemRecovery_EarlyWatchdogStart).     *)
Restart ==
    /\ up' = 0 /\ ran' = {} /\ held' = {} /\ quiet' = [t \in Threads |-> 0]
    /\ inited' = FALSE /\ wdt' \in {TRUE, "nowdt" \notin world}
    /\ fed' = 0 /\ checkIn' = 0 /\ gpsOk' = Unset
    /\ serverOk' = Unset /\ wasSleeping' = FALSE
    /\ timeout' = 0 /\ exempt' = 0 /\ pdn' = "no" /\ resetting' = {}
    /\ around' = Calm /\ faultFor' = 0 /\ downFor' = 0 /\ transferFor' = 0
    /\ UNCHANGED world

-----------------------------------------------------------------------------
(* SystemRecovery_RequestReset, up to Ql_Reset.                              *)
RequestReset(t) ==
    /\ resetting' = resetting \cup {t}
    /\ fed' = IF wdt THEN 0 ELSE fed

(* SystemRecovery_Init, at the end of system_init.                           *)
RecoveryInit ==
    /\ ~ inited /\ pdn = "no" /\ "main" \notin resetting
    /\ inited' = TRUE
    /\ checkIn' = 0
    /\ UNCHANGED <<worldVars, ran, wdt, fed, pdn, resetting,
                   timerVars, hangVars>>

(* The GPRS thread at the top of its loop, and every two seconds of a sleep. *)
CheckInTask ==
    /\ pdn # "off" /\ Free("gprs") /\ "gprs" \notin ran
    /\ ran' = ran \cup {"gprs"}
    /\ checkIn' = 0
    /\ UNCHANGED <<worldVars, inited, wdt, fed, pdn, resetting,
                   timerVars, hangVars>>

(* The server thread at the top of its loop.                                 *)
ServerLoop ==
    /\ pdn # "off" /\ Free("server") /\ "server" \notin ran
    /\ around.transfer = "none"
    /\ ran' = ran \cup {"server"}
    /\ timeout' = 0
    /\ UNCHANGED <<worldVars, inited, wdt, fed, checkIn, exempt, pdn,
                   resetting, timerVars>>

-----------------------------------------------------------------------------
\* Mutant of UpdateTick: fed from the timer, whatever the thread does.
UpdateTickInTimer == /\ pdn # "off" /\ "tick" \notin ran
                     /\ ran' = ran \cup {"tick"}

(* SystemRecovery_FeedWatchdog, from UpdateTick in the Systic thread.        *)
UpdateTick == /\ pdn # "off" /\ Free("systic") /\ "tick" \notin ran
              /\ ran' = ran \cup {"tick"}

FeedBooting ==
    /\ UpdateTick /\ ~ inited
    /\ fed' = IF up <= BootGrace /\ pdn = "no" /\ wdt THEN 0 ELSE fed
    /\ UNCHANGED <<worldVars, inited, wdt, checkIn, pdn, resetting,
                   timerVars, hangVars>>

\* Mutant of GprsIsAlive: one check-in is enough for ever.
GprsIsAliveEver == inited

GprsIsAlive == checkIn <= GprsStall
\* Mutant of FeedGated: a power-down does not end the feeding.
FeedGatedOn == inited /\ wdt

FeedGated == inited /\ pdn = "no" /\ wdt

FeedWithheld ==
    /\ UpdateTick /\ inited
    /\ ~ (FeedGated /\ GprsIsAlive)
    /\ UNCHANGED <<worldVars, inited, wdt, fed, checkIn, pdn,
                   resetting, timerVars, hangVars>>

GpsChecked == ~ around.unchecked /\ around.transfer # "ota" /\ up > GpsGrace
GpsLost == GpsChecked /\ around.fault /\ gpsOk > GpsFaultLimit

(* The age of s_lastGpsOkMs after the check, which sets it at its first call *)
(* and whenever the receiver works: not while it is bypassed.                *)
GpsSeen == IF GpsChecked /\ (gpsOk = Unset \/ ~ around.fault) THEN 0 ELSE gpsOk

GpsFaultReset ==
    /\ UpdateTick /\ FeedGated /\ GprsIsAlive /\ GpsLost
    /\ RequestReset("systic")
    /\ UNCHANGED <<worldVars, inited, wdt, checkIn, pdn, timerVars, hangVars>>

\* Mutant of ServerSeen: the timer goes on through a sleep.
ServerSeenAsleep ==
    IF /\ ~ around.sleeping
       /\ serverOk = Unset \/ around.net \/ around.transfer = "ota"
    THEN 0 ELSE serverOk

(* The age of s_lastServerOkMs after the check: set at its first call, when  *)
(* the device wakes, while a socket is connected and during an update.       *)
ServerSeen ==
    IF /\ ~ around.sleeping
       /\ wasSleeping \/ serverOk = Unset \/ around.net \/ around.transfer = "ota"
    THEN 0 ELSE serverOk

ServerLost == ~ around.sleeping /\ ServerSeen > ConnLimit

ConnectionReset ==
    /\ UpdateTick /\ FeedGated /\ GprsIsAlive /\ ~ GpsLost /\ ServerLost
    /\ gpsOk' = GpsSeen
    /\ RequestReset("systic")
    /\ UNCHANGED <<worldVars, inited, wdt, checkIn, serverOk, wasSleeping,
                   pdn, hangVars>>

Feed ==
    /\ UpdateTick /\ FeedGated /\ GprsIsAlive /\ ~ GpsLost /\ ~ ServerLost
    /\ gpsOk' = GpsSeen
    /\ serverOk' = ServerSeen
    /\ wasSleeping' = around.sleeping
    /\ fed' = 0
    /\ UNCHANGED <<worldVars, inited, wdt, checkIn, pdn, resetting,
                   hangVars>>

(* ProcessServerThreadTimeout, the last of Systic_Event_1s.                  *)
Event1s == /\ pdn # "off" /\ Free("systic") /\ "tick" \in ran
           /\ "systic" \notin ran
           /\ ran' = ran \cup {"systic"}

InTransfer == around.transfer # "none"
ExemptSecs == IF InTransfer THEN (exempt + 1) % ExemptWidth ELSE 0
\* Mutant of Spared: a transfer is exempt without a limit.
SparedAlways == InTransfer \/ around.sleeping

Spared == (InTransfer /\ ExemptSecs < FtpExempt) \/ around.sleeping

CountSecond ==
    /\ Event1s
    /\ Spared \/ timeout < HangSecs
    /\ exempt' = ExemptSecs
    /\ timeout' = IF Spared THEN 0 ELSE timeout + 1
    /\ UNCHANGED <<worldVars, inited, wdt, fed, checkIn, timerVars, pdn,
                   resetting>>

HangReset ==
    /\ Event1s
    /\ ~ Spared /\ timeout >= HangSecs
    /\ exempt' = ExemptSecs
    /\ timeout' = 0
    /\ RequestReset("systic")
    /\ UNCHANGED <<worldVars, inited, wdt, checkIn, timerVars, pdn>>

-----------------------------------------------------------------------------
(* A command orders a reset: the server thread carries it out.               *)
CommandReset ==
    /\ "command" \in world
    /\ pdn # "off" /\ Free("server") /\ ~ InTransfer
    /\ RequestReset("server")
    /\ UNCHANGED <<worldVars, ran, inited, wdt, checkIn, timerVars, hangVars, pdn>>

(* MSG_ID_RESET_MODULE_REQ, "FOTA FTP reset request": main carries it out.   *)
MainReset ==
    /\ "command" \in world
    /\ inited /\ pdn = "no" /\ "main" \notin resetting
    /\ RequestReset("main")
    /\ UNCHANGED <<worldVars, ran, inited, wdt, checkIn, timerVars, hangVars, pdn>>

(* SystemRecovery_OnVoltageInd with VBATT_UNDER_PDN: the flag, the outputs   *)
(* and the order to the microcontroller to sleep, which waits for its UART;  *)
LowBattery ==
    /\ "battery" \in world
    /\ pdn = "no" /\ "main" \notin resetting
    /\ pdn' = "flagged"
    /\ UNCHANGED <<worldVars, ran, inited, wdt, fed, checkIn, timerVars,
                   hangVars, resetting>>

\* SystemRecovery_StopWatchdog;
StopWatchdog ==
    /\ pdn = "flagged"
    /\ pdn' = "stopped"
    /\ wdt' = FALSE
    /\ fed' = IF wdt THEN 0 ELSE fed
    /\ UNCHANGED <<worldVars, ran, inited, checkIn, timerVars, hangVars,
                   resetting>>

\* a second for the pins to settle, and Ql_PowerDown.
PowerDown ==
    /\ pdn = "stopped"
    /\ pdn' = "off"
    /\ UNCHANGED <<worldVars, ran, inited, wdt, fed, checkIn, timerVars,
                   hangVars, resetting>>

PowerOn == pdn = "off" /\ Restart

(* The modem: the watchdog that was not fed, and Ql_Reset.                   *)
Starved == wdt /\ fed > WdtTimeout
WatchdogFires == pdn # "off" /\ Starved /\ Restart
ResetDone == pdn # "off" /\ resetting # {} /\ Restart

(* The second ends.  A thread that asked for a reset stays in that call; one *)
(* other thread at most is held up in the second that follows (a bound).     *)
Held == IF "hang" \in world THEN {{}} \cup {{t} : t \in Threads} ELSE {{}}

Tick ==
    /\ pdn # "off" /\ ~ Starved
    /\ "stall" \in world \/ resetting = {}
    /\ \A t \in Threads : Free(t) => t \in ran \/ (t = "server" /\ InTransfer)
    /\ ran' = {}
    /\ up' = Upto(up + 1, BootGrace + GpsGrace + WdtTimeout)
    /\ fed' = Upto(fed + 1, WdtTimeout + 1)
    /\ checkIn' = Upto(checkIn + 1, GprsStall + 1)
    /\ gpsOk' = Older(gpsOk, GpsFaultLimit)
    /\ serverOk' = Older(serverOk, ConnLimit)
    /\ quiet' = [t \in Threads |->
                    IF t \in ran THEN 0
                    ELSE IF t = "server" /\ "systic" \notin ran THEN quiet[t]
                    ELSE IF t = "server" /\ around.sleeping THEN 0
                    ELSE Upto(quiet[t] + 1, QuietLimit[t] + 1)]
    /\ held' \in Held
    /\ around' \in Surroundings(world)
    /\ around'.transfer # around.transfer =>
          "server" \in ran \/ (InTransfer /\ Free("server"))
    /\ faultFor' = IF around'.fault THEN Upto(faultFor + 1, GpsFaultLimit + 1)
                   ELSE 0
    /\ downFor' = IF around'.net \/ around'.sleeping \/ around'.transfer = "ota"
                  THEN 0 ELSE Upto(downFor + 1, ConnLimit + 1)
    /\ transferFor' = IF around'.transfer = "none" THEN 0
                      ELSE Upto(transferFor + 1, FtpExempt + HangSecs)
    /\ UNCHANGED <<world, inited, wdt, wasSleeping, hangVars, pdn, resetting>>

Next == \/ RecoveryInit \/ CheckInTask \/ ServerLoop
        \/ FeedBooting \/ FeedWithheld \/ Feed
        \/ GpsFaultReset \/ ConnectionReset
        \/ CountSecond \/ HangReset
        \/ CommandReset \/ MainReset
        \/ LowBattery \/ StopWatchdog \/ PowerDown \/ PowerOn
        \/ WatchdogFires \/ ResetDone
        \/ Tick

Spec == Init /\ [][Next]_vars

(* The threads that are not stuck go round their loops, time passes, and the *)
(* watchdog of the modem fires.  Nothing makes Ql_Reset or a call that is    *)
(* stuck return.                                                             *)
Fairness == /\ WF_vars(Tick) /\ WF_vars(WatchdogFires) /\ WF_vars(PowerDown)
            /\ WF_vars(CheckInTask) /\ WF_vars(ServerLoop)
            /\ WF_vars("stall" \notin world /\ ResetDone)
            /\ WF_vars(FeedBooting \/ FeedWithheld \/ Feed
                       \/ GpsFaultReset \/ ConnectionReset)
            /\ WF_vars(CountSecond \/ HangReset)

FairSpec == Spec /\ Fairness

-----------------------------------------------------------------------------
(* Every variable has a value its code can give it; a server thread that is  *)
(* counted is reset before the count leaves its range.                       *)
TypeOK ==
    /\ world \in Worlds
    /\ held \subseteq Threads
    /\ ran \subseteq Threads \cup {"tick"}
    /\ quiet \in [Threads -> Nat]
    /\ {inited, wdt, wasSleeping} \subseteq BOOLEAN
    /\ {up, fed, checkIn, faultFor, downFor, transferFor} \subseteq Nat
    /\ {gpsOk, serverOk} \subseteq Nat \cup {Unset}
    /\ timeout \in 0 .. HangSecs /\ exempt \in 0 .. ExemptWidth - 1
    /\ pdn \in {"no", "flagged", "stopped", "off"}
    /\ resetting \subseteq {"main", "systic", "server"}
    /\ around \in [fault : BOOLEAN, unchecked : BOOLEAN, net : BOOLEAN,
                   sleeping : BOOLEAN, transfer : {"none", "ftp", "ota"}]

(* "If the server thread wedges anywhere ..." (Systic.c): with the watchdog  *)
(* started, a thread that hangs, at any time and also inside a download, is  *)
(* ended by a reset within QuietLimit, and so is a boot that hangs.          *)
HangIsBounded ==
    (pdn = "no" /\ wdt /\ "stall" \notin world) =>
        /\ \A t \in Threads : quiet[t] <= QuietLimit[t]
        /\ ~ inited => up <= BootGrace + WdtTimeout + 1

(* The device is not reset for nothing: by the count of seconds only when    *)
(* the server thread stayed away, and a transfer gets its exemption first;   *)
(* for the connection only after ConnLimit awake without one; for the GPS    *)
(* only after GpsFaultLimit of faults.  (While checks are bypassed the timer *)
(* of the GPS stands still, see GpsFaultLasts; a Systic thread that is held  *)
(* up itself may miss the end of a transfer or of a sleep.)                  *)
ResetIsDue ==
    [][/\ HangReset => quiet["server"] + 1 >= HangSecs
       /\ "hang" \notin world =>
             /\ HangReset /\ InTransfer => transferFor >= FtpExempt + HangSecs
             /\ ConnectionReset => downFor > ConnLimit
       /\ {"hang", "gpsoff", "transfer"} \cap world = {} =>
             (GpsFaultReset => faultFor > GpsFaultLimit)]_vars

(* "GPS in Fault state for > 3 minutes" (SystemRecovery.c), bypassed or not. *)
GpsFaultLasts == [][GpsFaultReset => faultFor > GpsFaultLimit]_vars

(* The power-down for a low battery ends with the power off, or with a reset *)
(* if the thread that carries it out hangs before it stops the watchdog.     *)
PowerDownEnds == (pdn = "flagged" /\ wdt) ~> pdn \in {"no", "off"}

(* "Keep the WDT active across the reset request ... a fallback if the reset *)
(* call or modem firmware stalls" (SystemRecovery.c): it is one for a reset  *)
(* from the Systic thread, and through the count of seconds for one from the *)
(* server thread.  (Nothing watches the main thread.)                        *)
ResetComes == (resetting \cap Threads # {} /\ wdt)
                  ~> (resetting = {} \/ pdn = "off")

=============================================================================
