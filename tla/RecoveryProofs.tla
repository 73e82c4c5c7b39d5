--------------------------- MODULE RecoveryProofs ---------------------------
(***************************************************************************)
(* Theorems about Recovery for every value of its limits and any set of     *)
(* worlds.                                                                  *)
(***************************************************************************)
EXTENDS Recovery, TLAPS

\* Numbers, and the rest of TypeOK.
Numbers ==
    /\ up \in Nat /\ fed \in Nat /\ checkIn \in Nat
    /\ faultFor \in Nat /\ downFor \in Nat /\ transferFor \in Nat
    /\ timeout \in 0 .. HangSecs /\ exempt \in 0 .. ExemptWidth - 1
    /\ fed <= WdtTimeout + 1
Ages == gpsOk \in Nat \cup {Unset} /\ serverOk \in Nat \cup {Unset}
Quiet == quiet \in [Threads -> Nat]
Shape ==
    /\ world \in Worlds
    /\ held \subseteq Threads
    /\ ran \subseteq Threads \cup {"tick"}
    /\ {inited, wdt, wasSleeping} \subseteq BOOLEAN
    /\ pdn \in {"no", "flagged", "stopped", "off"}
    /\ resetting \subseteq {"main", "systic", "server"}
Looks == around \in [fault : BOOLEAN, unchecked : BOOLEAN, net : BOOLEAN,
                     sleeping : BOOLEAN, transfer : {"none", "ftp", "ota"}]

TypeInv == Numbers /\ Ages /\ Quiet /\ Shape /\ Looks

\* The watchdog runs, Ql_Reset resets, and nobody has asked it to.
Watched == pdn = "no" /\ wdt /\ "stall" \notin world
Running == Watched /\ resetting = {}

\* A Systic thread that is held up does not feed.
SysticInv ==
    /\ Running /\ "systic" \in held => quiet["systic"] < fed
    /\ Watched => quiet["systic"] <= WdtTimeout

\* A boot is fed during its grace only.
BootInv ==
    /\ Running /\ ~ inited => up <= BootGrace + fed
    /\ Watched /\ ~ inited => up <= BootGrace + WdtTimeout + 1

\* A GPRS thread that is held up lets its check-in grow old, and once that is
\* too old the feeding stops.
GprsInv ==
    /\ Watched /\ ~ inited =>
          /\ quiet["gprs"] <= up
          /\ "gprs" \in held => quiet["gprs"] < up
    /\ Running /\ inited /\ "gprs" \in held =>
          /\ checkIn <= GprsStall =>
                quiet["gprs"] <= BootGrace + WdtTimeout + checkIn
          /\ quiet["gprs"] <= BootGrace + WdtTimeout + GprsStall + fed
    /\ Watched =>
          quiet["gprs"] <= BootGrace + GprsStall + 2 * WdtTimeout + 1

\* What the silence of the server thread will be when this second ends.
Silence == IF "systic" \notin ran THEN quiet["server"]
           ELSE IF around.sleeping THEN 0 ELSE quiet["server"] + 1

\* A silent server thread is counted, or the exemption of its transfer is; a
\* new transfer may find the exemption of the last one used up.
ServerInv ==
    /\ Running /\ "server" \notin ran =>
          /\ ~ InTransfer => Silence <= HangSecs + FtpExempt + timeout
          /\ InTransfer /\ exempt < FtpExempt =>
                Silence <= HangSecs + 1 + exempt
          /\ InTransfer /\ exempt >= FtpExempt =>
                \/ Silence <= timeout
                \/ /\ Silence <= HangSecs + FtpExempt + timeout
                   /\ exempt < FtpExempt + timeout
    /\ Watched => quiet["server"] <= FtpExempt + 2 * HangSecs

-----------------------------------------------------------------------------
LEMMA Limits ==
    /\ WdtTimeout \in Nat /\ WdtTimeout > 0
    /\ BootGrace \in Nat /\ BootGrace > 0
    /\ GprsStall \in Nat /\ GprsStall > 0 /\ GpsGrace \in Nat /\ GpsGrace > 0
    /\ GpsFaultLimit \in Nat /\ ConnLimit \in Nat
    /\ HangSecs \in Nat /\ HangSecs > 0 /\ FtpExempt \in Nat /\ FtpExempt > 0
    /\ ExemptWidth \in Nat /\ FtpExempt + HangSecs < ExemptWidth
BY RecoveryAssumption

LEMMA Capped ==
    \A n, l \in Nat : /\ Upto(n, l) \in Nat /\ Upto(n, l) <= n /\ Upto(n, l) <= l
                      /\ n <= l => Upto(n, l) = n
BY DEF Upto

LEMMA Aged ==
    \A a \in Nat \cup {Unset}, l \in Nat : Older(a, l) \in Nat \cup {Unset}
BY Capped DEF Older, Unset

(* The count of a transfer's exemption.                                      *)
LEMMA Exempted ==
    ASSUME exempt \in 0 .. ExemptWidth - 1
    PROVE  /\ ExemptSecs \in 0 .. ExemptWidth - 1
           /\ InTransfer => ExemptSecs \in {0, exempt + 1}
           /\ InTransfer /\ exempt + 1 < ExemptWidth => ExemptSecs = exempt + 1
           /\ ~ InTransfer => ExemptSecs = 0
<1>1. CASE exempt + 1 < ExemptWidth
  <2>1. (exempt + 1) % ExemptWidth = exempt + 1
    BY <1>1, Limits
  <2> QED
    BY <1>1, <2>1, Limits DEF ExemptSecs
<1>2. CASE exempt + 1 = ExemptWidth
  <2>1. (exempt + 1) % ExemptWidth = 0
    BY <1>2, Limits
  <2> QED
    BY <1>2, <2>1, Limits DEF ExemptSecs
<1> QED
  BY <1>1, <1>2, Limits

LEMMA WorldStays == [Next]_vars => world' = world
BY DEF Next, vars, worldVars, Restart, RequestReset, RecoveryInit,
   CheckInTask, ServerLoop, FeedBooting, FeedWithheld, Feed, GpsFaultReset,
   ConnectionReset, CountSecond, HangReset, CommandReset, MainReset,
   LowBattery, StopWatchdog, PowerDown, PowerOn, WatchdogFires, ResetDone,
   Tick

LEMMA TypeRestart == TypeInv /\ Restart => TypeInv'
<1> SUFFICES ASSUME TypeInv, Restart PROVE TypeInv'
  OBVIOUS
<1>1. Numbers'
  BY Limits DEF Restart, Numbers
<1>2. Ages' /\ Quiet' /\ Looks'
  BY DEF Restart, Ages, Quiet, Looks, Calm
<1>3. Shape'
  BY DEF Restart, TypeInv, Shape
<1> QED
  BY <1>1, <1>2, <1>3 DEF TypeInv

LEMMA TypeInit == Init => TypeInv
<1> SUFFICES ASSUME Init PROVE TypeInv
  OBVIOUS
<1>1. Numbers
  BY Limits DEF Init, Numbers
<1>2. Ages /\ Quiet /\ Looks
  BY DEF Init, Ages, Quiet, Looks, Calm
<1>3. Shape
  BY DEF Init, Shape
<1> QED
  BY <1>1, <1>2, <1>3 DEF TypeInv

LEMMA TypeStep == TypeInv /\ [Next]_vars => TypeInv'
<1> SUFFICES ASSUME TypeInv, [Next]_vars PROVE TypeInv'
  OBVIOUS
<1>1. CASE RecoveryInit
  BY <1>1, Limits, Capped, Exempted, Aged DEF RecoveryInit, worldVars,
     timerVars, hangVars, TypeInv, Numbers, Ages, Quiet, Shape, Looks
<1>2. CASE CheckInTask
  BY <1>2, Limits, Capped, Exempted, Aged DEF CheckInTask, Free, worldVars,
     timerVars, hangVars, TypeInv, Numbers, Ages, Quiet, Shape, Looks,
     Threads
<1>3. CASE ServerLoop
  <2>1. Numbers'
    BY <1>3, Limits, Capped, Exempted, Aged DEF ServerLoop, Free, worldVars,
       timerVars, TypeInv, Numbers, Ages, Quiet, Shape, Looks, Threads
  <2>2. Ages'
    BY <1>3, Limits, Capped, Exempted, Aged DEF ServerLoop, Free, worldVars,
       timerVars, TypeInv, Numbers, Ages, Quiet, Shape, Looks, Threads
  <2>3. Quiet'
    BY <1>3, Limits, Capped, Exempted, Aged DEF ServerLoop, Free, worldVars,
       timerVars, TypeInv, Numbers, Ages, Quiet, Shape, Looks, Threads
  <2>4. Shape' /\ Looks'
    BY <1>3, Limits, Capped, Exempted, Aged DEF ServerLoop, Free, worldVars,
       timerVars, TypeInv, Numbers, Ages, Quiet, Shape, Looks, Threads
  <2> QED
    BY <2>1, <2>2, <2>3, <2>4 DEF TypeInv
<1>4. CASE FeedBooting
  BY <1>4, Limits, Capped, Exempted, Aged DEF FeedBooting, UpdateTick,
     worldVars, timerVars, hangVars, Free, TypeInv, Numbers, Ages, Quiet,
     Shape, Looks
<1>5. CASE FeedWithheld
  BY <1>5, Limits, Capped, Exempted, Aged DEF FeedWithheld, UpdateTick,
     FeedGated, worldVars, timerVars, hangVars, Free, TypeInv, Numbers,
     Ages, Quiet, Shape, Looks
<1>6. CASE Feed
  <2>1. Numbers'
    BY <1>6, Limits, Capped, Exempted, Aged DEF Feed, UpdateTick, FeedGated,
       GpsSeen, ServerSeen, worldVars, hangVars, Free, TypeInv, Numbers,
       Ages, Quiet, Shape, Looks
  <2>2. Ages'
    BY <1>6, Limits, Capped, Exempted, Aged DEF Feed, UpdateTick, FeedGated,
       GpsSeen, ServerSeen, worldVars, hangVars, Free, TypeInv, Numbers,
       Ages, Quiet, Shape, Looks
  <2>3. Quiet'
    BY <1>6, Limits, Capped, Exempted, Aged DEF Feed, UpdateTick, FeedGated,
       GpsSeen, ServerSeen, worldVars, hangVars, Free, TypeInv, Numbers,
       Ages, Quiet, Shape, Looks
  <2>4. Shape' /\ Looks'
    BY <1>6, Limits, Capped, Exempted, Aged DEF Feed, UpdateTick, FeedGated,
       GpsSeen, ServerSeen, worldVars, hangVars, Free, TypeInv, Numbers,
       Ages, Quiet, Shape, Looks
  <2> QED
    BY <2>1, <2>2, <2>3, <2>4 DEF TypeInv
<1>7. CASE GpsFaultReset
  BY <1>7, Limits, Capped, Exempted, Aged DEF GpsFaultReset, UpdateTick,
     FeedGated, RequestReset, worldVars, timerVars, hangVars, Free, TypeInv,
     Numbers, Ages, Quiet, Shape, Looks
<1>8. CASE ConnectionReset
  BY <1>8, Limits, Capped, Exempted, Aged DEF ConnectionReset, UpdateTick,
     FeedGated, GpsSeen, RequestReset, worldVars, hangVars, Free, TypeInv,
     Numbers, Ages, Quiet, Shape, Looks
<1>9. CASE CountSecond
  <2>1. Numbers'
    BY <1>9, Limits, Capped, Exempted, Aged DEF CountSecond, Event1s,
       Spared, worldVars, timerVars, Free, TypeInv, Numbers, Ages, Quiet,
       Shape, Looks, Threads
  <2>2. Ages'
    BY <1>9, Limits, Capped, Exempted, Aged DEF CountSecond, Event1s,
       Spared, worldVars, timerVars, Free, TypeInv, Numbers, Ages, Quiet,
       Shape, Looks, Threads
  <2>3. Quiet'
    BY <1>9, Limits, Capped, Exempted, Aged DEF CountSecond, Event1s,
       Spared, worldVars, timerVars, Free, TypeInv, Numbers, Ages, Quiet,
       Shape, Looks, Threads
  <2>4. Shape' /\ Looks'
    BY <1>9, Limits, Capped, Exempted, Aged DEF CountSecond, Event1s,
       Spared, worldVars, timerVars, Free, TypeInv, Numbers, Ages, Quiet,
       Shape, Looks, Threads
  <2> QED
    BY <2>1, <2>2, <2>3, <2>4 DEF TypeInv
<1>10. CASE HangReset
  <2>1. Numbers'
    BY <1>10, Limits, Exempted DEF HangReset, RequestReset, TypeInv, Numbers,
       worldVars
  <2>2. Ages' /\ Quiet' /\ Looks'
    BY <1>10 DEF HangReset, TypeInv, Ages, Quiet, Looks, worldVars, timerVars
  <2>3. Shape'
    BY <1>10 DEF HangReset, Event1s, RequestReset, TypeInv, Shape, worldVars,
       timerVars, Threads
  <2> QED
    BY <2>1, <2>2, <2>3 DEF TypeInv
<1>11. CASE CommandReset
  BY <1>11, Limits, Capped, Exempted, Aged DEF CommandReset, Free,
     RequestReset, worldVars, timerVars, hangVars, TypeInv, Numbers, Ages,
     Quiet, Shape, Looks
<1>12. CASE MainReset
  BY <1>12, Limits, Capped, Exempted, Aged DEF MainReset, RequestReset,
     worldVars, timerVars, hangVars, TypeInv, Numbers, Ages, Quiet, Shape,
     Looks
<1>13. CASE LowBattery
  BY <1>13, Limits, Capped, Exempted, Aged DEF LowBattery, worldVars,
     timerVars, hangVars, TypeInv, Numbers, Ages, Quiet, Shape, Looks
<1>14. CASE StopWatchdog
  <2>1. Numbers'
    BY <1>14, Limits, Capped, Exempted, Aged DEF StopWatchdog, worldVars,
       timerVars, hangVars, TypeInv, Numbers, Ages, Quiet, Shape, Looks
  <2>2. Ages'
    BY <1>14, Limits, Capped, Exempted, Aged DEF StopWatchdog, worldVars,
       timerVars, hangVars, TypeInv, Numbers, Ages, Quiet, Shape, Looks
  <2>3. Quiet'
    BY <1>14, Limits, Capped, Exempted, Aged DEF StopWatchdog, worldVars,
       timerVars, hangVars, TypeInv, Numbers, Ages, Quiet, Shape, Looks
  <2>4. Shape' /\ Looks'
    BY <1>14, Limits, Capped, Exempted, Aged DEF StopWatchdog, worldVars,
       timerVars, hangVars, TypeInv, Numbers, Ages, Quiet, Shape, Looks
  <2> QED
    BY <2>1, <2>2, <2>3, <2>4 DEF TypeInv
<1>15. CASE PowerDown
  BY <1>15, Limits, Capped, Exempted, Aged DEF PowerDown, worldVars,
     timerVars, hangVars, TypeInv, Numbers, Ages, Quiet, Shape, Looks
<1>16. CASE PowerOn
  BY <1>16, TypeRestart DEF PowerOn
<1>17. CASE WatchdogFires
  BY <1>17, TypeRestart DEF WatchdogFires
<1>18. CASE ResetDone
  BY <1>18, TypeRestart DEF ResetDone
<1>19. CASE Tick
  <2>1. Numbers'
    <3>1. /\ up' = Upto(up + 1, BootGrace + GpsGrace + WdtTimeout)
          /\ fed' = Upto(fed + 1, WdtTimeout + 1)
          /\ checkIn' = Upto(checkIn + 1, GprsStall + 1)
          /\ faultFor' \in {0, Upto(faultFor + 1, GpsFaultLimit + 1)}
          /\ downFor' \in {0, Upto(downFor + 1, ConnLimit + 1)}
          /\ transferFor' \in {0, Upto(transferFor + 1, FtpExempt + HangSecs)}
          /\ UNCHANGED <<timeout, exempt>>
      BY <1>19 DEF Tick, hangVars
    <3> QED
      BY <3>1, Limits DEF Upto, TypeInv, Numbers
  <2>2. Ages'
    BY <1>19, Limits, Aged DEF Tick, TypeInv, Ages
  <2>3. Quiet'
    <3>1. QuietLimit \in [Threads -> Nat]
      BY Limits DEF QuietLimit, Threads
    <3>2. \A t \in Threads : Upto(quiet[t] + 1, QuietLimit[t] + 1) \in Nat
      BY <3>1, Capped DEF TypeInv, Quiet
    <3> QED
      BY <1>19, <3>2 DEF Tick, TypeInv, Quiet
  <2>4. Shape'
    <3>1. held' \subseteq Threads
      BY <1>19 DEF Tick, Held
    <3> QED
      BY <1>19, <3>1 DEF Tick, TypeInv, Shape
  <2>5. Looks'
    <3>1. around' \in Surroundings(world)
      BY <1>19 DEF Tick
    <3>2. /\ {FALSE, "gps" \in world} \subseteq BOOLEAN
          /\ {FALSE, "gpsoff" \in world} \subseteq BOOLEAN
          /\ {FALSE, "net" \in world} \subseteq BOOLEAN
          /\ {FALSE, "sleep" \in world} \subseteq BOOLEAN
      OBVIOUS
    <3> QED
      BY <3>1, <3>2 DEF Surroundings, Looks
  <2> QED
    BY <2>1, <2>2, <2>3, <2>4, <2>5 DEF TypeInv
<1>20. CASE UNCHANGED vars
  BY <1>20 DEF vars, worldVars, timerVars, hangVars, TypeInv, Numbers, Ages,
     Quiet, Shape, Looks
<1> QED
  BY <1>1, <1>2, <1>3, <1>4, <1>5, <1>6, <1>7, <1>8, <1>9, <1>10, <1>11,
     <1>12, <1>13, <1>14, <1>15, <1>16, <1>17, <1>18, <1>19, <1>20 DEF Next

(* Every variable has a value its code can give it.                          *)
THEOREM RecoveryType == Spec => []TypeOK
<1>1. TypeInv => TypeOK
  BY DEF TypeInv, TypeOK, Numbers, Ages, Quiet, Shape, Looks
<1> QED
  BY <1>1, TypeInit, TypeStep, PTL DEF Spec

-----------------------------------------------------------------------------
LEMMA Restarted ==
    ASSUME Restart
    PROVE  /\ up' = 0 /\ fed' = 0 /\ ran' = {} /\ held' = {} /\ ~ inited'
           /\ timeout' = 0 /\ exempt' = 0 /\ around' = Calm
           /\ \A t \in Threads : quiet'[t] = 0
           /\ quiet'["systic"] = 0 /\ quiet'["gprs"] = 0 /\ quiet'["server"] = 0
BY DEF Restart, Threads

(* A second that ends with the device running: nobody has asked for a reset, *)
(* the watchdog has been fed, and everyone who could has gone round.         *)
LEMMA Ticked ==
    ASSUME TypeInv, Tick, Watched'
    PROVE  /\ Running /\ fed <= WdtTimeout /\ fed' = fed + 1
           /\ inited' = inited /\ resetting' = resetting
           /\ \A t \in Threads : quiet'[t] \in 0 .. quiet[t] + 1
           /\ \A t \in Threads \ held :
                 \/ t \in ran /\ quiet'[t] = 0
                 \/ t = "server" /\ InTransfer
<1>1. Running /\ fed <= WdtTimeout
  <2>1. Watched /\ resetting = {}
    BY DEF Tick, Watched
  <2>2. ~ (wdt /\ fed > WdtTimeout) /\ wdt
    BY <2>1 DEF Tick, Starved, Watched
  <2> QED
    BY <2>1, <2>2, Limits DEF Running, TypeInv, Numbers
<1>2. fed' = fed + 1 /\ inited' = inited /\ resetting' = resetting
  BY <1>1, Limits DEF Tick, Upto, TypeInv, Numbers
<1>3. ASSUME NEW t \in Threads
      PROVE  /\ quiet'[t] = 0 \/ quiet'[t] = quiet[t]
                   \/ quiet'[t] = Upto(quiet[t] + 1, QuietLimit[t] + 1)
             /\ t \in ran => quiet'[t] = 0
  BY <1>3 DEF Tick
<1>4. ASSUME NEW t \in Threads PROVE quiet'[t] \in 0 .. quiet[t] + 1
  <2>1. quiet[t] \in Nat /\ QuietLimit[t] \in Nat
    BY Limits DEF TypeInv, Quiet, QuietLimit, Threads
  <2> QED
    BY <1>3, <2>1, Capped
<1>5. ASSUME NEW t \in Threads \ held
      PROVE  \/ t \in ran /\ quiet'[t] = 0
             \/ t = "server" /\ InTransfer
  BY <1>1, <1>3 DEF Tick, Free, Running
<1> QED
  BY <1>1, <1>2, <1>4, <1>5

LEMMA SysticInit == Init => SysticInv
BY Limits DEF Init, SysticInv, Running, Watched, Threads

LEMMA SysticStep == TypeInv /\ SysticInv /\ [Next]_vars => SysticInv'
<1> SUFFICES ASSUME TypeInv, SysticInv, [Next]_vars PROVE SysticInv'
  OBVIOUS
<1>0. world' = world
  BY WorldStays
<1>1. CASE RecoveryInit
  BY <1>1, <1>0, Limits DEF RecoveryInit, worldVars, timerVars, hangVars,
     SysticInv, Running, Watched, TypeInv, Numbers, Quiet, Threads
<1>2. CASE CheckInTask
  BY <1>2, <1>0, Limits DEF CheckInTask, Free, worldVars, timerVars,
     hangVars, SysticInv, Running, Watched, TypeInv, Numbers, Quiet, Threads
<1>3. CASE ServerLoop
  BY <1>3, <1>0, Limits DEF ServerLoop, Free, worldVars, timerVars,
     SysticInv, Running, Watched, TypeInv, Numbers, Quiet, Threads
<1>4. CASE FeedBooting
  BY <1>4, <1>0, Limits DEF FeedBooting, UpdateTick, worldVars, timerVars,
     hangVars, Free, SysticInv, Running, Watched, TypeInv, Numbers, Quiet,
     Threads
<1>5. CASE FeedWithheld
  BY <1>5, <1>0, Limits DEF FeedWithheld, UpdateTick, FeedGated, worldVars,
     timerVars, hangVars, Free, SysticInv, Running, Watched, TypeInv,
     Numbers, Quiet, Threads
<1>6. CASE Feed
  BY <1>6, <1>0, Limits DEF Feed, UpdateTick, FeedGated, worldVars,
     hangVars, Free, SysticInv, Running, Watched, TypeInv, Numbers, Quiet,
     Threads
<1>7. CASE GpsFaultReset
  BY <1>7, <1>0, Limits DEF GpsFaultReset, UpdateTick, FeedGated,
     RequestReset, worldVars, timerVars, hangVars, Free, SysticInv, Running,
     Watched, TypeInv, Numbers, Quiet, Threads
<1>8. CASE ConnectionReset
  BY <1>8, <1>0, Limits DEF ConnectionReset, UpdateTick, FeedGated,
     RequestReset, worldVars, hangVars, Free, SysticInv, Running, Watched,
     TypeInv, Numbers, Quiet, Threads
<1>9. CASE CountSecond
  BY <1>9, <1>0, Limits DEF CountSecond, Event1s, worldVars, timerVars,
     Free, SysticInv, Running, Watched, TypeInv, Numbers, Quiet, Threads
<1>10. CASE HangReset
  BY <1>10, <1>0, Limits DEF HangReset, Event1s, RequestReset, worldVars,
     timerVars, Free, SysticInv, Running, Watched, TypeInv, Numbers, Quiet,
     Threads
<1>11. CASE CommandReset
  BY <1>11, <1>0, Limits DEF CommandReset, Free, RequestReset, worldVars,
     timerVars, hangVars, SysticInv, Running, Watched, TypeInv, Numbers,
     Quiet, Threads
<1>12. CASE MainReset
  BY <1>12, <1>0, Limits DEF MainReset, RequestReset, worldVars, timerVars,
     hangVars, SysticInv, Running, Watched, TypeInv, Numbers, Quiet, Threads
<1>13. CASE LowBattery
  BY <1>13, <1>0, Limits DEF LowBattery, worldVars, timerVars, hangVars,
     SysticInv, Running, Watched, TypeInv, Numbers, Quiet, Threads
<1>14. CASE StopWatchdog
  BY <1>14, <1>0, Limits DEF StopWatchdog, worldVars, timerVars, hangVars,
     SysticInv, Running, Watched, TypeInv, Numbers, Quiet, Threads
<1>15. CASE PowerDown
  BY <1>15, <1>0, Limits DEF PowerDown, worldVars, timerVars, hangVars,
     SysticInv, Running, Watched, TypeInv, Numbers, Quiet, Threads
<1>16. CASE PowerOn
  BY <1>16, Restarted, Limits DEF PowerOn, SysticInv, Running, Watched
<1>17. CASE WatchdogFires
  BY <1>17, Restarted, Limits DEF WatchdogFires, SysticInv, Running, Watched
<1>18. CASE ResetDone
  BY <1>18, Restarted, Limits DEF ResetDone, SysticInv, Running, Watched
<1>19. CASE Tick
  <2> SUFFICES ASSUME Watched' PROVE SysticInv'
    BY DEF SysticInv, Running
  <2>1. \/ quiet'["systic"] = 0
        \/ /\ quiet["systic"] < fed
           /\ quiet'["systic"] <= quiet["systic"] + 1
    BY <1>19, Ticked DEF SysticInv, Threads
  <2> QED
    BY <1>19, <2>1, Ticked, Limits DEF SysticInv, TypeInv, Numbers, Quiet,
       Threads
<1>20. CASE UNCHANGED vars
  BY <1>20 DEF vars, worldVars, timerVars, hangVars, SysticInv, Running,
     Watched, TypeInv, Numbers, Quiet, Threads
<1> QED
  BY <1>1, <1>2, <1>3, <1>4, <1>5, <1>6, <1>7, <1>8, <1>9, <1>10, <1>11,
     <1>12, <1>13, <1>14, <1>15, <1>16, <1>17, <1>18, <1>19, <1>20 DEF Next

LEMMA BootInit == Init => BootInv
BY Limits DEF Init, BootInv, Running, Watched, Threads

LEMMA BootStep == TypeInv /\ BootInv /\ [Next]_vars => BootInv'
<1> SUFFICES ASSUME TypeInv, BootInv, [Next]_vars PROVE BootInv'
  OBVIOUS
<1>0. world' = world
  BY WorldStays
<1>1. CASE RecoveryInit
  BY <1>1, <1>0, Limits DEF RecoveryInit, worldVars, timerVars, hangVars,
     BootInv, Running, Watched, TypeInv, Numbers, Shape
<1>2. CASE CheckInTask
  BY <1>2, <1>0, Limits DEF CheckInTask, Free, worldVars, timerVars,
     hangVars, BootInv, Running, Watched, TypeInv, Numbers, Shape
<1>3. CASE ServerLoop
  BY <1>3, <1>0, Limits DEF ServerLoop, Free, worldVars, timerVars, BootInv,
     Running, Watched, TypeInv, Numbers, Shape
<1>4. CASE FeedBooting
  BY <1>4, <1>0, Limits DEF FeedBooting, UpdateTick, worldVars, timerVars,
     hangVars, Free, BootInv, Running, Watched, TypeInv, Numbers, Shape
<1>5. CASE FeedWithheld
  BY <1>5, <1>0, Limits DEF FeedWithheld, UpdateTick, FeedGated, worldVars,
     timerVars, hangVars, Free, BootInv, Running, Watched, TypeInv, Numbers,
     Shape
<1>6. CASE Feed
  BY <1>6, <1>0, Limits DEF Feed, UpdateTick, FeedGated, worldVars,
     hangVars, Free, BootInv, Running, Watched, TypeInv, Numbers, Shape
<1>7. CASE GpsFaultReset
  BY <1>7, <1>0, Limits DEF GpsFaultReset, UpdateTick, FeedGated,
     RequestReset, worldVars, timerVars, hangVars, Free, BootInv, Running,
     Watched, TypeInv, Numbers, Shape
<1>8. CASE ConnectionReset
  BY <1>8, <1>0, Limits DEF ConnectionReset, UpdateTick, FeedGated,
     RequestReset, worldVars, hangVars, Free, BootInv, Running, Watched,
     TypeInv, Numbers, Shape
<1>9. CASE CountSecond
  BY <1>9, <1>0, Limits DEF CountSecond, Event1s, worldVars, timerVars,
     Free, BootInv, Running, Watched, TypeInv, Numbers, Shape
<1>10. CASE HangReset
  BY <1>10, <1>0, Limits DEF HangReset, Event1s, RequestReset, worldVars,
     timerVars, Free, BootInv, Running, Watched, TypeInv, Numbers, Shape
<1>11. CASE CommandReset
  BY <1>11, <1>0, Limits DEF CommandReset, Free, RequestReset, worldVars,
     timerVars, hangVars, BootInv, Running, Watched, TypeInv, Numbers, Shape
<1>12. CASE MainReset
  BY <1>12, <1>0, Limits DEF MainReset, RequestReset, worldVars, timerVars,
     hangVars, BootInv, Running, Watched, TypeInv, Numbers, Shape
<1>13. CASE LowBattery
  BY <1>13, <1>0, Limits DEF LowBattery, worldVars, timerVars, hangVars,
     BootInv, Running, Watched, TypeInv, Numbers, Shape
<1>14. CASE StopWatchdog
  BY <1>14, <1>0, Limits DEF StopWatchdog, worldVars, timerVars, hangVars,
     BootInv, Running, Watched, TypeInv, Numbers, Shape
<1>15. CASE PowerDown
  BY <1>15, <1>0, Limits DEF PowerDown, worldVars, timerVars, hangVars,
     BootInv, Running, Watched, TypeInv, Numbers, Shape
<1>16. CASE PowerOn
  BY <1>16, Restarted, Limits DEF PowerOn, BootInv, Running, Watched
<1>17. CASE WatchdogFires
  BY <1>17, Restarted, Limits DEF WatchdogFires, BootInv, Running, Watched
<1>18. CASE ResetDone
  BY <1>18, Restarted, Limits DEF ResetDone, BootInv, Running, Watched
<1>19. CASE Tick
  <2> SUFFICES ASSUME Watched', ~ inited' PROVE BootInv'
    BY DEF BootInv, Running
  <2>1. up' \in 0 .. up + 1
    BY <1>19, Limits DEF Tick, Upto, TypeInv, Numbers
  <2>2. Running /\ ~ inited /\ fed <= WdtTimeout /\ fed' = fed + 1
    BY <1>19, Ticked
  <2> QED
    BY <2>1, <2>2, Limits DEF BootInv, TypeInv, Numbers
<1>20. CASE UNCHANGED vars
  BY <1>20 DEF vars, worldVars, timerVars, hangVars, BootInv, Running,
     Watched, TypeInv, Numbers, Shape
<1> QED
  BY <1>1, <1>2, <1>3, <1>4, <1>5, <1>6, <1>7, <1>8, <1>9, <1>10, <1>11,
     <1>12, <1>13, <1>14, <1>15, <1>16, <1>17, <1>18, <1>19, <1>20 DEF Next

LEMMA GprsInit == Init => GprsInv
BY Limits DEF Init, GprsInv, Running, Watched, Threads

LEMMA GprsStep == TypeInv /\ BootInv /\ GprsInv /\ [Next]_vars => GprsInv'
<1> SUFFICES ASSUME TypeInv, BootInv, GprsInv, [Next]_vars PROVE GprsInv'
  OBVIOUS
<1>0. world' = world
  BY WorldStays
<1>1. CASE RecoveryInit
  BY <1>1, <1>0, Limits DEF RecoveryInit, worldVars, timerVars, hangVars,
     GprsInv, Running, Watched, TypeInv, Numbers, Quiet, Threads, BootInv
<1>2. CASE CheckInTask
  BY <1>2, <1>0, Limits DEF CheckInTask, Free, worldVars, timerVars,
     hangVars, GprsInv, Running, Watched, TypeInv, Numbers, Quiet, Threads,
     BootInv
<1>3. CASE ServerLoop
  BY <1>3, <1>0, Limits DEF ServerLoop, Free, worldVars, timerVars, GprsInv,
     Running, Watched, TypeInv, Numbers, Quiet, Threads, BootInv
<1>4. CASE FeedBooting
  BY <1>4, <1>0, Limits DEF FeedBooting, UpdateTick, worldVars, timerVars,
     hangVars, Free, GprsInv, Running, Watched, TypeInv, Numbers, Quiet,
     Threads, BootInv
<1>5. CASE FeedWithheld
  BY <1>5, <1>0, Limits DEF FeedWithheld, UpdateTick, FeedGated,
     GprsIsAlive, worldVars, timerVars, hangVars, Free, GprsInv, Running,
     Watched, TypeInv, Numbers, Quiet, Threads, BootInv
<1>6. CASE Feed
  BY <1>6, <1>0, Limits DEF Feed, UpdateTick, FeedGated, GprsIsAlive,
     worldVars, hangVars, Free, GprsInv, Running, Watched, TypeInv, Numbers,
     Quiet, Threads, BootInv
<1>7. CASE GpsFaultReset
  BY <1>7, <1>0, Limits DEF GpsFaultReset, UpdateTick, FeedGated,
     GprsIsAlive, RequestReset, worldVars, timerVars, hangVars, Free,
     GprsInv, Running, Watched, TypeInv, Numbers, Quiet, Threads, BootInv
<1>8. CASE ConnectionReset
  BY <1>8, <1>0, Limits DEF ConnectionReset, UpdateTick, FeedGated,
     GprsIsAlive, RequestReset, worldVars, hangVars, Free, GprsInv, Running,
     Watched, TypeInv, Numbers, Quiet, Threads, BootInv
<1>9. CASE CountSecond
  BY <1>9, <1>0, Limits DEF CountSecond, Event1s, worldVars, timerVars,
     Free, GprsInv, Running, Watched, TypeInv, Numbers, Quiet, Threads,
     BootInv
<1>10. CASE HangReset
  BY <1>10, <1>0, Limits DEF HangReset, Event1s, RequestReset, worldVars,
     timerVars, Free, GprsInv, Running, Watched, TypeInv, Numbers, Quiet,
     Threads, BootInv
<1>11. CASE CommandReset
  BY <1>11, <1>0, Limits DEF CommandReset, Free, RequestReset, worldVars,
     timerVars, hangVars, GprsInv, Running, Watched, TypeInv, Numbers,
     Quiet, Threads, BootInv
<1>12. CASE MainReset
  BY <1>12, <1>0, Limits DEF MainReset, RequestReset, worldVars, timerVars,
     hangVars, GprsInv, Running, Watched, TypeInv, Numbers, Quiet, Threads,
     BootInv
<1>13. CASE LowBattery
  BY <1>13, <1>0, Limits DEF LowBattery, worldVars, timerVars, hangVars,
     GprsInv, Running, Watched, TypeInv, Numbers, Quiet, Threads, BootInv
<1>14. CASE StopWatchdog
  BY <1>14, <1>0, Limits DEF StopWatchdog, worldVars, timerVars, hangVars,
     GprsInv, Running, Watched, TypeInv, Numbers, Quiet, Threads, BootInv
<1>15. CASE PowerDown
  BY <1>15, <1>0, Limits DEF PowerDown, worldVars, timerVars, hangVars,
     GprsInv, Running, Watched, TypeInv, Numbers, Quiet, Threads, BootInv
<1>16. CASE PowerOn
  BY <1>16, Restarted, Limits DEF PowerOn, GprsInv, Running, Watched
<1>17. CASE WatchdogFires
  BY <1>17, Restarted, Limits DEF WatchdogFires, GprsInv, Running, Watched
<1>18. CASE ResetDone
  BY <1>18, Restarted, Limits DEF ResetDone, GprsInv, Running, Watched
<1>19. CASE Tick
  <2> SUFFICES ASSUME Watched' PROVE GprsInv'
    BY DEF GprsInv, Running
  <2>1. /\ Running /\ fed <= WdtTimeout /\ fed' = fed + 1 /\ inited' = inited
        /\ quiet'["gprs"] \in 0 .. quiet["gprs"] + 1
        /\ "gprs" \notin held => quiet'["gprs"] = 0
    BY <1>19, Ticked DEF Threads
  <2>2. Watched /\ quiet["gprs"] \in Nat
    BY <2>1 DEF Running, TypeInv, Quiet, Threads
  <2>3. CASE ~ inited
    <3>1. up' = up + 1
      BY <1>19, <2>1, <2>3, Limits DEF Tick, Upto, TypeInv, Numbers, BootInv
    <3>2. quiet'["gprs"] < up' /\ up' <= BootGrace + WdtTimeout + 1
      BY <2>1, <2>2, <2>3, <3>1, Limits DEF GprsInv, BootInv, TypeInv, Numbers
    <3> QED
      BY <2>1, <2>2, <2>3, <3>1, <3>2, Limits DEF GprsInv, Running, TypeInv,
         Numbers
  <2>4. CASE inited
    <3>1. checkIn' <= GprsStall =>
              checkIn' = checkIn + 1 /\ checkIn <= GprsStall
      BY <1>19, Limits DEF Tick, Upto, TypeInv, Numbers
    <3> QED
      BY <2>1, <2>2, <2>4, <3>1, Limits DEF GprsInv, TypeInv, Numbers
  <2> QED
    BY <2>3, <2>4, <2>1 DEF TypeInv, Shape
<1>20. CASE UNCHANGED vars
  BY <1>20 DEF vars, worldVars, timerVars, hangVars, GprsInv, Running,
     Watched, TypeInv, Numbers, Quiet, Threads, BootInv
<1> QED
  BY <1>1, <1>2, <1>3, <1>4, <1>5, <1>6, <1>7, <1>8, <1>9, <1>10, <1>11,
     <1>12, <1>13, <1>14, <1>15, <1>16, <1>17, <1>18, <1>19, <1>20 DEF Next

(* A step that touches neither the server thread's loop nor its count.       *)
LEMMA ServerStill ==
    ASSUME ServerInv, UNCHANGED <<quiet, around, timeout, exempt>>,
           "server" \in ran' <=> "server" \in ran,
           "systic" \in ran' <=> "systic" \in ran,
           Running' => Running, Watched' => Watched
    PROVE  ServerInv'
<1>1. Silence' = Silence /\ (InTransfer' <=> InTransfer)
  BY DEF Silence, InTransfer
<1> QED
  BY <1>1, Zenon DEF ServerInv

LEMMA ServerInit == Init => ServerInv
BY Limits DEF Init, ServerInv, Running, Watched, Threads, InTransfer, Calm,
   Silence

LEMMA ServerStep == TypeInv /\ ServerInv /\ [Next]_vars => ServerInv'
<1> SUFFICES ASSUME TypeInv, ServerInv, [Next]_vars PROVE ServerInv'
  OBVIOUS
<1>0. world' = world
  BY WorldStays
<1>1. CASE RecoveryInit
  BY <1>1, <1>0, ServerStill DEF RecoveryInit, worldVars, timerVars,
     hangVars, Running, Watched
<1>2. CASE CheckInTask
  BY <1>2, <1>0, ServerStill DEF CheckInTask, Free, worldVars, timerVars,
     hangVars, Running, Watched
<1>3. CASE ServerLoop
  BY <1>3, <1>0, Limits DEF ServerLoop, Free, worldVars, timerVars,
     ServerInv, Running, Watched, Silence, TypeInv, Quiet, Numbers, Threads
<1>4. CASE FeedBooting
  BY <1>4, <1>0, ServerStill DEF FeedBooting, UpdateTick, worldVars,
     timerVars, hangVars, Free, Running, Watched
<1>5. CASE FeedWithheld
  BY <1>5, <1>0, ServerStill DEF FeedWithheld, UpdateTick, FeedGated,
     worldVars, timerVars, hangVars, Free, Running, Watched
<1>6. CASE Feed
  BY <1>6, <1>0, ServerStill DEF Feed, UpdateTick, FeedGated, worldVars,
     hangVars, Free, Running, Watched
<1>7. CASE GpsFaultReset
  BY <1>7, <1>0, ServerStill DEF GpsFaultReset, UpdateTick, FeedGated,
     RequestReset, worldVars, timerVars, hangVars, Free, Running, Watched
<1>8. CASE ConnectionReset
  BY <1>8, <1>0, ServerStill DEF ConnectionReset, UpdateTick, FeedGated,
     RequestReset, worldVars, hangVars, Free, Running, Watched
<1>9. CASE CountSecond
  <2> SUFFICES ASSUME Running, "server" \notin ran PROVE ServerInv'
    BY <1>9 DEF CountSecond, Event1s, ServerInv, Running, Watched, worldVars
  <2>1. /\ "systic" \notin ran /\ "systic" \in ran' /\ "server" \notin ran'
        /\ UNCHANGED <<around, quiet>> /\ (InTransfer' <=> InTransfer)
        /\ exempt' = ExemptSecs /\ (Spared \/ timeout < HangSecs)
        /\ timeout' = IF Spared THEN 0 ELSE timeout + 1
    BY <1>9 DEF CountSecond, Event1s, worldVars, InTransfer
  <2>2. quiet["server"] \in Nat /\ timeout \in 0 .. HangSecs
        /\ exempt \in 0 .. ExemptWidth - 1
    BY DEF TypeInv, Quiet, Numbers, Threads
  <2>3. Silence = quiet["server"]
        /\ Silence' = IF around.sleeping THEN 0 ELSE quiet["server"] + 1
    BY <2>1 DEF Silence
  <2>4. Watched' => quiet'["server"] <= FtpExempt + 2 * HangSecs
    BY <2>1 DEF ServerInv, Running
  <2>5. CASE around.sleeping
    <3>1. timeout' = 0 /\ Silence' = 0
      BY <2>1, <2>3, <2>5 DEF Spared
    <3>2. exempt' \in Nat
      BY <2>1, <2>2, Exempted, Limits
    <3>3. 0 <= HangSecs + FtpExempt + 0
      BY Limits
    <3>4. \A n \in Nat : 0 <= HangSecs + 1 + n
      BY Limits
    <3> QED
      BY <2>4, <3>1, <3>2, <3>3, <3>4 DEF ServerInv
  <2>6. CASE ~ around.sleeping /\ ~ InTransfer
    <3>1. timeout' = timeout + 1 /\ Silence' = Silence + 1
      BY <2>1, <2>3, <2>6 DEF Spared
    <3> QED
      BY <2>1, <2>2, <2>3, <2>4, <2>6, <3>1, Limits DEF ServerInv
  <2>7. CASE ~ around.sleeping /\ InTransfer
    <3>1. Silence' = Silence + 1
          /\ timeout' = IF exempt' < FtpExempt THEN 0 ELSE timeout + 1
      BY <2>1, <2>3, <2>7 DEF Spared
    <3>2. exempt' >= FtpExempt => timeout < HangSecs
      BY <2>1, <2>2, <2>7, Limits, Exempted DEF Spared
    <3>3. /\ exempt' \in {0, exempt + 1}
          /\ exempt + 1 < ExemptWidth => exempt' = exempt + 1
      BY <2>1, <2>2, <2>7, Exempted
    <3>4. CASE exempt < FtpExempt
      <4>1. exempt' = exempt + 1 /\ Silence <= HangSecs + 1 + exempt
        BY <2>1, <2>2, <2>7, <3>3, <3>4, Limits DEF ServerInv
      <4> QED
        BY <2>1, <2>2, <2>3, <2>4, <2>7, <3>1, <3>2, <3>4, <4>1, Limits DEF
           ServerInv
    <3>5. CASE exempt >= FtpExempt
      <4>1. \/ Silence <= timeout
            \/ /\ Silence <= HangSecs + FtpExempt + timeout
               /\ exempt < FtpExempt + timeout
        BY <2>1, <2>7, <3>5 DEF ServerInv
      <4>2. CASE exempt' = 0
        BY <2>1, <2>2, <2>3, <2>4, <2>7, <3>1, <3>2, <3>3, <3>5, <4>1, <4>2,
           Limits DEF ServerInv
      <4>3. CASE exempt' = exempt + 1
        BY <2>1, <2>2, <2>3, <2>4, <2>7, <3>1, <3>2, <3>5, <4>1, <4>3,
           Limits DEF ServerInv
      <4> QED
        BY <3>3, <4>2, <4>3
    <3> QED
      BY <2>2, <3>4, <3>5, Limits
  <2> QED
    BY <2>5, <2>6, <2>7
<1>10. CASE HangReset
  BY <1>10, <1>0, Limits DEF HangReset, Event1s, RequestReset, worldVars,
     timerVars, Free, ServerInv, Running, Watched, Silence, TypeInv, Quiet,
     Numbers, Threads
<1>11. CASE CommandReset
  BY <1>11, <1>0, ServerStill DEF CommandReset, Free, RequestReset,
     worldVars, timerVars, hangVars, Running, Watched
<1>12. CASE MainReset
  BY <1>12, <1>0, ServerStill DEF MainReset, RequestReset, worldVars,
     timerVars, hangVars, Running, Watched
<1>13. CASE LowBattery
  BY <1>13, <1>0, ServerStill DEF LowBattery, worldVars, timerVars, hangVars,
     Running, Watched
<1>14. CASE StopWatchdog
  BY <1>14, <1>0, ServerStill DEF StopWatchdog, worldVars, timerVars,
     hangVars, Running, Watched
<1>15. CASE PowerDown
  BY <1>15, <1>0, ServerStill DEF PowerDown, worldVars, timerVars, hangVars,
     Running, Watched
<1>16. CASE PowerOn
  BY <1>16, Restarted, Limits DEF PowerOn, ServerInv, Silence, InTransfer,
     Calm, Running, Watched
<1>17. CASE WatchdogFires
  BY <1>17, Restarted, Limits DEF WatchdogFires, ServerInv, Silence,
     InTransfer, Calm, Running, Watched
<1>18. CASE ResetDone
  BY <1>18, Restarted, Limits DEF ResetDone, ServerInv, Silence, InTransfer,
     Calm, Running, Watched
<1>19. CASE Tick
  <2> SUFFICES ASSUME Watched' PROVE ServerInv'
    BY DEF ServerInv, Running
  <2>1. Running /\ Watched /\ quiet["server"] \in Nat
    BY <1>19, Ticked DEF TypeInv, Quiet, Threads, Running
  <2>2. ran' = {} /\ Silence' = quiet'["server"] /\ UNCHANGED hangVars
    BY <1>19 DEF Tick, Silence
  <2>3. CASE "server" \in ran
    <3>1. Silence' = 0
      BY <1>19, <2>2, <2>3 DEF Tick, Threads
    <3> QED
      BY <2>2, <3>1, Limits DEF ServerInv, TypeInv, Numbers, hangVars
  <2>4. CASE "server" \notin ran
    <3>1. Silence \in Nat /\ Silence' <= Silence /\ Silence' \in Nat
      <4>1. /\ "systic" \notin ran => quiet'["server"] = quiet["server"]
            /\ "systic" \in ran /\ around.sleeping => quiet'["server"] = 0
        BY <1>19, <2>4 DEF Tick, Threads
      <4>2. quiet'["server"] \in 0 .. quiet["server"] + 1
        BY <1>19, Ticked DEF Threads
      <4> QED
        BY <2>1, <2>2, <4>1, <4>2 DEF Silence
    <3>2. InTransfer' => InTransfer
      BY <1>19, <2>4 DEF Tick, InTransfer
    <3>3. Silence <= FtpExempt + 2 * HangSecs
      BY <2>1, <2>4, <3>1, Limits DEF ServerInv, TypeInv, Numbers
    <3>4. ~ InTransfer => Silence <= HangSecs + FtpExempt + timeout
      BY <2>1, <2>4 DEF ServerInv
    <3>5. InTransfer => Silence <= HangSecs + FtpExempt + timeout
      BY <2>1, <2>4, <3>1, Limits DEF ServerInv, TypeInv, Numbers
    <3> QED
      BY <2>1, <2>2, <2>4, <3>1, <3>2, <3>3, <3>4, <3>5, Limits
      DEF ServerInv, TypeInv, Numbers, hangVars
  <2> QED
    BY <2>3, <2>4
<1>20. CASE UNCHANGED vars
  BY <1>20, ServerStill DEF vars, worldVars, timerVars, hangVars, ServerInv,
     Running,
     Watched, Silence, TypeInv, Quiet, Numbers, Threads
<1> QED
  BY <1>1, <1>2, <1>3, <1>4, <1>5, <1>6, <1>7, <1>8, <1>9, <1>10, <1>11,
     <1>12, <1>13, <1>14, <1>15, <1>16, <1>17, <1>18, <1>19, <1>20 DEF Next

RecoveryInv == TypeInv /\ SysticInv /\ BootInv /\ GprsInv /\ ServerInv

LEMMA RecoveryInvInit == Init => RecoveryInv
BY TypeInit, SysticInit, BootInit, GprsInit, ServerInit DEF RecoveryInv

LEMMA RecoveryInvStep == RecoveryInv /\ [Next]_vars => RecoveryInv'
BY TypeStep, SysticStep, BootStep, GprsStep, ServerStep DEF RecoveryInv

(* With the watchdog started, a thread that hangs, at any time and also      *)
(* inside a download, is ended by a reset within QuietLimit, and so is a     *)
(* boot that hangs.                                                          *)
THEOREM RecoveryHangIsBounded == Spec => []HangIsBounded
<1>1. RecoveryInv => HangIsBounded
  BY DEF RecoveryInv, SysticInv, BootInv, GprsInv, ServerInv, Watched,
     HangIsBounded, QuietLimit, Threads
<1> QED
  BY <1>1, RecoveryInvInit, RecoveryInvStep, PTL DEF Spec

-----------------------------------------------------------------------------
\* The count of seconds, against the silence of the server thread.
CountInv ==
    /\ "systic" \notin ran => timeout <= quiet["server"] + 1
    /\ "systic" \notin ran /\ "server" \in ran => timeout = 0
    /\ "systic" \in ran =>
          /\ timeout <= quiet["server"] + 2
          /\ "server" \in ran => timeout <= 1
          /\ "server" \notin ran /\ around.sleeping => timeout = 0

\* Nothing holds a thread up, and the GPRS thread checks in every second.
Prompt == "hang" \notin world
PromptInv ==
    Prompt => /\ held = {}
              /\ checkIn <= 1
              /\ "gprs" \in ran => checkIn = 0

\* The exemption of a transfer is its age, and the count starts after it.
Counting == Prompt /\ "systic" \notin resetting
Exhausted == transferFor >= FtpExempt + HangSecs
TransferInv ==
    Counting =>
       /\ ~ InTransfer => transferFor = 0
       /\ ~ InTransfer /\ "systic" \in ran => exempt = 0
       /\ InTransfer /\ "systic" \notin ran /\ ~ Exhausted =>
             /\ transferFor > 0 /\ exempt = transferFor - 1
             /\ transferFor > 1 /\ timeout > 0 =>
                   timeout <= transferFor - FtpExempt
       /\ InTransfer /\ "systic" \in ran /\ ~ Exhausted =>
             /\ transferFor > 0 /\ exempt = transferFor
             /\ timeout > 0 => timeout <= transferFor - FtpExempt + 1

\* The checks are made before the seconds are counted, and not in a boot.
OrderInv ==
    /\ "systic" \in ran => "tick" \in ran
    /\ ~ inited => serverOk = Unset /\ gpsOk = Unset

\* A timer is younger than what it times: after the check of this second, and
\* before it unless the check is going to set the timer.
Feeding == Prompt /\ FeedGated /\ "systic" \notin resetting
Connected == around.net \/ around.sleeping \/ around.transfer = "ota"
ConnInv ==
    Feeding =>
       \/ serverOk = Unset \/ wasSleeping \/ serverOk <= downFor
       \/ "tick" \notin ran /\ Connected

AlwaysChecked == Prompt /\ "gpsoff" \notin world /\ "transfer" \notin world
FaultInv ==
    AlwaysChecked =>
       /\ ~ around.unchecked /\ ~ InTransfer
       /\ Feeding =>
             /\ gpsOk # Unset => up > GpsGrace
             /\ \/ gpsOk = Unset \/ gpsOk <= faultFor
                \/ "tick" \notin ran /\ ~ around.fault

(* The steps as the count of seconds sees them.                              *)
LEMMA CountedSteps ==
    ASSUME [Next]_vars
    PROVE  \/ Restart \/ Tick \/ ServerLoop \/ CountSecond \/ HangReset
           \/ /\ UNCHANGED <<worldVars, hangVars>> /\ resetting \subseteq resetting'
              /\ "server" \in ran' <=> "server" \in ran
              /\ "systic" \in ran' <=> "systic" \in ran
<1>1. CASE RecoveryInit \/ CheckInTask
  BY <1>1 DEF RecoveryInit, CheckInTask
<1>2. CASE FeedBooting \/ FeedWithheld \/ Feed
  BY <1>2 DEF FeedBooting, FeedWithheld, Feed, UpdateTick
<1>3. CASE GpsFaultReset \/ ConnectionReset
  BY <1>3 DEF GpsFaultReset, ConnectionReset, UpdateTick, RequestReset
<1>4. CASE CommandReset \/ MainReset
  BY <1>4 DEF CommandReset, MainReset, RequestReset
<1>5. CASE LowBattery \/ StopWatchdog \/ PowerDown
  BY <1>5 DEF LowBattery, StopWatchdog, PowerDown
<1>6. CASE PowerOn \/ WatchdogFires \/ ResetDone
  BY <1>6 DEF PowerOn, WatchdogFires, ResetDone
<1>7. CASE UNCHANGED vars
  BY <1>7 DEF vars
<1> QED
  BY <1>1, <1>2, <1>3, <1>4, <1>5, <1>6, <1>7 DEF Next

(* The steps as the timers of the GPS and of the connection see them.        *)
LEMMA TimedSteps ==
    ASSUME [Next]_vars
    PROVE  \/ Restart \/ Tick \/ RecoveryInit \/ CheckInTask
           \/ FeedBooting \/ FeedWithheld \/ Feed
           \/ /\ "systic" \in resetting' /\ FeedGated
              /\ UNCHANGED <<worldVars, inited, wdt, checkIn, pdn>>
              /\ "gprs" \in ran' <=> "gprs" \in ran
           \/ /\ UNCHANGED <<worldVars, timerVars, inited, checkIn>>
              /\ resetting \subseteq resetting' /\ (FeedGated' => FeedGated)
              /\ "gprs" \in ran' <=> "gprs" \in ran
              /\ "tick" \in ran' <=> "tick" \in ran
<1>1. CASE ServerLoop \/ CountSecond
  BY <1>1 DEF ServerLoop, CountSecond, Event1s, FeedGated
<1>2. CASE HangReset \/ CommandReset \/ MainReset
  BY <1>2 DEF HangReset, Event1s, CommandReset, MainReset, RequestReset,
     FeedGated
<1>3. CASE GpsFaultReset \/ ConnectionReset
  BY <1>3 DEF GpsFaultReset, ConnectionReset, UpdateTick, RequestReset
<1>5. CASE LowBattery \/ StopWatchdog \/ PowerDown
  BY <1>5 DEF LowBattery, StopWatchdog, PowerDown, FeedGated
<1>6. CASE PowerOn \/ WatchdogFires \/ ResetDone
  BY <1>6 DEF PowerOn, WatchdogFires, ResetDone
<1>7. CASE UNCHANGED vars
  BY <1>7 DEF vars, FeedGated
<1> QED
  BY <1>1, <1>2, <1>3, <1>5, <1>6, <1>7 DEF Next

LEMMA CountStep == TypeInv /\ CountInv /\ [Next]_vars => CountInv'
<1> SUFFICES ASSUME TypeInv, CountInv, [Next]_vars PROVE CountInv'
  OBVIOUS
<1>0. timeout \in Nat /\ timeout <= HangSecs /\ quiet["server"] \in Nat
  BY Limits DEF TypeInv, Numbers, Quiet, Threads
<1>1. CASE Restart
  BY <1>1, Restarted DEF CountInv
<1>2. CASE ServerLoop
  BY <1>0, <1>2 DEF ServerLoop, CountInv, worldVars
<1>3. CASE CountSecond
  <2>1. /\ timeout' = 0 \/ timeout' = timeout + 1
        /\ around.sleeping => timeout' = 0
        /\ UNCHANGED <<quiet, around>>
        /\ "systic" \notin ran /\ "systic" \in ran'
        /\ "server" \in ran' <=> "server" \in ran
    BY <1>3 DEF CountSecond, Event1s, Spared, worldVars
  <2> QED
    BY <1>0, <2>1 DEF CountInv
<1>4. CASE HangReset
  BY <1>0, <1>4 DEF HangReset, Event1s, CountInv, worldVars
<1>5. CASE Tick
  <2>1. ran' = {} /\ timeout' = timeout
    BY <1>5 DEF Tick, hangVars
  <2>2. quiet'["server"] =
            IF "server" \in ran THEN 0
            ELSE IF "systic" \notin ran THEN quiet["server"]
            ELSE IF around.sleeping THEN 0
            ELSE Upto(quiet["server"] + 1, QuietLimit["server"] + 1)
    BY <1>5 DEF Tick, Threads
  <2>3. QuietLimit["server"] = FtpExempt + 2 * HangSecs
    BY DEF QuietLimit
  <2>4. CASE "systic" \in ran
    BY <1>0, <2>1, <2>2, <2>3, <2>4, Limits DEF CountInv, Upto
  <2>5. CASE "systic" \notin ran
    BY <1>0, <2>1, <2>2, <2>5 DEF CountInv
  <2> QED
    BY <2>4, <2>5
<1>6. CASE /\ UNCHANGED <<worldVars, hangVars>>
           /\ "server" \in ran' <=> "server" \in ran
           /\ "systic" \in ran' <=> "systic" \in ran
  BY <1>6 DEF CountInv, worldVars, hangVars
<1> QED
  BY <1>1, <1>2, <1>3, <1>4, <1>5, <1>6, CountedSteps

LEMMA PromptStep == TypeInv /\ PromptInv /\ [Next]_vars => PromptInv'
<1> SUFFICES ASSUME TypeInv, PromptInv, [Next]_vars, Prompt PROVE PromptInv'
  BY WorldStays DEF PromptInv, Prompt
<1>1. CASE Restart
  BY <1>1 DEF Restart, PromptInv
<1>2. CASE Tick
  <2>1. "gprs" \in ran
    BY <1>2 DEF Tick, Free, TypeInv, Shape, Threads, PromptInv
  <2>2. checkIn' <= 1 /\ ran' = {}
    BY <1>2, <2>1, Limits DEF Tick, PromptInv, Upto
  <2>3. held' = {}
    BY <1>2 DEF Tick, Held, Prompt
  <2> QED
    BY <2>2, <2>3 DEF PromptInv
<1>3. CASE RecoveryInit \/ CheckInTask
  BY <1>3 DEF RecoveryInit, CheckInTask, PromptInv, worldVars
<1>4. CASE FeedBooting \/ FeedWithheld \/ Feed
  BY <1>4 DEF FeedBooting, FeedWithheld, Feed, UpdateTick, PromptInv, worldVars
<1>5. CASE UNCHANGED <<worldVars, checkIn>> /\ ("gprs" \in ran' <=> "gprs" \in ran)
  BY <1>5 DEF PromptInv, worldVars
<1> QED
  BY <1>1, <1>2, <1>3, <1>4, <1>5, TimedSteps

LEMMA TransferStep ==
    TypeInv /\ PromptInv /\ TransferInv /\ [Next]_vars => TransferInv'
<1> SUFFICES ASSUME TypeInv, PromptInv, TransferInv, [Next]_vars, Counting'
             PROVE  TransferInv'
  BY DEF TransferInv
<1>0. /\ timeout \in Nat /\ exempt \in 0 .. ExemptWidth - 1 /\ transferFor \in Nat
      /\ FtpExempt \in Nat /\ HangSecs \in Nat /\ ExemptWidth \in Nat
      /\ FtpExempt > 1 /\ HangSecs > 0 /\ FtpExempt + HangSecs < ExemptWidth
      /\ Prompt
  BY Limits, RecoveryAssumption, WorldStays
  DEF TypeInv, Numbers, Counting, Prompt
<1>1. CASE Restart
  BY <1>1, Restarted DEF TransferInv, InTransfer, Calm, Restart
<1>2. CASE Tick
  <2>1. /\ Counting /\ ran' = {} /\ UNCHANGED <<timeout, exempt>>
        /\ "systic" \in ran
        /\ InTransfer' => transferFor' =
               Upto(transferFor + 1, FtpExempt + HangSecs)
        /\ ~ InTransfer' => transferFor' = 0
    <3>1. Counting /\ ran' = {} /\ UNCHANGED <<timeout, exempt>>
      BY <1>2 DEF Tick, Counting, Prompt, hangVars
    <3>2. "systic" \in ran
      BY <1>0, <1>2, <3>1 DEF Tick, Free, Threads, PromptInv, Counting
    <3> QED
      BY <1>2, <3>1, <3>2 DEF Tick, InTransfer
  <2>2. CASE ~ InTransfer'
    BY <2>1, <2>2 DEF TransferInv
  <2>3. CASE InTransfer' /\ ~ InTransfer
    <3>1. transferFor' = 1 /\ exempt' = 0
      BY <1>0, <2>1, <2>3 DEF TransferInv, Upto
    <3> QED
      BY <2>1, <2>3, <3>1 DEF TransferInv
  <2>4. CASE InTransfer' /\ InTransfer
    <3>1. CASE Exhausted
      BY <1>0, <2>1, <2>4, <3>1 DEF TransferInv, Exhausted, Upto
    <3>2. CASE ~ Exhausted
      <4>1. /\ transferFor > 0 /\ exempt = transferFor
            /\ timeout > 0 => timeout <= transferFor - FtpExempt + 1
        BY <2>1, <2>4, <3>2 DEF TransferInv
      <4>2. transferFor' = transferFor + 1
        BY <1>0, <2>1, <2>4, <3>2 DEF Exhausted, Upto
      <4> QED
        BY <1>0, <2>1, <2>4, <4>1, <4>2 DEF TransferInv
    <3> QED
      BY <3>1, <3>2
  <2> QED
    BY <2>2, <2>3, <2>4
<1>3. CASE ServerLoop
  <2>1. /\ Counting /\ ~ InTransfer /\ ~ InTransfer'
        /\ UNCHANGED <<transferFor, exempt>>
        /\ "systic" \in ran' <=> "systic" \in ran
    BY <1>3 DEF ServerLoop, Counting, Prompt, InTransfer, worldVars
  <2> QED
    BY <2>1 DEF TransferInv
<1>4. CASE CountSecond
  <2>1. /\ Counting /\ "systic" \notin ran /\ "systic" \in ran'
        /\ UNCHANGED <<around, transferFor>> /\ exempt' = ExemptSecs
        /\ Spared \/ timeout < HangSecs
        /\ timeout' = IF Spared THEN 0 ELSE timeout + 1
        /\ InTransfer' <=> InTransfer
        /\ Exhausted' <=> Exhausted
    BY <1>4 DEF CountSecond, Event1s, Counting, Prompt, worldVars, InTransfer,
       Exhausted
  <2>2. CASE ~ InTransfer
    BY <2>1, <2>2 DEF TransferInv, ExemptSecs
  <2>3. CASE InTransfer /\ Exhausted
    BY <2>1, <2>3 DEF TransferInv
  <2>4. CASE InTransfer /\ ~ Exhausted
    <3>1. /\ transferFor > 0 /\ exempt = transferFor - 1
          /\ transferFor > 1 /\ timeout > 0 =>
                timeout <= transferFor - FtpExempt
      BY <2>1, <2>4 DEF TransferInv
    <3>2. exempt' = transferFor
      BY <1>0, <2>1, <2>4, <3>1, Exempted DEF Exhausted
    <3>3. timeout' > 0 => ~ (transferFor < FtpExempt) /\ timeout' = timeout + 1
      BY <2>1, <2>4, <3>2 DEF Spared
    <3>4. timeout' > 0 => timeout' <= transferFor - FtpExempt + 1
      BY <1>0, <3>1, <3>3
    <3> QED
      BY <2>1, <2>4, <3>1, <3>2, <3>4 DEF TransferInv
  <2> QED
    BY <2>2, <2>3, <2>4
<1>5. CASE HangReset
  BY <1>5 DEF HangReset, RequestReset, Counting
<1>6. CASE /\ UNCHANGED <<worldVars, hangVars>> /\ resetting \subseteq resetting'
           /\ "server" \in ran' <=> "server" \in ran
           /\ "systic" \in ran' <=> "systic" \in ran
  <2>1. Counting /\ (InTransfer' <=> InTransfer) /\ (Exhausted' <=> Exhausted)
    BY <1>6 DEF Counting, Prompt, InTransfer, Exhausted, worldVars
  <2> QED
    BY <1>6, <2>1 DEF TransferInv, worldVars, hangVars
<1> QED
  BY <1>1, <1>2, <1>3, <1>4, <1>5, <1>6, CountedSteps

LEMMA OrderStep == OrderInv /\ [Next]_vars => OrderInv'
<1> SUFFICES ASSUME OrderInv, [Next]_vars PROVE OrderInv'
  OBVIOUS
<1>1. CASE RecoveryInit \/ CheckInTask \/ ServerLoop
  BY <1>1 DEF RecoveryInit, CheckInTask, ServerLoop, OrderInv, timerVars
<1>2. CASE FeedBooting \/ FeedWithheld \/ Feed
  BY <1>2 DEF FeedBooting, FeedWithheld, Feed, UpdateTick, FeedGated, OrderInv,
     timerVars
<1>3. CASE GpsFaultReset \/ ConnectionReset
  BY <1>3 DEF GpsFaultReset, ConnectionReset, UpdateTick, FeedGated, OrderInv,
     timerVars
<1>4. CASE CountSecond \/ HangReset
  BY <1>4 DEF CountSecond, HangReset, Event1s, OrderInv, timerVars
<1>5. CASE CommandReset \/ MainReset
  BY <1>5 DEF CommandReset, MainReset, OrderInv, timerVars
<1>6. CASE LowBattery \/ StopWatchdog \/ PowerDown
  BY <1>6 DEF LowBattery, StopWatchdog, PowerDown, OrderInv, timerVars
<1>7. CASE PowerOn \/ WatchdogFires \/ ResetDone
  BY <1>7 DEF PowerOn, WatchdogFires, ResetDone, Restart, OrderInv
<1>8. CASE Tick
  BY <1>8 DEF Tick, OrderInv, Older
<1>9. CASE UNCHANGED vars
  BY <1>9 DEF vars, OrderInv, timerVars
<1> QED
  BY <1>1, <1>2, <1>3, <1>4, <1>5, <1>6, <1>7, <1>8, <1>9 DEF Next

(* In a world without hangs the check of this second was made when it ends.  *)
LEMMA CheckedAtTick ==
    ASSUME TypeInv, PromptInv, OrderInv, Tick, Feeding PROVE "tick" \in ran
<1>1. Free("systic")
  BY DEF Feeding, PromptInv, Free
<1> QED
  BY <1>1 DEF Tick, Threads, OrderInv

LEMMA ConnStep ==
    TypeInv /\ PromptInv /\ OrderInv /\ ConnInv /\ [Next]_vars => ConnInv'
<1> SUFFICES ASSUME TypeInv, PromptInv, OrderInv, ConnInv, [Next]_vars, Feeding'
             PROVE  ConnInv'
  BY DEF ConnInv
<1>0. /\ serverOk \in Nat \cup {Unset} /\ downFor \in Nat
      /\ Prompt
      /\ ConnLimit \in Nat /\ GprsStall \in Nat /\ GprsStall > 0
  BY Limits, WorldStays DEF TypeInv, Ages, Numbers, Prompt, Feeding
<1>1. CASE Restart
  BY <1>1 DEF Restart, FeedGated, Feeding
<1>2. CASE Tick
  <2>1. /\ ran' = {} /\ wasSleeping' = wasSleeping
        /\ serverOk' = Older(serverOk, ConnLimit)
        /\ downFor' = IF Connected' THEN 0 ELSE Upto(downFor + 1, ConnLimit + 1)
        /\ Feeding
    BY <1>0, <1>2 DEF Tick, Connected, Feeding, FeedGated
  <2>2. CASE serverOk = Unset
    BY <2>1, <2>2 DEF ConnInv, Older
  <2>3. CASE serverOk # Unset
    <3> SUFFICES ASSUME ~ Connected', ~ wasSleeping'
                 PROVE  serverOk' <= downFor'
      BY <2>1 DEF ConnInv
    <3>2. "tick" \in ran
      BY <1>2, <2>1, CheckedAtTick
    <3>3. serverOk <= downFor
      BY <2>1, <2>3, <3>2 DEF ConnInv
    <3> QED
      BY <1>0, <2>1, <2>3, <3>3 DEF Older, Upto
  <2> QED
    BY <2>2, <2>3
<1>3. CASE RecoveryInit
  BY <1>3 DEF RecoveryInit, ConnInv, OrderInv, timerVars
<1>4. CASE CheckInTask
  BY <1>0, <1>4 DEF CheckInTask, ConnInv, timerVars, worldVars, Feeding,
     FeedGated, Connected
<1>5. CASE FeedBooting
  BY <1>0, <1>5 DEF FeedBooting, Feeding, FeedGated
<1>6. CASE FeedWithheld
  <2>1. GprsIsAlive
    BY <1>0 DEF GprsIsAlive, PromptInv, TypeInv, Numbers
  <2> QED
    BY <1>6, <2>1 DEF FeedWithheld, Feeding, FeedGated
<1>7. CASE Feed
  <2>1. /\ serverOk' = ServerSeen /\ wasSleeping' = around.sleeping
        /\ downFor' = downFor /\ Feeding
    BY <1>0, <1>7 DEF Feed, FeedGated, Feeding, worldVars
  <2>2. ~ around.sleeping /\ serverOk' # 0 => serverOk <= downFor
    BY <2>1 DEF ServerSeen, ConnInv, Connected
  <2>3. serverOk' # 0 => serverOk' = serverOk
    BY <2>1 DEF ServerSeen
  <2> QED
    BY <1>0, <2>1, <2>2, <2>3 DEF ConnInv
<1>8. CASE "systic" \in resetting'
  BY <1>8 DEF Feeding
<1>9. CASE /\ UNCHANGED <<worldVars, timerVars, inited, checkIn>>
           /\ resetting \subseteq resetting' /\ (FeedGated' => FeedGated)
           /\ "tick" \in ran' <=> "tick" \in ran
  BY <1>0, <1>9 DEF ConnInv, worldVars, timerVars, Feeding, Connected
<1> QED
  BY <1>1, <1>2, <1>3, <1>4, <1>5, <1>6, <1>7, <1>8, <1>9, TimedSteps

LEMMA FaultStep ==
    TypeInv /\ PromptInv /\ OrderInv /\ FaultInv /\ [Next]_vars => FaultInv'
<1> SUFFICES ASSUME TypeInv, PromptInv, OrderInv, FaultInv, [Next]_vars,
                    AlwaysChecked'
             PROVE  FaultInv'
  BY DEF FaultInv
<1>0. /\ gpsOk \in Nat \cup {Unset} /\ faultFor \in Nat /\ up \in Nat
      /\ GpsFaultLimit \in Nat /\ GprsStall \in Nat /\ GprsStall > 0
      /\ AlwaysChecked /\ Prompt
  BY Limits, WorldStays DEF TypeInv, Ages, Numbers, Prompt, AlwaysChecked
<1>1. CASE Restart
  BY <1>1 DEF Restart, FaultInv, FeedGated, Feeding, Calm, InTransfer
<1>2. CASE Tick
  <2>1. /\ ran' = {} /\ gpsOk' = Older(gpsOk, GpsFaultLimit)
        /\ faultFor' = IF around'.fault THEN Upto(faultFor + 1, GpsFaultLimit + 1)
                       ELSE 0
        /\ Feeding' => Feeding
    BY <1>0, <1>2 DEF Tick, Feeding, FeedGated
  <2>2. ~ around'.unchecked /\ ~ InTransfer'
    <3>1. around' \in Surroundings(world)
      BY <1>2 DEF Tick
    <3> QED
      BY <1>0, <3>1 DEF Surroundings, AlwaysChecked, InTransfer
  <2>3. up > GpsGrace => up' > GpsGrace
    BY <1>0, <1>2, Limits DEF Tick, Upto
  <2>4. CASE gpsOk = Unset
    BY <2>1, <2>2, <2>4 DEF FaultInv, Older
  <2>5. CASE gpsOk # Unset
    <3> SUFFICES ASSUME Feeding'
                 PROVE  up' > GpsGrace /\ (around'.fault => gpsOk' <= faultFor')
      BY <2>1, <2>2 DEF FaultInv
    <3>2. "tick" \in ran
      BY <1>2, <2>1, CheckedAtTick
    <3>3. gpsOk <= faultFor /\ up > GpsGrace
      BY <1>0, <2>1, <2>5, <3>2 DEF FaultInv
    <3> QED
      BY <1>0, <2>1, <2>3, <2>5, <3>3 DEF Older, Upto
  <2> QED
    BY <2>4, <2>5
<1>3. CASE RecoveryInit
  BY <1>0, <1>3 DEF RecoveryInit, FaultInv, OrderInv, timerVars, worldVars,
     InTransfer
<1>4. CASE CheckInTask
  BY <1>0, <1>4 DEF CheckInTask, FaultInv, timerVars, worldVars, Feeding,
     FeedGated, InTransfer
<1>5. CASE FeedBooting
  BY <1>0, <1>5 DEF FeedBooting, FaultInv, timerVars, worldVars, InTransfer,
     Feeding, FeedGated
<1>6. CASE FeedWithheld
  <2>1. GprsIsAlive
    BY <1>0 DEF GprsIsAlive, PromptInv, TypeInv, Numbers
  <2> QED
    BY <1>0, <1>6, <2>1 DEF FeedWithheld, FaultInv, worldVars, InTransfer,
       Feeding, FeedGated
<1>7. CASE Feed
  <2>1. /\ gpsOk' = GpsSeen
        /\ UNCHANGED <<faultFor, up, around>> /\ (InTransfer' <=> InTransfer)
        /\ Feeding' => Feeding
    BY <1>0, <1>7 DEF Feed, FeedGated, Feeding, worldVars, InTransfer
  <2>2. GpsChecked <=> up > GpsGrace
    BY <1>0 DEF FaultInv, GpsChecked, InTransfer
  <2>3. Feeding /\ gpsOk' # 0 =>
            gpsOk' = gpsOk /\ (gpsOk = Unset \/ gpsOk <= faultFor)
    BY <1>0, <2>1, <2>2 DEF FaultInv, GpsSeen
  <2>4. Feeding /\ gpsOk' # Unset => up > GpsGrace
    BY <1>0, <2>1, <2>2 DEF FaultInv, GpsSeen
  <2> QED
    BY <1>0, <2>1, <2>3, <2>4 DEF FaultInv
<1>8. CASE "systic" \in resetting' /\ UNCHANGED worldVars
  BY <1>0, <1>8 DEF FaultInv, Feeding, worldVars, InTransfer
<1>9. CASE /\ UNCHANGED <<worldVars, timerVars, inited, checkIn>>
           /\ resetting \subseteq resetting' /\ (FeedGated' => FeedGated)
           /\ "tick" \in ran' <=> "tick" \in ran
  BY <1>0, <1>9 DEF FaultInv, worldVars, timerVars, Feeding, InTransfer
<1> QED
  BY <1>1, <1>2, <1>3, <1>4, <1>5, <1>6, <1>7, <1>8, <1>9, TimedSteps

DueInv == /\ TypeInv /\ CountInv /\ PromptInv /\ TransferInv /\ OrderInv
          /\ ConnInv /\ FaultInv

LEMMA DueInit == Init => DueInv
<1> SUFFICES ASSUME Init PROVE DueInv
  OBVIOUS
<1>1. CountInv
  BY DEF Init, CountInv, Threads
<1>2. PromptInv /\ TransferInv
  BY DEF Init, PromptInv, TransferInv, InTransfer, Calm
<1>3. OrderInv /\ ConnInv /\ FaultInv
  BY DEF Init, OrderInv, ConnInv, FaultInv, Feeding, FeedGated, InTransfer, Calm
<1> QED
  BY <1>1, <1>2, <1>3, TypeInit DEF DueInv

LEMMA DueStep == DueInv /\ [Next]_vars => DueInv'
BY TypeStep, CountStep, PromptStep, TransferStep, OrderStep, ConnStep, FaultStep
DEF DueInv

(* The device is not reset for nothing: by the count of seconds only when    *)
(* the server thread stayed away, and a transfer gets its exemption first;   *)
(* for the connection only after ConnLimit awake without one; for the GPS    *)
(* only after GpsFaultLimit of faults.                                       *)
THEOREM ResetsAreDue == Spec => ResetIsDue
<1>1. DueInv /\ [Next]_vars =>
          [/\ HangReset => quiet["server"] + 1 >= HangSecs
           /\ "hang" \notin world =>
                 /\ HangReset /\ InTransfer => transferFor >= FtpExempt + HangSecs
                 /\ ConnectionReset => downFor > ConnLimit
           /\ {"hang", "gpsoff", "transfer"} \cap world = {} =>
                 (GpsFaultReset => faultFor > GpsFaultLimit)]_vars
  <2> SUFFICES ASSUME DueInv
               PROVE  /\ HangReset => quiet["server"] + 1 >= HangSecs
                      /\ Prompt =>
                            /\ HangReset /\ InTransfer =>
                                  transferFor >= FtpExempt + HangSecs
                            /\ ConnectionReset => downFor > ConnLimit
                      /\ AlwaysChecked =>
                            (GpsFaultReset => faultFor > GpsFaultLimit)
    BY DEF Prompt, AlwaysChecked
  <2>0. /\ TypeInv /\ quiet["server"] \in Nat /\ timeout \in Nat
        /\ exempt \in 0 .. ExemptWidth - 1
        /\ transferFor \in Nat /\ downFor \in Nat /\ faultFor \in Nat
        /\ serverOk \in Nat \cup {Unset} /\ gpsOk \in Nat \cup {Unset}
        /\ HangSecs \in Nat /\ FtpExempt \in Nat /\ ExemptWidth \in Nat
        /\ FtpExempt > 1 /\ HangSecs > 0 /\ FtpExempt + HangSecs < ExemptWidth
        /\ ConnLimit \in Nat /\ GpsFaultLimit \in Nat
    BY Limits, RecoveryAssumption
    DEF DueInv, TypeInv, Numbers, Ages, Quiet, Threads
  <2>1. ASSUME HangReset PROVE quiet["server"] + 1 >= HangSecs
    BY <2>0, <2>1 DEF HangReset, Event1s, DueInv, CountInv
  <2>2. ASSUME Prompt, HangReset, InTransfer PROVE Exhausted
    <3> SUFFICES ASSUME ~ Exhausted PROVE FALSE
      OBVIOUS
    <3>1. /\ transferFor > 0 /\ exempt = transferFor - 1
          /\ transferFor > 1 /\ timeout > 0 =>
                timeout <= transferFor - FtpExempt
      BY <2>2 DEF HangReset, Event1s, Free, DueInv, TransferInv, Counting
    <3>2. ExemptSecs = transferFor
      BY <2>0, <2>2, <3>1, Exempted DEF Exhausted
    <3>3. ~ (transferFor < FtpExempt) /\ timeout >= HangSecs
      BY <2>2, <3>2 DEF HangReset, Spared
    <3> QED
      BY <2>0, <3>1, <3>3 DEF Exhausted
  <2>3. ASSUME Prompt, ConnectionReset PROVE downFor > ConnLimit
    <3>1. Feeding /\ "tick" \notin ran /\ ~ around.sleeping /\ ServerSeen > ConnLimit
      BY <2>3 DEF ConnectionReset, UpdateTick, Free, Feeding, ServerLost
    <3>2. ~ (wasSleeping \/ serverOk = Unset \/ Connected) /\ serverOk > ConnLimit
      BY <2>0, <3>1 DEF ServerSeen, Connected
    <3> QED
      BY <2>0, <3>1, <3>2 DEF DueInv, ConnInv
  <2>4. ASSUME AlwaysChecked, GpsFaultReset PROVE faultFor > GpsFaultLimit
    <3>1. Feeding /\ around.fault /\ gpsOk > GpsFaultLimit
      BY <2>4 DEF GpsFaultReset, UpdateTick, Free, Feeding, GpsLost,
         AlwaysChecked, Prompt
    <3>2. gpsOk # Unset
      BY <2>0, <3>1 DEF Unset
    <3> QED
      BY <2>0, <2>4, <3>1, <3>2 DEF DueInv, FaultInv
  <2> QED
    BY <2>1, <2>2, <2>3, <2>4 DEF Exhausted
<1> QED
  BY <1>1, DueInit, DueStep, PTL DEF Spec, ResetIsDue

=============================================================================
