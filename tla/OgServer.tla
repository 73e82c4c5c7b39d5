------------------------------ MODULE OgServer ------------------------------
(***************************************************************************)
(* The emergency button and the replies to commands of the OG build.  The   *)
(* hardware thread polls the button (ProcessSOS in custom/SOS.c), the       *)
(* system-tick thread lets an emergency run out (UpdateTick in              *)
(* custom/Systic.c), and the server thread goes round its loop              *)
(* (custom/Server.c): it takes commands, sends the pending reply to the     *)
(* last command, alert packets, emergency and position packets.  A command  *)
(* may order a reset, which waits for its reply (custom/SMS.c).  What the   *)
(* threads share is the SOS record, the alert flags and                     *)
(* IsPacketReady.IsNormalPacket; there is no lock.                          *)
(***************************************************************************)
EXTENDS Naturals, FiniteSets

CONSTANTS
    PushMin,     \* PUSH_MIN_DELAY: polls that make a press
    TamperCount, \* SOS_TAMPER_COUNT: more polls than this are a cut wire
    PushCap,     \* where SOSPushCount stops counting
    SosTimeOut,  \* SOS.SOSTimeOut
    AckWait,     \* OTA_ACK_WAIT_TICKS
    MaxMoves,    \* how often the button is pressed or let go
    MaxCommands, \* how many commands come
    MaxDrops,    \* how often a connection is lost
    OgWorlds     \* the conditions under which the device may run

OgEvents == { "button",    \* the button is used
              "notamper",  \* DisableSOSTamper is set
              "disable",   \* SOSDISABLE commands come
              "clear",     \* SOSCLR and TESTRIG commands come
              "amd3",      \* AMD3 frames come from the servers
              "vreset",    \* VRESET comes by SMS, Bluetooth, RS232 or RS485, and
                           \* from the third server if there is one
              "busy",      \* a command comes before the last one is answered
              "emergency", \* IP2 names an emergency server
              "second",    \* IP3 names a second server
              "third",     \* IP4 names a third server
              "offline",   \* server 1 cannot be reached
              "drops",     \* connections are lost
              "fails",     \* a connected socket may refuse to send
              "preempt" }  \* two threads are at the SOS record at once

ASSUME OgAssumption ==
    /\ PushMin \in Nat \ {0} /\ SosTimeOut \in Nat \ {0}
    /\ TamperCount \in Nat /\ PushMin <= TamperCount
    /\ PushCap \in Nat /\ TamperCount < PushCap
    /\ AckWait \in Nat /\ MaxMoves \in Nat /\ MaxCommands \in Nat
    /\ MaxDrops \in Nat
    /\ OgWorlds \subseteq SUBSET OgEvents

VARIABLES
    ogWorld,   \* the conditions of this run; nothing changes them
    pin,       \* the button: "idle", "active"
    sos,       \* the SOS record
    disabled,  \* VTSData.DisableSOS, kept in flash
    alerts,    \* the alerts whose VAlert[].Enable is set
    emrSent,   \* IsEMRSend and IsEMRTSend, as the alerts marked as sent
    normal,    \* IsPacketReady.IsNormalPacket
    timeSet,   \* GSM.IsTimeSet
    up,        \* the sockets in SOCKET_CONNECTED
    where,     \* where the server, hardware and system-tick threads are
    ota,       \* LastOTAResponse: Pending, Channel, Source
    ackWait,   \* otaAckWait
    reinit,    \* AIS140SocketReinitPending
    reset,     \* AIS140ResetPending
    heard,     \* whether anyone has been told of the emergency there is
    word,      \* the last alert packet server 1 has received, and the last
               \* packet of the emergency its own server has
    due,       \* the commands answered to nobody yet, by their source
    orderer,   \* the source of the reset that is ordered
    moves, commands, drops \* how many of each there have been

countVars == <<moves, commands, drops>>
sosVars == <<sos, alerts, heard>>
otaVars == <<ota, ackWait, reinit, reset, due, orderer>>
linkVars == <<timeSet, up, drops>>
ogVars == <<ogWorld, pin, sos, disabled, alerts, emrSent, normal, timeSet, up,
            where, ota, ackWait, reinit, reset, heard, word, due, orderer, countVars>>

NoSos == [on |-> FALSE, tamper |-> FALSE, push |-> 0, release |-> FALSE,
          lapsed |-> 0, tamperLapsed |-> 0, sms |-> FALSE]

NoWord == [alert |-> "none", emergency |-> "off"]

NoReply == [pending |-> FALSE, channel |-> "sms", source |-> "sms"]

AtTop == [server |-> "commands", hardware |-> "idle", systic |-> "idle"]

OgInit ==
    /\ ogWorld \in OgWorlds
    /\ pin = "idle" /\ disabled = FALSE
    /\ sos = NoSos /\ alerts = {} /\ emrSent = {} /\ normal = FALSE
    /\ timeSet = FALSE /\ up = {} /\ where = AtTop
    /\ ota = NoReply /\ ackWait = 0 /\ reinit = FALSE /\ reset = FALSE
    /\ heard = TRUE /\ word = NoWord /\ due = {} /\ orderer = "none"
    /\ moves = 0 /\ commands = 0 /\ drops = 0

-----------------------------------------------------------------------------
(* The button and the connections.                                           *)

MovePin ==
    /\ "button" \in ogWorld /\ moves < MaxMoves
    /\ pin' = IF pin = "idle" THEN "active" ELSE "idle"
    /\ moves' = moves + 1
    /\ UNCHANGED <<ogWorld, sosVars, disabled, emrSent, normal, linkVars, where,
                   otaVars, word, commands>>

Configured == {0} \cup (IF "emergency" \in ogWorld THEN {1} ELSE {})
                  \cup (IF "second" \in ogWorld THEN {2} ELSE {})
                  \cup (IF "third" \in ogWorld THEN {3} ELSE {})

Reached == IF "offline" \in ogWorld THEN Configured \ {0} ELSE Configured

Connect(s) ==
    /\ s \in Reached \ up
    /\ up' = up \cup {s}
    /\ UNCHANGED <<ogWorld, pin, sosVars, disabled, emrSent, normal, timeSet, where,
                   otaVars, word, countVars>>

Disconnect(s) ==
    /\ "drops" \in ogWorld /\ drops < MaxDrops
    /\ s \in up
    /\ up' = up \ {s}
    /\ drops' = drops + 1
    /\ UNCHANGED <<ogWorld, pin, sosVars, disabled, emrSent, normal, timeSet, where,
                   otaVars, word, moves, commands>>

TimeComes ==
    /\ ~ timeSet
    /\ timeSet' = TRUE
    /\ UNCHANGED <<ogWorld, pin, sosVars, disabled, emrSent, normal, up, where,
                   otaVars, word, countVars>>

(* TCPSocket_SendString on these sockets: the ones that take the packet.     *)
Taking(socks) == IF "fails" \in ogWorld THEN SUBSET (socks \cap up)
                 ELSE {socks \cap up}

-----------------------------------------------------------------------------
(* ProcessSOS.                                                               *)

\* The threads come to the SOS record one at a time.
Alone == \/ "preempt" \in ogWorld
         \/ where.hardware = "idle" /\ where.systic = "idle"

SosOff(a) == (a \cup {"off"}) \ {"on"}

PollDisabled ==
    /\ disabled /\ Alone /\ where.hardware = "idle"
    /\ IF sos.on \/ sos.tamper
       THEN /\ sos' = [sos EXCEPT !.on = FALSE, !.tamper = FALSE, !.push = 0]
            /\ alerts' = SosOff(alerts) \ {"tmp"}
       ELSE sos' = [sos EXCEPT !.push = 0] /\ UNCHANGED alerts
    /\ UNCHANGED <<ogWorld, pin, disabled, emrSent, normal, linkVars, where, otaVars,
                   heard, word, moves, commands>>

PollActive ==
    LET push == IF sos.push < PushCap THEN sos.push + 1 ELSE sos.push
        cut  == "notamper" \notin ogWorld /\ push > TamperCount /\ ~ sos.tamper
    IN /\ ~ disabled /\ Alone /\ where.hardware = "idle"
       /\ pin = "active"
       /\ sos' = IF cut
                 THEN [sos EXCEPT !.push = 0, !.tamper = TRUE, !.release = TRUE]
                 ELSE [sos EXCEPT !.push = push]
       /\ alerts' = IF cut THEN alerts \cup {"tmp"} ELSE alerts
       /\ UNCHANGED <<ogWorld, pin, disabled, emrSent, normal, linkVars, where, otaVars,
                      heard, word, moves, commands>>

\* The rest of the poll of an idle button: armed anew, and a cut wire is whole.
Released(r) == [r EXCEPT !.push = 0, !.release = FALSE, !.tamper = FALSE]
Restored(a) == IF sos.tamper THEN a \ {"tmp"} ELSE a

IsPress == /\ ~ sos.release /\ ~ sos.tamper
           /\ sos.push >= PushMin /\ ~ sos.on

PollIdle ==
    /\ ~ disabled /\ Alone /\ where.hardware = "idle"
    /\ pin = "idle"
    /\ ~ IsPress
    /\ sos' = Released(sos)
    /\ alerts' = Restored(alerts)
    /\ UNCHANGED <<ogWorld, pin, disabled, emrSent, normal, linkVars, where, otaVars,
                   heard, word, moves, commands>>

(* A press: IsSOS and IsNormalPacket are set ...                             *)
Press ==
    /\ ~ disabled /\ Alone /\ where.hardware = "idle"
    /\ pin = "idle"
    /\ IsPress
    /\ sos' = [sos EXCEPT !.on = TRUE, !.sms = FALSE]
    /\ normal' = TRUE
    /\ heard' = FALSE
    /\ where' = [where EXCEPT !.hardware = "raise"]
    /\ UNCHANGED <<ogWorld, pin, disabled, alerts, emrSent, linkVars, otaVars, word,
                   moves, commands>>

(* ... and then the time and the alert.                                      *)
Raise ==
    /\ where.hardware = "raise"
    /\ sos' = [Released(sos) EXCEPT !.lapsed = 0]
    /\ alerts' = Restored(alerts \cup {"on"})
    /\ where' = [where EXCEPT !.hardware = "idle"]
    /\ UNCHANGED <<ogWorld, pin, disabled, emrSent, normal, linkVars, otaVars, heard,
                   word, moves, commands>>

-----------------------------------------------------------------------------
(* UpdateTick, of which the position interval comes on its own.              *)

NormalDue ==
    /\ ~ normal
    /\ normal' = TRUE
    /\ UNCHANGED <<ogWorld, pin, sosVars, disabled, emrSent, linkVars, where, otaVars,
                   word, moves, commands>>

\* Where the time since a wire was cut leads.
TamperTimed(r) ==
    IF ~ r.tamper THEN r
    ELSE IF "notamper" \in ogWorld
    THEN [r EXCEPT !.tamper = FALSE, !.tamperLapsed = 0]
    ELSE IF r.tamperLapsed + 1 < SosTimeOut
    THEN [r EXCEPT !.tamperLapsed = r.tamperLapsed + 1]
    ELSE [r EXCEPT !.tamper = FALSE, !.tamperLapsed = 0, !.push = 0,
                   !.release = TRUE]

TamperAlerts(r, a) == IF r.tamper /\ ~ TamperTimed(r).tamper
                      THEN a \ {"tmp"} ELSE a

Tick ==
    LET r == IF sos.on THEN [sos EXCEPT !.lapsed = sos.lapsed + 1] ELSE sos
    IN /\ Alone /\ where.systic = "idle"
       /\ sos.on \/ sos.tamper
       /\ sos.on => sos.lapsed + 1 < SosTimeOut
       /\ sos' = TamperTimed(r)
       /\ alerts' = TamperAlerts(r, alerts)
       /\ UNCHANGED <<ogWorld, pin, disabled, emrSent, normal, linkVars, where, otaVars,
                      heard, word, moves, commands>>

(* The emergency has lasted SOSTimeOut: IsSOS is cleared ...                 *)
Expire ==
    /\ Alone /\ where.systic = "idle"
    /\ sos.on /\ sos.lapsed + 1 >= SosTimeOut
    /\ sos' = [sos EXCEPT !.on = FALSE, !.lapsed = 0]
    /\ where' = [where EXCEPT !.systic = "expire"]
    /\ UNCHANGED <<ogWorld, pin, disabled, alerts, emrSent, normal, linkVars, otaVars,
                   heard, word, moves, commands>>

\* Mutant of ExpireAlerts: the alert that is over is left.
ExpireAlertsKeepsOn(a) == a \cup {"off"}

ExpireAlerts(a) == SosOff(a)

(* ... and then the alerts.                                                  *)
Expired ==
    /\ where.systic = "expire"
    /\ sos' = TamperTimed(sos)
    /\ alerts' = TamperAlerts(sos, ExpireAlerts(alerts))
    /\ where' = [where EXCEPT !.systic = "idle"]
    /\ UNCHANGED <<ogWorld, pin, disabled, emrSent, normal, linkVars, otaVars, heard,
                   word, moves, commands>>

-----------------------------------------------------------------------------
(* The server thread goes round: a command (what came by SMS and on the wires *)
(* comes after what came on the sockets), reply, alerts, position packet.     *)

At(p) == where.server = p
Goto(p) == where' = [where EXCEPT !.server = p]

\* A command comes; unless it may, not before the last one is answered.
Commanded == /\ commands < MaxCommands
             /\ "busy" \in ogWorld \/ due = {}
             /\ commands' = commands + 1

NoCommand ==
    /\ At("commands") /\ Goto("reply")
    /\ UNCHANGED <<ogWorld, pin, sosVars, disabled, emrSent, normal, linkVars, otaVars,
                   word, countVars>>

SocketOf(source) == CASE source = "sck2" -> 2
                      [] source = "sck3" -> 3
                      [] OTHER -> 0

(* QueueVResetResponse, the only command that sets the reply's Channel.  It  *)
(* is called for what DecodeSMS is given: SMS and the wires ("sms") and, of  *)
(* the sockets, the third server's (the others' goes to DecodeOTAData).      *)
VReset(src) ==
    /\ At("commands") /\ Goto("reply") /\ "vreset" \in ogWorld /\ Commanded
    /\ src = "sck3" => 3 \in Reached
    /\ ota' = [pending |-> TRUE, channel |-> src, source |-> src]
    /\ reset' = TRUE
    /\ due' = due \cup {src} /\ orderer' = src
    /\ UNCHANGED <<ogWorld, pin, sosVars, disabled, emrSent, normal, linkVars, ackWait,
                   reinit, word, moves>>

(* ResetSOS, for SOSCLR, CLR SOS, EPSTOP and the AMD3 command 20.            *)
ResetSOS ==
    IF sos.on
    THEN /\ sos' = [sos EXCEPT !.on = FALSE, !.lapsed = 0, !.push = 0,
                               !.release = TRUE]
         /\ alerts' = SosOff(alerts)
    ELSE UNCHANGED <<sos, alerts>>

SosClear ==
    /\ At("commands") /\ Goto("reply") /\ "clear" \in ogWorld /\ Alone /\ Commanded
    /\ ResetSOS
    /\ UNCHANGED <<ogWorld, pin, disabled, emrSent, normal, linkVars, otaVars, heard,
                   word, moves>>

(* TESTRIG 0 raises an emergency; TESTRIG 1 only raises the alert number 1,  *)
(* SOS_OFF_ALERT: the branch that would end the emergency is not reached.    *)
TestOn ==
    /\ At("commands") /\ Goto("reply") /\ "clear" \in ogWorld /\ Alone /\ Commanded
    /\ sos' = [sos EXCEPT !.on = TRUE, !.lapsed = 0]
    /\ alerts' = alerts \cup {"on"}
    /\ heard' = (sos.on /\ heard)
    /\ UNCHANGED <<ogWorld, pin, disabled, emrSent, normal, linkVars, otaVars, word,
                   moves>>

TestOff ==
    /\ At("commands") /\ Goto("reply") /\ "clear" \in ogWorld /\ Alone /\ Commanded
    /\ alerts' = alerts \cup {"off"}
    /\ UNCHANGED <<ogWorld, pin, sos, heard, disabled, emrSent, normal, linkVars,
                   otaVars, word, moves>>

SosDisable ==
    /\ At("commands") /\ Goto("reply") /\ "disable" \in ogWorld /\ Commanded
    /\ disabled' \in BOOLEAN
    /\ UNCHANGED <<ogWorld, pin, sosVars, emrSent, normal, linkVars, otaVars, word,
                   moves>>

(* ParseStandardAIS140Command for a frame that arrived on a socket, of which *)
(* a value is asked, an endpoint or the APN set, the emergency cleared, or   *)
(* the device to be restarted.  It sets the reply's Source and not its       *)
(* Channel.                                                                  *)
Frames == {"query", "endpoint", "restart", "clear"}

Amd3(src, frame) ==
    /\ At("commands") /\ Goto("reply") /\ "amd3" \in ogWorld /\ Commanded
    /\ SocketOf(src) \in Reached
    /\ ota' = [ota EXCEPT !.pending = TRUE, !.source = src]
    /\ reinit' = (reinit \/ frame = "endpoint")
    /\ reset' = (reset \/ frame = "restart")
    /\ orderer' = IF frame = "restart" THEN src ELSE orderer
    /\ due' = due \cup {src}
    /\ IF frame = "clear" THEN Alone /\ ResetSOS ELSE UNCHANGED <<sos, alerts>>
    /\ UNCHANGED <<ogWorld, pin, disabled, emrSent, normal, linkVars, ackWait, heard,
                   word, moves>>

-----------------------------------------------------------------------------
(* The reply, in handlePackets.                                              *)

replyFrame == <<ogWorld, pin, sosVars, disabled, emrSent, normal, timeSet, orderer,
                word, countVars>>

\* The reply has left: the sockets are set up anew, or the device restarts.
Left ==
    /\ ota' = [ota EXCEPT !.pending = FALSE]
    /\ due' = due \ {ota.source}
    /\ ackWait' = 0
    /\ reinit' = FALSE /\ up' = IF reinit THEN {} ELSE up
    /\ reset' = FALSE /\ Goto(IF reset THEN "resetting" ELSE "alerts")

\* Mutant of SendReply: the reset does not wait for the reply.
SendReplyLater(took) ==
    IF took THEN Left
    ELSE /\ reset' = FALSE /\ Goto(IF reset THEN "resetting" ELSE "alerts")
         /\ UNCHANGED <<ota, due, ackWait, reinit, up>>

SendReply(took) ==
    IF took THEN Left
    ELSE /\ Goto("alerts")
         /\ UNCHANGED <<ota, due, ackWait, reinit, reset, up>>

ReplySent ==
    LET s == SocketOf(ota.channel)
    IN /\ At("reply") /\ ota.pending /\ s \in up
       /\ {s} \in Taking({s}) /\ SendReply(TRUE)
       /\ UNCHANGED replyFrame

ReplyRefused ==
    LET s == SocketOf(ota.channel)
    IN /\ At("reply") /\ ota.pending /\ s \in up
       /\ {} \in Taking({s}) /\ SendReply(FALSE)
       /\ UNCHANGED replyFrame

\* Mutant of Waited: waiting is not counted.
WaitedNever(n) == n

Waited(n) == n + 1

ReplyWaits ==
    /\ At("reply") /\ ota.pending /\ SocketOf(ota.channel) \notin up
    /\ ackWait < AckWait
    /\ ackWait' = Waited(ackWait)
    /\ Goto("alerts")
    /\ UNCHANGED <<replyFrame, ota, due, reinit, reset, up>>

(* The wait is over: to server 1 (and 3) if it can be, else to the history.  *)
ReplyStored ==
    /\ At("reply") /\ ota.pending /\ SocketOf(ota.channel) \notin up
    /\ ackWait >= AckWait
    /\ Left
    /\ UNCHANGED replyFrame

NoReplyDue ==
    /\ At("reply") /\ ~ ota.pending
    /\ ackWait' = 0
    /\ reset' = FALSE /\ Goto(IF reset THEN "resetting" ELSE "alerts")
    /\ UNCHANGED <<replyFrame, ota, due, reinit, up>>

(* SystemRecovery_RequestReset, and the device starts anew.                  *)
Restart ==
    /\ At("resetting")
    /\ sos' = NoSos /\ alerts' = {} /\ emrSent' = {} /\ normal' = FALSE
    /\ timeSet' = FALSE /\ up' = {} /\ where' = AtTop
    /\ ota' = NoReply /\ ackWait' = 0 /\ reinit' = FALSE /\ reset' = FALSE
    /\ heard' = TRUE /\ word' = NoWord /\ due' = {} /\ orderer' = "none"
    /\ UNCHANGED <<ogWorld, pin, disabled, countVars>>

-----------------------------------------------------------------------------
(* CheckAlerts, as far as it is about the button.  What a socket answers is  *)
(* not looked at: an alert is marked as sent.                                *)

alertFrame == <<ogWorld, pin, disabled, normal, linkVars, otaVars, moves, commands>>

AlertServers == {0, 2}
AlertTakers == {0, 2, 3}
OnDue  == "on" \in alerts /\ "on" \notin emrSent
OffDue == ~ OnDue /\ "off" \in alerts

AlertOn ==
    /\ At("alerts") /\ Goto("normal")
    /\ up \cap AlertServers # {}
    /\ OnDue
    /\ emrSent' = emrSent \cup {"on"}
    /\ \E took \in Taking(AlertTakers) :
          /\ word' = IF 0 \in took THEN [word EXCEPT !.alert = "on"] ELSE word
          /\ heard' = (heard \/ took # {})
    /\ UNCHANGED <<alertFrame, sos, alerts>>

\* Mutant of OffSent: the next emergency counts as reported.
OffSentKeepsOn(marks) == marks

OffSent(marks) == marks \ {"on"}

EmergencyServer == IF 1 \in Configured THEN 1 ELSE 0

\* EmergencyPacket(0) to the emergency server if it is connected, else to server 1
\* (and 2 and 3), and the packet of the alert.
AlertOff ==
    /\ At("alerts") /\ Goto("normal")
    /\ up \cap AlertServers # {}
    /\ OffDue
    /\ alerts' = alerts \ {"off"}
    /\ emrSent' = OffSent(emrSent)
    /\ \E ended, took \in Taking({EmergencyServer} \cup AlertTakers) :
          word' = [alert |-> IF 0 \in took THEN "off" ELSE word.alert,
                   emergency |-> IF EmergencyServer \in ended THEN "off"
                                 ELSE word.emergency]
    /\ UNCHANGED <<alertFrame, sos, heard>>

AlertTamper ==
    /\ At("alerts") /\ Goto("normal")
    /\ up \cap AlertServers # {}
    /\ ~ OnDue /\ ~ OffDue
    /\ alerts' = IF "notamper" \in ogWorld THEN alerts \ {"tmp"} ELSE alerts
    /\ emrSent' = IF "tmp" \notin alerts THEN emrSent \ {"tmp"}
               ELSE IF "notamper" \in ogWorld THEN emrSent ELSE emrSent \cup {"tmp"}
    /\ UNCHANGED <<alertFrame, sos, heard, word>>

NoAlerts ==
    /\ At("alerts") /\ Goto("normal")
    /\ up \cap AlertServers = {}
    /\ UNCHANGED <<alertFrame, sosVars, emrSent, word>>

-----------------------------------------------------------------------------
(* handleNormalPackets.  (The position packet itself is not followed.)       *)

normalFrame == <<ogWorld, pin, disabled, alerts, emrSent, linkVars, otaVars,
                 moves, commands>>

\* Mutant of Reachable: nothing is done without server 1.
ReachableByPvt == 0 \in up

Reachable == TRUE

(* The emergency packet goes to its server, else to server 1, else into the  *)
(* history; and if it was not sent, by SMS, unless one was accepted before.  *)
SendEmergency ==
    \E took \in Taking({EmergencyServer, 0}), texted \in BOOLEAN :
       LET told == timeSet /\ took # {}
       IN /\ sos' = IF told \/ sos.sms THEN sos ELSE [sos EXCEPT !.sms = texted]
          /\ heard' = (heard \/ timeSet \/ (~ sos.sms /\ texted))
          /\ word' = IF timeSet /\ EmergencyServer \in took
                     THEN [word EXCEPT !.emergency = "on"] ELSE word

NormalPacket ==
    /\ At("normal") /\ Goto("commands")
    /\ normal
    /\ normal' = FALSE
    /\ IF sos.on /\ Reachable THEN SendEmergency ELSE UNCHANGED <<sos, heard, word>>
    /\ UNCHANGED normalFrame

NoNormalPacket ==
    /\ At("normal") /\ Goto("commands")
    /\ ~ normal
    /\ UNCHANGED <<normalFrame, normal, sos, heard, word>>

-----------------------------------------------------------------------------

Poll == PollDisabled \/ PollActive \/ PollIdle \/ Press \/ Raise

Systic == NormalDue \/ Tick \/ Expire \/ Expired

Commands == \/ \E src \in {"sms", "sck3"} : VReset(src)
            \/ SosClear \/ TestOn \/ TestOff \/ SosDisable
            \/ \E src \in {"sck1", "sck2"}, frame \in Frames : Amd3(src, frame)

Serve == \/ NoCommand
         \/ ReplySent \/ ReplyRefused \/ ReplyWaits \/ ReplyStored \/ NoReplyDue
         \/ AlertOn \/ AlertOff \/ AlertTamper \/ NoAlerts
         \/ NormalPacket \/ NoNormalPacket
         \/ Restart

OgNext == \/ MovePin \/ TimeComes
        \/ \E s \in Reached : Connect(s) \/ Disconnect(s)
        \/ Poll \/ Systic \/ Commands \/ Serve

OgSpec == OgInit /\ [][OgNext]_ogVars

(* The server thread goes round, a thread that has begun to change the SOS   *)
(* record goes on, position packets fall due, the network gives the time,    *)
(* and sockets are connected again; a socket that is asked again and again   *)
(* takes the reply.  No time has to pass: the button need not be polled and  *)
(* an emergency need not run out.                                            *)
OgFairness ==
    /\ WF_ogVars(Serve)
    /\ WF_ogVars(Raise) /\ WF_ogVars(Expired)
    /\ WF_ogVars(NormalDue) /\ WF_ogVars(TimeComes)
    /\ \A s \in 0 .. 3 : WF_ogVars(Connect(s))
    /\ SF_ogVars(ReplySent)

OgFairSpec == OgSpec /\ OgFairness

-----------------------------------------------------------------------------
SosRecord == [on : BOOLEAN, tamper : BOOLEAN, push : 0 .. PushCap,
              release : BOOLEAN, lapsed : 0 .. SosTimeOut - 1,
              tamperLapsed : 0 .. SosTimeOut - 1, sms : BOOLEAN]

Places == [server : {"commands", "reply", "resetting", "alerts", "normal"},
           hardware : {"idle", "raise"}, systic : {"idle", "expire"}]

Sources == {"sms", "sck1", "sck2", "sck3"}

Response == [pending : BOOLEAN, channel : Sources, source : Sources]

Words == [alert : {"none", "on", "off"}, emergency : {"on", "off"}]

OgTypeOK ==
    /\ ogWorld \in OgWorlds
    /\ pin \in {"idle", "active"}
    /\ sos \in SosRecord
    /\ alerts \subseteq {"on", "off", "tmp"} /\ emrSent \subseteq {"on", "tmp"}
    /\ disabled \in BOOLEAN /\ normal \in BOOLEAN /\ timeSet \in BOOLEAN
    /\ reinit \in BOOLEAN /\ reset \in BOOLEAN /\ heard \in BOOLEAN
    /\ up \subseteq Configured
    /\ where \in Places /\ ota \in Response
    /\ ackWait \in 0 .. AckWait
    /\ word \in Words
    /\ due \subseteq Sources
    /\ orderer \in {"none"} \cup Sources
    /\ moves \in 0 .. MaxMoves /\ commands \in 0 .. MaxCommands
    /\ drops \in 0 .. MaxDrops

(* There is an emergency (IsSOS, which the emergency packets follow) if and  *)
(* only if its alert is enabled (which the reporting interval and the alert  *)
(* packets follow): button, timeout and commands of three threads leave the  *)
(* two in step, unless two of them are at it at once.                        *)
AlertMatchesSos ==
    "preempt" \notin ogWorld /\ where.hardware = "idle" /\ where.systic = "idle"
        => (sos.on <=> "on" \in alerts)

(* An emergency that lasts reaches somebody: as an alert or emergency packet *)
(* a socket takes, in the history, or as an SMS, whichever servers are       *)
(* connected.                                                                *)
SosIsHeard == sos.on /\ ~ heard ~> heard \/ ~ sos.on

(* Server 1 is not left believing in an emergency that is over, nor in the   *)
(* end of one that lasts: once the button rests and server 1 stays           *)
(* connected, its last alert packet tells the state; and the server of the   *)
(* emergency packets, if its connection is never lost, has been told of the  *)
(* end.  (Not so if a socket refuses a packet, which nobody notices, nor if  *)
(* a second server is connected while server 1 is not, which gets the packet *)
(* alone.)                                                                   *)
LastWordIsTrue ==
    (ogWorld \cap {"fails", "second", "preempt"} = {} /\ <>[](0 \in up))
        => <>[](/\ word.alert = "on" <=> sos.on
                /\ word.emergency = "on" /\ drops = 0 /\ "amd3" \notin ogWorld
                       => sos.on)

(* A reset ordered by a command waits until the reply to this command has    *)
(* been sent or stored ("Set by an AMD3 ... Server.c restarts ... only after *)
(* its OA,12 acknowledgement has been queued"), unless another command has   *)
(* taken the reply's place.                                                  *)
AnsweredFirst ==
    [][(~ At("resetting") /\ where'.server = "resetting" /\ "busy" \notin ogWorld)
          => orderer \notin due']_ogVars

(* It does not wait for ever.                                                *)
ResetComes == reset ~> At("resetting")

(* "SET SOSDISABLE 1: Master disables all SOS button and tamper monitoring.  *)
(* Clears active SOS/Tamper states": when no other thread is changing the    *)
(* record, the poll leaves neither an emergency nor the alert of one.        *)
DisabledIsQuiet ==
    [][PollDisabled /\ where.systic = "idle"
          => ~ sos'.on /\ ~ sos'.tamper /\ alerts' \cap {"on", "tmp"} = {}]_ogVars

(* "Route by Channel, never by the displayed address": the reply to a        *)
(* command that came on a socket is sent on that socket.                     *)
RepliesToSource ==
    [][ReplySent => SocketOf(ota.channel) = SocketOf(ota.source)]_ogVars

=============================================================================
