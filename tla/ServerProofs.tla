---------------------------- MODULE ServerProofs ----------------------------
(***************************************************************************)
(* Theorems about the server thread: its sockets (TcpSocket), for any hosts, *)
(* descriptors, senders and limits, and what the OG build sends over them in *)
(* an emergency and in reply to commands (OgServer), for any delays and      *)
(* numbers of commands; both for any worlds.                                 *)
(***************************************************************************)
EXTENDS TcpSocket, OgServer, TLAPS

LEMMA Sizes ==
    /\ NOACK_MAX \in Nat /\ SILENT_SENDS \in Nat /\ MAX_SENT \in Nat
    /\ DELAY_MAX \in Nat /\ DELAY_MAX >= 2
BY LimitAssumption

-----------------------------------------------------------------------------
(* Types.  Each lemma has a case for every action that changes the part.     *)

LEMMA WorldStays == Next => world' = world
BY DEF Next, Process, Callbacks, Network, Device, Sending, Polling, WaitBegins, AckSkipped,
     Disabled, Inactive,
   Closed, Rested, IdleResolved, IdleLookup, IdleFails, DnsPending,
   OpenConnects, OpenPending, OpenAssigns, OpenFails, ConnectingTimesOut,
   Connected, Error, DnsAnswers, DnsSilent, ConnectAnswered, PeerCloses,
   ReadError, StaleConnect, StaleClose, LinkDies, PeerAcks, Send, AckSeen,
   AckFails, CloseAll, Reinit, ActiveChanges, Create

LEMMA ConfStep ==
    ASSUME ConfOK, Next
    PROVE  ConfOK'
<1>1. CASE CloseAll
  BY <1>1, Sizes DEF CloseAll, Open, CloseDesc, Ends, ConfOK
<1>2. CASE \E h \in Hosts, e \in BOOLEAN : Reinit(h, e)
  BY <1>2, Sizes DEF Reinit, CloseDesc, Ends, ConfOK
<1>3. CASE ActiveChanges
  BY <1>3, Sizes DEF ActiveChanges, sock, modem, sends, ConfOK
<1>4. CASE UNCHANGED <<host, enabled, active>>
  BY <1>4 DEF ConfOK
<1> QED
  BY <1>1, <1>2, <1>3, <1>4 DEF Next, Process, Callbacks, Network, Device,
     Sending, Polling, WaitBegins, AckSkipped,
     Disabled, Inactive, Closed, Rested, IdleResolved, IdleLookup,
     IdleFails, DnsPending, OpenConnects, OpenPending, OpenAssigns, OpenFails,
     ConnectingTimesOut, Connected, Error, DnsAnswers, DnsSilent,
     ConnectAnswered, PeerCloses, ReadError, StaleConnect, StaleClose,
     LinkDies, PeerAcks, Send, AckSeen, AckFails, Create, conf, sock, modem,
     sends

LEMMA StateStep ==
    ASSUME StateOK, ConfOK, Next
    PROVE  StateOK'
<1>1. CASE Disabled
  BY <1>1, Sizes DEF Disabled, CloseDesc, Ends, conf, StateOK, ConfOK, States
<1>2. CASE Inactive
  BY <1>2, Sizes DEF Inactive, Open, CloseDesc, Ends, conf, StateOK, ConfOK,
     States
<1>3. CASE Closed
  BY <1>3, Sizes DEF Closed, Runs, conf, modem, sends, StateOK, ConfOK, States
<1>4. CASE \E d \in Descs : IdleResolved(d)
  BY <1>4, Sizes DEF IdleResolved, Create, Runs, Polled, Ends, conf, StateOK,
     ConfOK, States
<1>5. CASE \E d \in Descs : IdleLookup(d)
  BY <1>5, Sizes DEF IdleLookup, Create, Runs, Polled, Ends, conf, StateOK,
     ConfOK, States
<1>6. CASE IdleFails
  BY <1>6, Sizes DEF IdleFails, Runs, CloseDesc, Create, Polled, Ends, conf,
     StateOK, ConfOK, States
<1>7. CASE DnsPending
  BY <1>7, Sizes DEF DnsPending, Runs, conf, modem, sends, StateOK, ConfOK,
     States
<1>8. CASE OpenConnects
  BY <1>8, Sizes DEF OpenConnects, Runs, conf, sends, StateOK, ConfOK, States
<1>9. CASE OpenPending
  BY <1>9, Sizes DEF OpenPending, Runs, conf, sends, StateOK, ConfOK, States
<1>10. CASE OpenAssigns
  BY <1>10, Sizes DEF OpenAssigns, conf, modem, sends, StateOK, ConfOK, States
<1>11. CASE OpenFails
  BY <1>11, Sizes DEF OpenFails, Runs, conf, modem, sends, StateOK, ConfOK,
     States
<1>12. CASE ConnectingTimesOut
  BY <1>12, Sizes DEF ConnectingTimesOut, Runs, conf, modem, sends, StateOK,
     ConfOK, States
<1>13. CASE Connected
  BY <1>13, Sizes DEF Connected, Runs, conf, modem, sends, StateOK, ConfOK,
     States
<1>14. CASE Error
  BY <1>14, Sizes DEF Error, Runs, CloseDesc, NextDelay, Ends, conf, StateOK,
     ConfOK, States
<1>15. CASE \E h \in Hosts : DnsAnswers(h)
  BY <1>15, Sizes DEF DnsAnswers, InTime, conf, sends, StateOK, ConfOK, States
<1>16. CASE ConnectAnswered
  BY <1>16, Sizes DEF ConnectAnswered, OnConnect, conf, sends, StateOK,
     ConfOK, States
<1>17. CASE PeerCloses
  BY <1>17, Sizes DEF PeerCloses, OnClose, Ends, conf, StateOK, ConfOK, States
<1>18. CASE ReadError
  BY <1>18, Sizes DEF ReadError, conf, modem, sends, StateOK, ConfOK, States
<1>19. CASE \E d \in Descs : StaleConnect(d)
  BY <1>19, Sizes DEF StaleConnect, OnConnect, conf, sends, StateOK, ConfOK,
     States
<1>20. CASE \E d \in Descs : StaleClose(d)
  BY <1>20, Sizes DEF StaleClose, OnClose, Ends, conf, StateOK, ConfOK, States
<1>21. CASE \E s \in Senders : Send(s)
  BY <1>21, Sizes DEF Send, conf, sends, StateOK, ConfOK, States
<1>22. CASE \E s \in Senders : AckFails(s)
  BY <1>22, Sizes DEF AckFails, Unacked, Answers, Returns, conf, modem,
     StateOK, ConfOK, States
<1>23. CASE CloseAll
  BY <1>23, Sizes DEF CloseAll, Open, CloseDesc, Ends, StateOK, ConfOK, States
<1>24. CASE \E h \in Hosts, e \in BOOLEAN : Reinit(h, e)
  BY <1>24, Sizes DEF Reinit, CloseDesc, Ends, StateOK, ConfOK, States
<1>25. CASE UNCHANGED <<state, index, addr>>
  BY <1>25 DEF StateOK, ConfOK, States
<1> QED
  BY <1>1, <1>2, <1>3, <1>4, <1>5, <1>6, <1>7, <1>8, <1>9, <1>10, <1>11,
     <1>12, <1>13, <1>14, <1>15, <1>16, <1>17, <1>18, <1>19, <1>20, <1>21,
     <1>22, <1>23, <1>24, <1>25 DEF Next, Process, Callbacks, Network, Device,
     Sending, Polling, WaitBegins, AckSkipped,
     Rested, DnsSilent, LinkDies, PeerAcks, AckSeen, ActiveChanges,
     conf, sock, modem, sends

LEMMA FlagsStep ==
    ASSUME FlagsOK, WaitOK, Next
    PROVE  FlagsOK'
<1>1. CASE Closed
  BY <1>1, Sizes DEF Closed, Runs, conf, modem, sends, FlagsOK, WaitOK
<1>2. CASE Rested
  BY <1>2, Sizes DEF Rested, Polled, conf, modem, sends, FlagsOK, WaitOK
<1>3. CASE \E d \in Descs : IdleResolved(d)
  BY <1>3, Sizes DEF IdleResolved, Create, Runs, Polled, Ends, conf, FlagsOK,
     WaitOK
<1>4. CASE \E d \in Descs : IdleLookup(d)
  <2>1. resolved' = FALSE /\ opening' = opening
    BY <1>4 DEF IdleLookup, Create
  <2>2. waiting' = (delay > 0) \/ waiting' = waiting
    BY <1>4 DEF IdleLookup
  <2>3. waiting' \in BOOLEAN
    <3>1. CASE waiting' = (delay > 0)
      BY <3>1
    <3>2. CASE waiting' = waiting
      BY <3>2 DEF FlagsOK
    <3> QED
      BY <2>2, <3>1, <3>2
  <2> QED
    BY <2>1, <2>3 DEF FlagsOK
<1>5. CASE IdleFails
  BY <1>5, Sizes DEF IdleFails, Runs, CloseDesc, Create, Polled, Ends, conf,
     FlagsOK, WaitOK
<1>6. CASE OpenPending
  <2>1. CASE opening' = TRUE /\ UNCHANGED <<waiting, resolved>>
    BY <2>1 DEF FlagsOK
  <2>2. CASE waiting' = (delay > 0) /\ UNCHANGED <<opening, resolved>>
    <3>1. waiting' \in BOOLEAN
      BY <2>2
    <3> QED
      BY <2>2, <3>1 DEF FlagsOK
  <2> QED
    BY <1>6, <2>1, <2>2 DEF OpenPending
<1>7. CASE OpenAssigns
  <2>1. waiting' = (delay > 0) /\ opening' = FALSE /\ resolved' = resolved
    BY <1>7 DEF OpenAssigns
  <2>2. waiting' \in BOOLEAN
    BY <2>1
  <2> QED
    BY <2>1, <2>2 DEF FlagsOK
<1>8. CASE Connected
  BY <1>8, Sizes DEF Connected, Runs, conf, modem, sends, FlagsOK, WaitOK
<1>9. CASE Error
  BY <1>9, Sizes DEF Error, Runs, CloseDesc, NextDelay, Ends, conf, FlagsOK,
     WaitOK
<1>10. CASE \E h \in Hosts : DnsAnswers(h)
  BY <1>10, Sizes DEF DnsAnswers, InTime, conf, sends, FlagsOK, WaitOK
<1>11. CASE UNCHANGED <<resolved, waiting, opening>>
  BY <1>11 DEF FlagsOK, WaitOK
<1> QED
  BY <1>1, <1>2, <1>3, <1>4, <1>5, <1>6, <1>7, <1>8, <1>9, <1>10, <1>11 DEF
     Next, Process, Callbacks, Network, Device, Sending, Polling, WaitBegins, AckSkipped,
     Disabled, Inactive,
     DnsPending, OpenConnects, OpenFails, ConnectingTimesOut, DnsSilent,
     ConnectAnswered, PeerCloses, ReadError, StaleConnect, StaleClose,
     LinkDies, PeerAcks, Send, AckSeen, AckFails, CloseAll, Reinit,
     ActiveChanges, conf, sock, modem, sends

LEMMA WaitStep ==
    ASSUME WaitOK, Next
    PROVE  WaitOK'
<1>1. CASE Closed
  BY <1>1, Sizes DEF Closed, Runs, conf, modem, sends, WaitOK
<1>2. CASE Connected
  BY <1>2, Sizes DEF Connected, Runs, conf, modem, sends, WaitOK
<1>3. CASE Error
  BY <1>3, Sizes DEF Error, Runs, CloseDesc, NextDelay, Ends, conf, WaitOK
<1>4. CASE UNCHANGED <<delay>>
  BY <1>4 DEF WaitOK
<1> QED
  BY <1>1, <1>2, <1>3, <1>4 DEF Next, Process, Callbacks, Network, Device,
     Sending, Polling, WaitBegins, AckSkipped,
     Disabled, Inactive, Rested, IdleResolved, IdleLookup, IdleFails,
     DnsPending, OpenConnects, OpenPending, OpenAssigns, OpenFails,
     ConnectingTimesOut, DnsAnswers, DnsSilent, ConnectAnswered, PeerCloses,
     ReadError, StaleConnect, StaleClose, LinkDies, PeerAcks, Send, AckSeen,
     AckFails, CloseAll, Reinit, ActiveChanges, Create, conf, sock, modem,
     sends

LEMMA ModemStep ==
    ASSUME ModemOK, StateOK, ConfOK, Next
    PROVE  ModemOK'
<1>1. CASE Disabled
  BY <1>1, Sizes DEF Disabled, CloseDesc, Ends, conf, ModemOK, StateOK, ConfOK
<1>2. CASE Inactive
  BY <1>2, Sizes DEF Inactive, Open, CloseDesc, Ends, conf, ModemOK, StateOK,
     ConfOK
<1>3. CASE \E d \in Descs : IdleResolved(d)
  BY <1>3, Sizes DEF IdleResolved, Create, Runs, Polled, Ends, conf, ModemOK,
     StateOK, ConfOK
<1>4. CASE \E d \in Descs : IdleLookup(d)
  BY <1>4, Sizes DEF IdleLookup, Create, Runs, Polled, Ends, conf, ModemOK,
     StateOK, ConfOK
<1>5. CASE IdleFails
  BY <1>5, Sizes DEF IdleFails, Runs, CloseDesc, Create, Polled, Ends, conf,
     ModemOK, StateOK, ConfOK
<1>6. CASE OpenConnects
  BY <1>6, Sizes DEF OpenConnects, Runs, conf, sends, ModemOK, StateOK, ConfOK
<1>7. CASE OpenPending
  BY <1>7, Sizes DEF OpenPending, Runs, conf, sends, ModemOK, StateOK, ConfOK
<1>8. CASE Error
  BY <1>8, Sizes DEF Error, Runs, CloseDesc, NextDelay, Ends, conf, ModemOK,
     StateOK, ConfOK
<1>9. CASE \E h \in Hosts : DnsAnswers(h)
  BY <1>9, Sizes DEF DnsAnswers, InTime, conf, sends, ModemOK, StateOK, ConfOK
<1>10. CASE \E h \in Hosts : DnsSilent(h)
  BY <1>10, Sizes DEF DnsSilent, conf, sock, sends, ModemOK, StateOK, ConfOK
<1>11. CASE ConnectAnswered
  BY <1>11, Sizes DEF ConnectAnswered, OnConnect, conf, sends, ModemOK,
     StateOK, ConfOK
<1>12. CASE PeerCloses
  BY <1>12, Sizes DEF PeerCloses, OnClose, Ends, conf, ModemOK, StateOK,
     ConfOK
<1>13. CASE \E d \in Descs : StaleConnect(d)
  BY <1>13, Sizes DEF StaleConnect, OnConnect, conf, sends, ModemOK, StateOK,
     ConfOK
<1>14. CASE \E d \in Descs : StaleClose(d)
  BY <1>14, Sizes DEF StaleClose, OnClose, Ends, conf, ModemOK, StateOK,
     ConfOK
<1>15. CASE LinkDies
  BY <1>15, Sizes DEF LinkDies, conf, sock, sends, ModemOK, StateOK, ConfOK
<1>16. CASE CloseAll
  BY <1>16, Sizes DEF CloseAll, Open, CloseDesc, Ends, ModemOK, StateOK,
     ConfOK
<1>17. CASE \E h \in Hosts, e \in BOOLEAN : Reinit(h, e)
  BY <1>17, Sizes DEF Reinit, CloseDesc, Ends, ModemOK, StateOK, ConfOK
<1>18. CASE UNCHANGED <<lookups, link, stale>>
  BY <1>18 DEF ModemOK, StateOK, ConfOK
<1> QED
  BY <1>1, <1>2, <1>3, <1>4, <1>5, <1>6, <1>7, <1>8, <1>9, <1>10, <1>11,
     <1>12, <1>13, <1>14, <1>15, <1>16, <1>17, <1>18 DEF Next, Process,
     Callbacks, Network, Device, Sending, Polling, WaitBegins, AckSkipped,
     Closed, Rested, DnsPending,
     OpenAssigns, OpenFails, ConnectingTimesOut, Connected, ReadError,
     PeerAcks, Send, AckSeen, AckFails, ActiveChanges, conf, sock, modem,
     sends

LEMMA CountStep ==
    ASSUME CountOK, Next
    PROVE  CountOK'
<1>1. CASE Disabled
  BY <1>1, Sizes DEF Disabled, CloseDesc, Ends, conf, CountOK
<1>2. CASE Inactive
  BY <1>2, Sizes DEF Inactive, Open, CloseDesc, Ends, conf, CountOK
<1>3. CASE \E d \in Descs : IdleResolved(d)
  BY <1>3, Sizes DEF IdleResolved, Create, Runs, Polled, Ends, conf, CountOK
<1>4. CASE \E d \in Descs : IdleLookup(d)
  BY <1>4, Sizes DEF IdleLookup, Create, Runs, Polled, Ends, conf, CountOK
<1>5. CASE IdleFails
  BY <1>5, Sizes DEF IdleFails, Runs, CloseDesc, Create, Polled, Ends, conf,
     CountOK
<1>6. CASE OpenConnects
  BY <1>6, Sizes DEF OpenConnects, Runs, conf, sends, CountOK
<1>7. CASE Error
  BY <1>7, Sizes DEF Error, Runs, CloseDesc, NextDelay, Ends, conf, CountOK
<1>8. CASE ConnectAnswered
  BY <1>8, Sizes DEF ConnectAnswered, OnConnect, conf, sends, CountOK
<1>9. CASE PeerCloses
  BY <1>9, Sizes DEF PeerCloses, OnClose, Ends, conf, CountOK
<1>10. CASE \E d \in Descs : StaleConnect(d)
  BY <1>10, Sizes DEF StaleConnect, OnConnect, conf, sends, CountOK
<1>11. CASE \E d \in Descs : StaleClose(d)
  BY <1>11, Sizes DEF StaleClose, OnClose, Ends, conf, CountOK
<1>12. CASE PeerAcks
  BY <1>12, Sizes DEF PeerAcks, conf, sock, sends, CountOK
<1>13. CASE \E s \in Senders : Send(s)
  BY <1>13, Sizes DEF Send, conf, sends, CountOK
<1>14. CASE \E s \in Senders : AckSeen(s)
  BY <1>14, Sizes DEF AckSeen, Answers, Returns, conf, modem, CountOK
<1>15. CASE \E s \in Senders : AckFails(s)
  BY <1>15, Sizes DEF AckFails, Unacked, Answers, Returns, conf, modem,
     CountOK
<1>16. CASE CloseAll
  BY <1>16, Sizes DEF CloseAll, Open, CloseDesc, Ends, CountOK
<1>17. CASE \E h \in Hosts, e \in BOOLEAN : Reinit(h, e)
  BY <1>17, Sizes DEF Reinit, CloseDesc, Ends, CountOK
<1>18. CASE \E s \in Senders : AckSkipped(s)
  BY <1>18, Sizes DEF AckSkipped, Answers, Returns, conf, modem, CountOK
<1>19. CASE UNCHANGED <<lastAck, noAck, sent, acked>>
  BY <1>19 DEF CountOK
<1> QED
  BY <1>1, <1>2, <1>3, <1>4, <1>5, <1>6, <1>7, <1>8, <1>9, <1>10, <1>11,
     <1>12, <1>13, <1>14, <1>15, <1>16, <1>17, <1>18,
     <1>19 DEF Next, Process,
     Callbacks, Network, Device, Sending, Polling, WaitBegins,
     Closed, Rested, DnsPending,
     OpenPending, OpenAssigns, OpenFails, ConnectingTimesOut, Connected,
     DnsAnswers, DnsSilent, ReadError, LinkDies, ActiveChanges, conf, sock,
     modem, sends

LEMMA SendsStep ==
    ASSUME SendsOK, CountOK, Next
    PROVE  SendsOK'
<1>1. CASE Disabled
  BY <1>1, Sizes DEF Disabled, CloseDesc, Ends, conf, SendsOK, CountOK
<1>2. CASE Inactive
  BY <1>2, Sizes DEF Inactive, Open, CloseDesc, Ends, conf, SendsOK, CountOK
<1>3. CASE \E d \in Descs : IdleResolved(d)
  <2>1. UNCHANGED <<pc, expected, pos>> /\ (UNCHANGED mine \/ mine' = [s \in Senders |-> FALSE])
    BY <1>3 DEF IdleResolved, Create, Ends
  <2> QED
    BY <2>1 DEF SendsOK
<1>4. CASE \E d \in Descs : IdleLookup(d)
  <2>1. UNCHANGED <<pc, expected, pos>> /\ (UNCHANGED mine \/ mine' = [s \in Senders |-> FALSE])
    BY <1>4 DEF IdleLookup, Create, Ends
  <2> QED
    BY <2>1 DEF SendsOK
<1>5. CASE IdleFails
  <2>1. UNCHANGED <<pc, expected, pos>> /\ (UNCHANGED mine \/ mine' = [s \in Senders |-> FALSE])
    BY <1>5 DEF IdleFails, Create, Ends, CloseDesc
  <2> QED
    BY <2>1 DEF SendsOK
<1>6. CASE Error
  BY <1>6, Sizes DEF Error, Runs, CloseDesc, NextDelay, Ends, conf, SendsOK,
     CountOK
<1>7. CASE PeerCloses
  BY <1>7, Sizes DEF PeerCloses, OnClose, Ends, conf, SendsOK, CountOK
<1>8. CASE \E d \in Descs : StaleClose(d)
  BY <1>8, Sizes DEF StaleClose, OnClose, Ends, conf, SendsOK, CountOK
<1>9. CASE \E s \in Senders : Send(s)
  <2>1. PICK s \in Senders : Send(s)
    BY <1>9
  <2>2. CASE UNCHANGED sends
    BY <2>2 DEF sends, SendsOK
  <2>3. CASE pc' = [pc EXCEPT ![s] = "sent"] /\ sent' = sent + 1
    <3>1. sent + 1 \in 0..MAX_SENT
      BY <2>1, Sizes DEF Send, CountOK
    <3>2. mine' = [mine EXCEPT ![s] = TRUE] /\ expected' = expected
          /\ pos' = [pos EXCEPT ![s] = sent + 1]
      BY <2>1, <2>3, Sizes DEF Send, sends, CountOK
    <3> QED
      BY <2>3, <3>1, <3>2 DEF SendsOK
  <2> QED
    BY <2>1, <2>2, <2>3 DEF Send
<1>10. CASE \E s \in Senders : AckSeen(s)
  BY <1>10, Sizes DEF AckSeen, Answers, Returns, conf, modem, SendsOK, CountOK
<1>11. CASE \E s \in Senders : AckFails(s)
  BY <1>11, Sizes DEF AckFails, Unacked, Answers, Returns, conf, modem,
     SendsOK, CountOK
<1>12. CASE CloseAll
  BY <1>12, Sizes DEF CloseAll, Open, CloseDesc, Ends, SendsOK, CountOK
<1>13. CASE \E h \in Hosts, e \in BOOLEAN : Reinit(h, e)
  BY <1>13, Sizes DEF Reinit, CloseDesc, Ends, SendsOK, CountOK
<1>14. CASE \E s \in Senders : WaitBegins(s)
  <2>1. lastAck + 1 \in 0..(MAX_SENT + 1)
    BY Sizes DEF CountOK
  <2> QED
    BY <1>14, <2>1 DEF WaitBegins, SendsOK
<1>15. CASE \E s \in Senders : AckSkipped(s)
  BY <1>15, Sizes DEF AckSkipped, Returns, SendsOK
<1>16. CASE UNCHANGED <<pc, mine, expected, pos>>
  BY <1>16 DEF SendsOK, CountOK
<1> QED
  BY <1>1, <1>2, <1>3, <1>4, <1>5, <1>6, <1>7, <1>8, <1>9, <1>10, <1>11,
     <1>12, <1>13, <1>14, <1>15, <1>16 DEF Next, Process, Callbacks, Network, Device,
     Sending, Polling,
     Closed, Rested, DnsPending, OpenConnects, OpenPending,
     OpenAssigns, OpenFails, ConnectingTimesOut, Connected, DnsAnswers,
     DnsSilent, ConnectAnswered, ReadError, StaleConnect, LinkDies, PeerAcks,
     ActiveChanges, conf, sock, modem, sends

LEMMA TypeInit == Init => TypeOK
<1> SUFFICES ASSUME Init PROVE TypeOK
  OBVIOUS
<1>1. ConfOK /\ StateOK /\ FlagsOK /\ ModemOK
  BY DEF Init, ConfOK, StateOK, FlagsOK, ModemOK, States
<1>2. WaitOK /\ CountOK
  BY Sizes DEF Init, WaitOK, CountOK
<1>3. 0 \in 0..MAX_SENT /\ 0 \in 0..(MAX_SENT + 1)
  BY Sizes
<1>4. SendsOK
  BY <1>3 DEF Init, SendsOK
<1> QED
  BY <1>1, <1>2, <1>4 DEF Init, TypeOK

LEMMA TypeStep == TypeOK /\ [Next]_vars => TypeOK'
<1>1. ASSUME TypeOK, Next PROVE TypeOK'
  BY <1>1, WorldStays, ConfStep, StateStep, FlagsStep, WaitStep, ModemStep, CountStep,
     SendsStep DEF TypeOK
<1>2. ASSUME TypeOK, UNCHANGED vars PROVE TypeOK'
  BY <1>2 DEF vars, conf, sock, modem, sends, TypeOK, ConfOK, StateOK, FlagsOK, WaitOK,
     ModemOK, CountOK, SendsOK
<1> QED
  BY <1>1, <1>2

(* The socket's record, the modem's descriptors, the counts and the backoff   *)
(* stay in range: the backoff at most DELAY_MAX, the failures at most         *)
(* NOACK_MAX, and never more acknowledged than sent.                         *)
THEOREM SocketTypeCorrect == Spec => []TypeOK
BY TypeInit, TypeStep, PTL DEF Spec

-----------------------------------------------------------------------------
(* Where the socket is: the states that need a descriptor have one, and a     *)
(* descriptor in use is the socket's.                                        *)
Placed ==
    Without({"stale"}) =>
        /\ stale = {}
        /\ state \in {"DNS_PENDING", "OPEN", "CONNECTED"} => index # NoDesc
        /\ state = "CONNECTED" => link[index] \in {"up", "lost"}
        /\ \A d \in Descs : link[d] # "free" => d = index

LEMMA PlacedStep ==
    ASSUME TypeOK, Placed, Next
    PROVE  Placed'
<1>1. CASE Disabled
  BY <1>1, DescAssumption DEF Disabled, CloseDesc, Ends, conf, Placed,
     Without, TypeOK, StateOK, ModemOK
<1>2. CASE Inactive
  BY <1>2, DescAssumption DEF Inactive, Open, CloseDesc, Ends, conf, Placed,
     Without, TypeOK, StateOK, ModemOK
<1>3. CASE Closed
  BY <1>3, DescAssumption DEF Closed, Runs, conf, modem, sends, Placed,
     Without, TypeOK, StateOK, ModemOK
<1>4. CASE \E d \in Descs : IdleResolved(d)
  BY <1>4, DescAssumption DEF IdleResolved, Create, Runs, Polled, Ends, conf,
     Placed, Without, TypeOK, StateOK, ModemOK
<1>5. CASE \E d \in Descs : IdleLookup(d)
  BY <1>5, DescAssumption DEF IdleLookup, Create, Runs, Polled, Ends, conf,
     Placed, Without, TypeOK, StateOK, ModemOK
<1>6. CASE IdleFails
  BY <1>6, DescAssumption DEF IdleFails, Runs, CloseDesc, Create, Polled,
     Ends, conf, Placed, Without, TypeOK, StateOK, ModemOK
<1>7. CASE DnsPending
  BY <1>7, DescAssumption DEF DnsPending, Runs, conf, modem, sends, Placed,
     Without, TypeOK, StateOK, ModemOK
<1>8. CASE OpenConnects
  BY <1>8, DescAssumption DEF OpenConnects, Runs, conf, sends, Placed,
     Without, TypeOK, StateOK, ModemOK
<1>9. CASE OpenPending
  BY <1>9, DescAssumption DEF OpenPending, Runs, conf, sends, Placed, Without,
     TypeOK, StateOK, ModemOK
<1>10. CASE OpenAssigns
  BY <1>10, DescAssumption DEF OpenAssigns, conf, modem, sends, Placed,
     Without, TypeOK, StateOK, ModemOK
<1>11. CASE OpenFails
  BY <1>11, DescAssumption DEF OpenFails, Runs, conf, modem, sends, Placed,
     Without, TypeOK, StateOK, ModemOK
<1>12. CASE ConnectingTimesOut
  BY <1>12, DescAssumption DEF ConnectingTimesOut, Runs, conf, modem, sends,
     Placed, Without, TypeOK, StateOK, ModemOK
<1>13. CASE Connected
  BY <1>13, DescAssumption DEF Connected, Runs, conf, modem, sends, Placed,
     Without, TypeOK, StateOK, ModemOK
<1>14. CASE Error
  BY <1>14, DescAssumption DEF Error, Runs, CloseDesc, NextDelay, Ends, conf,
     Placed, Without, TypeOK, StateOK, ModemOK
<1>15. CASE \E h \in Hosts : DnsAnswers(h)
  BY <1>15, DescAssumption DEF DnsAnswers, InTime, conf, sends, Placed,
     Without, TypeOK, StateOK, ModemOK
<1>16. CASE ConnectAnswered
  BY <1>16, DescAssumption DEF ConnectAnswered, OnConnect, conf, sends,
     Placed, Without, TypeOK, StateOK, ModemOK
<1>17. CASE PeerCloses
  BY <1>17, DescAssumption DEF PeerCloses, OnClose, Ends, conf, Placed,
     Without, TypeOK, StateOK, ModemOK
<1>18. CASE ReadError
  BY <1>18, DescAssumption DEF ReadError, conf, modem, sends, Placed, Without,
     TypeOK, StateOK, ModemOK
<1>19. CASE \E d \in Descs : StaleConnect(d)
  BY <1>19, DescAssumption DEF StaleConnect, OnConnect, conf, sends, Placed,
     Without, TypeOK, StateOK, ModemOK
<1>20. CASE \E d \in Descs : StaleClose(d)
  BY <1>20, DescAssumption DEF StaleClose, OnClose, Ends, conf, Placed,
     Without, TypeOK, StateOK, ModemOK
<1>21. CASE LinkDies
  BY <1>21, DescAssumption DEF LinkDies, conf, sock, sends, Placed, Without,
     TypeOK, StateOK, ModemOK
<1>22. CASE \E s \in Senders : Send(s)
  BY <1>22, DescAssumption DEF Send, conf, sends, Placed, Without, TypeOK,
     StateOK, ModemOK
<1>23. CASE \E s \in Senders : AckFails(s)
  BY <1>23, DescAssumption DEF AckFails, Unacked, Answers, Returns, conf,
     modem, Placed, Without, TypeOK, StateOK, ModemOK
<1>24. CASE CloseAll
  BY <1>24, DescAssumption DEF CloseAll, Open, CloseDesc, Ends, Placed,
     Without, TypeOK, StateOK, ModemOK
<1>25. CASE \E h \in Hosts, e \in BOOLEAN : Reinit(h, e)
  BY <1>25, DescAssumption DEF Reinit, CloseDesc, Ends, Placed, Without,
     TypeOK, StateOK, ModemOK
<1>26. CASE UNCHANGED <<world, state, index, link, stale>>
  BY <1>26 DEF Placed, Without, TypeOK, StateOK, ModemOK
<1> QED
  BY <1>1, <1>2, <1>3, <1>4, <1>5, <1>6, <1>7, <1>8, <1>9, <1>10, <1>11,
     <1>12, <1>13, <1>14, <1>15, <1>16, <1>17, <1>18, <1>19, <1>20, <1>21,
     <1>22, <1>23, <1>24, <1>25, <1>26 DEF Next, Process, Callbacks, Network,
     Device, Sending, Polling, WaitBegins, AckSkipped,
     Rested, DnsSilent, PeerAcks, AckSeen, ActiveChanges,
     conf, sock, modem, sends

(* Where it connects to: an address taken for known is that of the host.      *)
Aimed ==
    Without({"latedns"}) =>
        (state = "OPEN" \/ (state = "DNS_PENDING" /\ resolved) => addr = host)

LEMMA AimedStep ==
    ASSUME TypeOK, Aimed, Next
    PROVE  Aimed'
<1>1. CASE Disabled
  BY <1>1 DEF Disabled, CloseDesc, Ends, conf, Aimed, Without, TypeOK, FlagsOK
<1>2. CASE Inactive
  BY <1>2 DEF Inactive, Open, CloseDesc, Ends, conf, Aimed, Without, TypeOK,
     FlagsOK
<1>3. CASE Closed
  BY <1>3 DEF Closed, Runs, conf, modem, sends, Aimed, Without, TypeOK,
     FlagsOK
<1>4. CASE \E d \in Descs : IdleResolved(d)
  BY <1>4 DEF IdleResolved, Create, Runs, Polled, Ends, conf, Aimed, Without,
     TypeOK, FlagsOK
<1>5. CASE \E d \in Descs : IdleLookup(d)
  BY <1>5 DEF IdleLookup, Create, Runs, Polled, Ends, conf, Aimed, Without,
     TypeOK, FlagsOK
<1>6. CASE IdleFails
  BY <1>6 DEF IdleFails, Runs, CloseDesc, Create, Polled, Ends, conf, Aimed,
     Without, TypeOK, FlagsOK
<1>7. CASE DnsPending
  BY <1>7 DEF DnsPending, Runs, conf, modem, sends, Aimed, Without, TypeOK,
     FlagsOK
<1>8. CASE OpenConnects
  BY <1>8 DEF OpenConnects, Runs, conf, sends, Aimed, Without, TypeOK, FlagsOK
<1>9. CASE OpenPending
  BY <1>9 DEF OpenPending, Runs, conf, sends, Aimed, Without, TypeOK, FlagsOK
<1>10. CASE OpenAssigns
  BY <1>10 DEF OpenAssigns, conf, modem, sends, Aimed, Without, TypeOK,
     FlagsOK
<1>11. CASE OpenFails
  BY <1>11 DEF OpenFails, Runs, conf, modem, sends, Aimed, Without, TypeOK,
     FlagsOK
<1>12. CASE ConnectingTimesOut
  BY <1>12 DEF ConnectingTimesOut, Runs, conf, modem, sends, Aimed, Without,
     TypeOK, FlagsOK
<1>13. CASE Connected
  BY <1>13 DEF Connected, Runs, conf, modem, sends, Aimed, Without, TypeOK,
     FlagsOK
<1>14. CASE Error
  BY <1>14 DEF Error, Runs, CloseDesc, NextDelay, Ends, conf, Aimed, Without,
     TypeOK, FlagsOK
<1>15. CASE \E h \in Hosts : DnsAnswers(h)
  BY <1>15 DEF DnsAnswers, InTime, conf, sends, Aimed, Without, TypeOK,
     FlagsOK
<1>16. CASE ConnectAnswered
  BY <1>16 DEF ConnectAnswered, OnConnect, conf, sends, Aimed, Without,
     TypeOK, FlagsOK
<1>17. CASE PeerCloses
  BY <1>17 DEF PeerCloses, OnClose, Ends, conf, Aimed, Without, TypeOK,
     FlagsOK
<1>18. CASE ReadError
  BY <1>18 DEF ReadError, conf, modem, sends, Aimed, Without, TypeOK, FlagsOK
<1>19. CASE \E d \in Descs : StaleConnect(d)
  BY <1>19 DEF StaleConnect, OnConnect, conf, sends, Aimed, Without, TypeOK,
     FlagsOK
<1>20. CASE \E d \in Descs : StaleClose(d)
  BY <1>20 DEF StaleClose, OnClose, Ends, conf, Aimed, Without, TypeOK,
     FlagsOK
<1>21. CASE \E s \in Senders : Send(s)
  BY <1>21 DEF Send, conf, sends, Aimed, Without, TypeOK, FlagsOK
<1>22. CASE \E s \in Senders : AckFails(s)
  BY <1>22 DEF AckFails, Unacked, Answers, Returns, conf, modem, Aimed,
     Without, TypeOK, FlagsOK
<1>23. CASE CloseAll
  BY <1>23 DEF CloseAll, Open, CloseDesc, Ends, Aimed, Without, TypeOK,
     FlagsOK
<1>24. CASE \E h \in Hosts, e \in BOOLEAN : Reinit(h, e)
  BY <1>24 DEF Reinit, CloseDesc, Ends, Aimed, Without, TypeOK, FlagsOK
<1>25. CASE UNCHANGED <<world, state, resolved, addr, host>>
  BY <1>25 DEF Aimed, Without, TypeOK, FlagsOK
<1> QED
  BY <1>1, <1>2, <1>3, <1>4, <1>5, <1>6, <1>7, <1>8, <1>9, <1>10, <1>11,
     <1>12, <1>13, <1>14, <1>15, <1>16, <1>17, <1>18, <1>19, <1>20, <1>21,
     <1>22, <1>23, <1>24, <1>25 DEF Next, Process, Callbacks, Network, Device,
     Sending, Polling, WaitBegins, AckSkipped,
     Rested, DnsSilent, LinkDies, PeerAcks, AckSeen, ActiveChanges,
     conf, sock, modem, sends

SocketInv == TypeOK /\ Placed /\ Aimed

LEMMA SocketInit == Init => SocketInv
BY TypeInit DEF SocketInv, Init, Placed, Aimed

LEMMA SocketStep == SocketInv /\ [Next]_vars => SocketInv'
<1>1. ASSUME SocketInv, Next PROVE SocketInv'
  BY <1>1, TypeStep, PlacedStep, AimedStep DEF SocketInv
<1>2. ASSUME SocketInv, UNCHANGED vars PROVE SocketInv'
  BY <1>2, TypeStep DEF SocketInv, vars, conf, sock, modem, Placed, Aimed, Without
<1> QED
  BY <1>1, <1>2

(* A socket that says it is connected has a descriptor with a connection made *)
(* on it, as long as no callback comes for a descriptor that was closed.      *)
THEOREM SocketConnectedIsUp == Spec => []ConnectedIsUp
<1>1. SocketInv => ConnectedIsUp
  BY DEF SocketInv, Placed, ConnectedIsUp
<1> QED
  BY <1>1, SocketInit, SocketStep, PTL DEF Spec

(* No way out of a connection leaves a descriptor of the modem behind.        *)
THEOREM SocketLeaksNothing == Spec => []NoDescriptorLeaks
<1>1. SocketInv => NoDescriptorLeaks
  BY DEF SocketInv, Placed, NoDescriptorLeaks
<1> QED
  BY <1>1, SocketInit, SocketStep, PTL DEF Spec

(* A connection is tried to the configured host, unless lookups answer late.  *)
THEOREM SocketConnectsToHost == Spec => ConnectsToHost
<1>1. SocketInv /\ [Next]_vars =>
        [Without({"latedns"}) /\ (OpenConnects \/ OpenPending) => addr = host]_vars
  BY DEF SocketInv, Aimed, OpenConnects, OpenPending, Runs
<1> QED
  BY <1>1, SocketInit, SocketStep, PTL DEF Spec, ConnectsToHost

(* The two together: the descriptor of the socket is the one in use, and its  *)
(* state is the connection's.                                                 *)
THEOREM SocketDescriptor == Spec => []DescriptorIsSound
<1>1. ConnectedIsUp /\ NoDescriptorLeaks => DescriptorIsSound
  BY DEF DescriptorIsSound
<1> QED
  BY <1>1, SocketConnectedIsUp, SocketLeaksNothing, PTL

-----------------------------------------------------------------------------
(* What a sender waits for, when one thread sends at a time and both          *)
(* acknowledgements and callbacks are prompt.                                *)
Solo == Without({"slowack", "shared", "stale"})

OneWaits == \A s, t \in Senders : pc[s] # "idle" /\ pc[t] # "idle" => s = t

\* A sender that was left behind by its connection finds nothing sent.
Waits(s) == /\ pc[s] = "wait" => expected[s] > 0
            /\ pc[s] # "idle" => mine[s] \/ sent = 0

\* The count a sender waits for, or would if it began now.
Awaits(s) == IF pc[s] = "sent" THEN lastAck + 1 ELSE expected[s]

\* A sender on the present connection sent the last packet on it, and waits for
\* just that one, or, its link dead, for more than will ever come.
Owns(s) ==
    mine[s] =>
        /\ pc[s] # "idle" /\ sent > 0 /\ pos[s] = sent
        /\ Awaits(s) = sent \/ (link[index] # "up" /\ acked < Awaits(s))

\* What was sent was sent on a connection.
OnLink ==
    sent > 0 => /\ index # NoDesc /\ link[index] \in {"up", "lost"}
                /\ state \notin {"OPEN", "DNS_PENDING"}

\* Between two packets the count is not behind, and on a live link exact.
Counted ==
    state = "CONNECTED" /\ (\A s \in Senders : ~ mine[s]) =>
        /\ lastAck >= acked
        /\ index # NoDesc /\ link[index] = "up" => lastAck = sent

SendInv ==
    Solo => /\ OneWaits /\ OnLink /\ Counted
            /\ \A s \in Senders : Waits(s) /\ Owns(s)

(* Nothing was sent on the connection there is now, or there is none.         *)
LEMMA SendEmpty ==
    ASSUME SendInv, UNCHANGED <<world, pc, expected>>,
           sent' = 0, acked' = 0, \A s \in Senders : ~ mine'[s],
           lastAck' \in Nat,
           index' # NoDesc /\ link'[index'] = "up" => lastAck' = 0
    PROVE  SendInv'
BY DEF SendInv, Solo, Without, OneWaits, OnLink, Counted, Waits, Owns, Awaits

LEMMA NothingSent ==
    ASSUME TypeOK, SendInv, Solo, sent = 0
    PROVE  acked = 0 /\ \A s \in Senders : ~ mine[s]
BY DEF TypeOK, CountOK, SendInv, Owns

(* The descriptor is closed, if there is one.                                 *)
LEMMA ClosedEmpties ==
    ASSUME TypeOK, SendInv, Solo, CloseDesc
    PROVE  index' = NoDesc /\ sent' = 0 /\ acked' = 0
           /\ \A s \in Senders : ~ mine'[s]
<1>1. CASE index = NoDesc
  <2>1. sent = 0
    BY <1>1 DEF SendInv, OnLink, TypeOK, CountOK
  <2> QED
    BY <1>1, <2>1, NothingSent DEF CloseDesc
<1>2. CASE index # NoDesc
  BY <1>2 DEF CloseDesc, Ends
<1> QED
  BY <1>1, <1>2

(* A socket is made.                                                          *)
LEMMA CreateEmpties ==
    ASSUME TypeOK, SendInv, Solo, NEW d \in Descs, Create(d)
    PROVE  /\ sent' = 0 /\ acked' = 0 /\ \A s \in Senders : ~ mine'[s]
           /\ index' = d /\ link'[d] = "idle"
           /\ UNCHANGED <<world, pc, expected, lastAck>>
<1>1. CASE index = NoDesc
  <2>1. sent = 0
    BY <1>1 DEF SendInv, OnLink, TypeOK, CountOK
  <2> QED
    BY <1>1, <2>1, NothingSent DEF Create
<1>2. CASE index # NoDesc
  BY <1>2 DEF Create, Ends
<1> QED
  BY <1>1, <1>2

(* The state changes, and nothing a sender looks at.                          *)
LEMMA SendKept ==
    ASSUME TypeOK, SendInv,
           UNCHANGED <<world, index, link, sent, acked, lastAck, sends>>,
           \/ state' = state
           \/ state' \notin {"OPEN", "DNS_PENDING", "CONNECTED"}
           \/ state \in {"OPEN", "DNS_PENDING"} /\ state' # "CONNECTED"
    PROVE  SendInv'
BY DEF SendInv, Solo, Without, OneWaits, OnLink, Counted, Waits, Owns, Awaits, sends

LEMMA SendStep ==
    ASSUME TypeOK, Placed, SendInv, Next
    PROVE  SendInv'
<1> SUFFICES ASSUME Solo' PROVE SendInv'
  BY DEF SendInv
<1>0. /\ Solo /\ stale = {} /\ world' = world /\ lastAck \in Nat
      /\ sent \in Nat /\ acked \in 0 .. sent
  BY WorldStays, Sizes DEF Solo, Without, Placed, TypeOK, CountOK
<1>1. CASE Disabled \/ Inactive \/ Error
  <2>1. /\ CloseDesc /\ UNCHANGED <<pc, expected>> /\ lastAck' \in {0, lastAck}
    BY <1>1 DEF Disabled, Inactive, Error
  <2> QED
    BY <1>0, <2>1, ClosedEmpties, SendEmpty
<1>2. CASE \E h \in Hosts, e \in BOOLEAN : Reinit(h, e)
  <2>1. CloseDesc /\ UNCHANGED <<pc, expected, lastAck>>
    BY <1>2 DEF Reinit
  <2> QED
    BY <1>0, <2>1, ClosedEmpties, SendEmpty
<1>3. CASE CloseAll
  <2>1. CASE CloseDesc
    BY <1>0, <1>3, <2>1, ClosedEmpties, SendEmpty DEF CloseAll
  <2>2. CASE UNCHANGED <<state, index, link, sent, acked, mine>>
    BY <1>0, <1>3, <2>2, SendKept DEF CloseAll, sends
  <2> QED
    BY <1>3, <2>1, <2>2 DEF CloseAll
<1>4. CASE (\E d \in Descs : IdleResolved(d) \/ IdleLookup(d)) \/ IdleFails
  <2>1. CASE \E d \in Descs : Create(d)
    <3>1. PICK d \in Descs : Create(d)
      BY <2>1
    <3> QED
      BY <1>0, <3>1, CreateEmpties, SendEmpty
  <2>2. CASE CloseDesc /\ UNCHANGED <<pc, expected, lastAck>>
    BY <1>0, <2>2, ClosedEmpties, SendEmpty
  <2> QED
    BY <1>4, <2>1, <2>2 DEF IdleResolved, IdleLookup, IdleFails
<1>5. CASE Closed \/ OpenAssigns \/ OpenFails \/ ConnectingTimesOut \/ Connected
  BY <1>5, SendKept DEF Closed, OpenAssigns, OpenFails, ConnectingTimesOut,
     Connected, modem, sends
<1>6. CASE Rested \/ DnsPending \/ ReadError \/ ActiveChanges
  BY <1>6, SendKept DEF Rested, DnsPending, ReadError, ActiveChanges, Runs,
     sock, modem, sends
<1>7. CASE \E h \in Hosts : DnsAnswers(h) \/ DnsSilent(h)
  BY <1>7, SendKept DEF DnsAnswers, DnsSilent, sock, sends
<1>8. CASE OpenConnects \/ OpenPending
  <2>1. sent = 0
    BY <1>0, <1>8 DEF OpenConnects, OpenPending, Runs, SendInv, OnLink
  <2>2. index \in Descs
    BY <1>8 DEF OpenConnects, OpenPending, Runs, Placed, Solo, Without, TypeOK,
       StateOK
  <2>3. /\ UNCHANGED <<world, pc, expected, index, sent, acked, mine>>
        /\ \/ lastAck' = 0
           \/ lastAck' = lastAck /\ link'[index] = "connecting"
    BY <1>0, <1>8, <2>2 DEF OpenConnects, OpenPending, TypeOK, ModemOK, sends
  <2> QED
    BY <1>0, <2>1, <2>3, NothingSent, SendEmpty
<1>9. CASE ConnectAnswered
  <2>1. sent = 0
    BY <1>0, <1>9 DEF ConnectAnswered, SendInv, OnLink
  <2>2. index \in Descs
    BY <1>9 DEF ConnectAnswered, TypeOK, StateOK
  <2>3. /\ UNCHANGED <<world, pc, expected, index, sent, acked, mine>>
        /\ \/ lastAck' = 0
           \/ lastAck' = lastAck /\ link'[index] = "idle"
    BY <1>0, <1>9, <2>2 DEF ConnectAnswered, OnConnect, TypeOK, ModemOK, sends
  <2> QED
    BY <1>0, <2>1, <2>3, NothingSent, SendEmpty
<1>10. CASE PeerCloses
  BY <1>0, <1>10, SendEmpty DEF PeerCloses, OnClose, Ends
<1>11. CASE \E d \in Descs : StaleConnect(d) \/ StaleClose(d)
  BY <1>0, <1>11 DEF StaleConnect, StaleClose
<1>12. CASE LinkDies
  <2>1. /\ UNCHANGED <<world, state, index, sent, acked, lastAck, sends>>
        /\ link'[index] = "lost"
    BY <1>12 DEF LinkDies, sock, TypeOK, ModemOK, StateOK
  <2>2. \A s \in Senders : mine[s] /\ Awaits(s) # sent => acked < Awaits(s)
    BY <1>0 DEF SendInv, Owns
  <2> QED
    BY <1>0, <2>1, <2>2 DEF SendInv, OneWaits, OnLink, Counted, Waits, Owns, Awaits, sends
<1>13. CASE PeerAcks
  <2>1. /\ UNCHANGED <<world, state, index, link, sent, lastAck, sends>>
        /\ acked' \in 0 .. sent /\ link[index] = "up" /\ index # NoDesc
    BY <1>0, <1>13 DEF PeerAcks, sock
  <2> QED
    BY <1>0, <2>1 DEF SendInv, OneWaits, OnLink, Counted, Waits, Owns, Awaits, sends
<1>14. CASE \E s \in Senders : Send(s)
  <2>1. PICK s \in Senders : Send(s)
    BY <1>14
  <2>2. CASE UNCHANGED <<sent, sends>> /\ state' = "ERROR"
    BY <2>1, <2>2, SendKept DEF Send
  <2>3. CASE /\ link[index] \in {"up", "lost"} /\ sent' = sent + 1
             /\ pc' = [pc EXCEPT ![s] = "sent"]
             /\ pos' = [pos EXCEPT ![s] = sent + 1]
             /\ mine' = [mine EXCEPT ![s] = TRUE]
             /\ state' = state
    <3>1. \A t \in Senders : pc[t] = "idle" /\ ~ mine[t]
      BY <1>0, <2>1 DEF Send, Solo, Without, SendInv, Owns
    <3>2. /\ state = "CONNECTED" /\ index # NoDesc
          /\ UNCHANGED <<index, link, lastAck, acked>>
          /\ lastAck >= acked /\ (link[index] = "up" => lastAck = sent)
      BY <1>0, <2>1, <3>1 DEF Send, SendInv, Counted
    <3>3. /\ pc'[s] = "sent" /\ pos'[s] = sent' /\ mine'[s]
          /\ \A t \in Senders \ {s} : pc'[t] = "idle" /\ ~ mine'[t]
      BY <2>3, <3>1 DEF TypeOK, SendsOK
    <3>4. OneWaits' /\ OnLink' /\ Counted'
      BY <1>0, <2>3, <3>2, <3>3 DEF OneWaits, OnLink, Counted
    <3>5. Waits(s)' /\ Owns(s)'
      BY <1>0, <2>3, <3>2, <3>3 DEF Waits, Owns, Awaits
    <3>6. \A t \in Senders \ {s} : Waits(t)' /\ Owns(t)'
      BY <3>3 DEF Waits, Owns
    <3> QED
      BY <3>4, <3>5, <3>6 DEF SendInv
  <2> QED
    BY <2>1, <2>2, <2>3 DEF Send
<1>16. CASE \E s \in Senders : WaitBegins(s)
  <2>1. PICK s \in Senders : WaitBegins(s)
    BY <1>16
  <2>2. /\ pc[s] = "sent" /\ pc'[s] = "wait" /\ expected'[s] = lastAck + 1
        /\ UNCHANGED <<world, state, index, link, sent, acked, lastAck, mine, pos>>
        /\ \A t \in Senders \ {s} : pc'[t] = pc[t] /\ expected'[t] = expected[t]
    BY <2>1 DEF WaitBegins, sock, modem, TypeOK, SendsOK
  <2>3. mine[s] \/ sent = 0
    BY <1>0, <2>2 DEF SendInv, Waits
  <2>4. Waits(s)' /\ Owns(s)'
    BY <1>0, <2>2, <2>3 DEF SendInv, Waits, Owns, Awaits
  <2>5. \A t \in Senders \ {s} : Waits(t)' /\ Owns(t)'
    BY <1>0, <2>2 DEF SendInv, Waits, Owns, Awaits
  <2>6. OneWaits' /\ OnLink' /\ Counted'
    BY <1>0, <2>2 DEF SendInv, OneWaits, OnLink, Counted
  <2> QED
    BY <2>4, <2>5, <2>6 DEF SendInv
<1>15. CASE \E s \in Senders : AckSkipped(s) \/ AckSeen(s) \/ AckFails(s)
  <2>1. PICK s \in Senders : AckSkipped(s) \/ AckSeen(s) \/ AckFails(s)
    BY <1>15
  <2>2. /\ pc[s] # "idle" /\ Returns(s)
        /\ UNCHANGED <<world, index, link, sent, acked>>
        /\ state' = state \/ state' = "ERROR"
        /\ index # NoDesc => lastAck' = acked
        /\ index = NoDesc => lastAck' = lastAck
        /\ \/ state # "CONNECTED"
           \/ pc[s] = "wait" /\ (index # NoDesc /\ link[index] = "up" => acked >= expected[s])
    BY <1>0, <2>1 DEF AckSkipped, AckSeen, AckFails, Unacked, Answers, Solo,
       Without, modem
  <2>3. /\ pc'[s] = "idle" /\ ~ mine'[s]
        /\ \A t \in Senders \ {s} :
              /\ pc'[t] = pc[t] /\ mine'[t] = mine[t]
              /\ expected'[t] = expected[t] /\ pos'[t] = pos[t]
    BY <2>2 DEF Returns, TypeOK, SendsOK
  <2>4. \A t \in Senders \ {s} : pc[t] = "idle" /\ ~ mine[t]
    BY <1>0, <2>2 DEF SendInv, OneWaits, Owns
  <2>5. OnLink' /\ OneWaits'
    BY <1>0, <2>2, <2>3, <2>4 DEF SendInv, OnLink, OneWaits
  <2>6. \A t \in Senders : Waits(t)' /\ Owns(t)'
    BY <2>3, <2>4 DEF Waits, Owns
  <2>7. Counted'
    <3>1. CASE index = NoDesc
      <4>1. sent = 0
        BY <1>0, <3>1 DEF SendInv, OnLink
      <4> QED
        BY <1>0, <2>2, <3>1, <4>1 DEF Counted
    <3>4. CASE state' # "CONNECTED"
      BY <3>4 DEF Counted
    <3>2. CASE index # NoDesc /\ link[index] = "up" /\ state' = "CONNECTED"
      <4>1. expected[s] \in Nat /\ acked >= expected[s]
        BY <2>2, <3>2, Sizes DEF TypeOK, SendsOK
      <4>2. acked = sent
        BY <1>0, <2>2, <3>2, <4>1 DEF SendInv, Waits, Owns, Awaits
      <4> QED
        BY <1>0, <2>2, <3>2, <4>2 DEF Counted
    <3>3. CASE index # NoDesc /\ link[index] # "up"
      BY <1>0, <2>2, <3>3 DEF Counted
    <3> QED
      BY <3>1, <3>2, <3>3, <3>4
  <2> QED
    BY <2>5, <2>6, <2>7 DEF SendInv
<1> QED
  BY <1>1, <1>2, <1>3, <1>4, <1>5, <1>6, <1>7, <1>8, <1>9, <1>10, <1>11, <1>12,
     <1>13, <1>14, <1>15, <1>16
  DEF Next, Process, Callbacks, Network, Device, Sending, Polling

(* The acknowledgement a sender takes for its packet's covers its packet, and *)
(* is of the connection it was sent on; when one thread sends at a time, and  *)
(* acknowledgements and callbacks are prompt.                                *)
THEOREM AcksAreMine == Spec => AckIsMine
<1>1. Init => SocketInv /\ SendInv
  <2> SUFFICES ASSUME Init PROVE SendInv
    BY SocketInit
  <2>1. OneWaits /\ OnLink /\ Counted
    BY DEF Init, OneWaits, OnLink, Counted
  <2>2. \A s \in Senders : Waits(s) /\ Owns(s)
    BY DEF Init, Waits, Owns
  <2> QED
    BY <2>1, <2>2 DEF SendInv
<1>2. SocketInv /\ SendInv /\ [Next]_vars => SendInv'
  <2>1. ASSUME SocketInv, SendInv, UNCHANGED vars PROVE SendInv'
    BY <2>1, SendKept DEF SocketInv, vars, sock, modem
  <2> QED
    BY <2>1, SendStep DEF SocketInv
<1>3. SocketInv /\ SendInv =>
         (Without({"slowack", "shared", "stale"}) =>
             \A s \in Senders : AckSeen(s) => mine[s] /\ acked >= pos[s])
  <2> SUFFICES ASSUME SocketInv, SendInv, Solo, NEW s \in Senders, AckSeen(s)
               PROVE  mine[s] /\ acked >= pos[s]
    BY DEF Solo
  <2>1. /\ pc[s] = "wait" /\ acked >= expected[s] /\ expected[s] \in Nat
        /\ sent \in Nat /\ acked \in 0 .. sent
    BY Sizes DEF AckSeen, SocketInv, TypeOK, SendsOK, CountOK
  <2>2. mine[s]
    BY <2>1 DEF SendInv, Waits
  <2> QED
    BY <2>1, <2>2 DEF SendInv, Owns, Awaits
<1>4. SocketInv /\ SendInv /\ [Next]_vars =>
        [Without({"slowack", "shared", "stale"}) =>
             \A s \in Senders : AckSeen(s) => mine[s] /\ acked >= pos[s]]_vars
  BY <1>3
<1> QED
  BY <1>1, <1>2, <1>4, SocketStep, PTL DEF Spec, AckIsMine

-----------------------------------------------------------------------------
(* OgServer.                                                                 *)

\* Of the two threads that change emergency and alert in two steps each, at most one
\* is between its steps, and then the emergency is as that thread has left it.
SosInv ==
    "preempt" \notin ogWorld =>
        /\ where.hardware = "raise" => sos.on /\ where.systic = "idle"
        /\ where.systic = "expire" => ~ sos.on
        /\ where.hardware = "idle" /\ where.systic = "idle" =>
               (sos.on <=> "on" \in alerts)

\* The types of what the button is about, and the agreement.
ButtonInv ==
    /\ sos \in SosRecord /\ alerts \subseteq {"on", "off", "tmp"} /\ where \in Places
    /\ SosInv

\* One command at a time is answered to nobody yet: the one whose reply is pending.
ReplyInv ==
    /\ ota \in Response /\ due \subseteq Sources
    /\ orderer \in {"none"} \cup Sources
    /\ "busy" \notin ogWorld => due = {} \/ (ota.pending /\ due = {ota.source})

\* The rest of the types.
RestInv ==
    /\ ogWorld \in OgWorlds /\ pin \in {"idle", "active"} /\ emrSent \subseteq {"on", "tmp"}
    /\ disabled \in BOOLEAN /\ normal \in BOOLEAN /\ timeSet \in BOOLEAN
    /\ reinit \in BOOLEAN /\ reset \in BOOLEAN /\ heard \in BOOLEAN
    /\ up \subseteq Configured /\ ackWait \in 0 .. AckWait
    /\ word \in Words
    /\ moves \in 0 .. MaxMoves /\ commands \in 0 .. MaxCommands
    /\ drops \in 0 .. MaxDrops

-----------------------------------------------------------------------------
\* What the constants are.
LEMMA OgBounds ==
    /\ PushCap \in Nat /\ SosTimeOut \in Nat /\ SosTimeOut > 0 /\ AckWait \in Nat
    /\ MaxMoves \in Nat /\ MaxCommands \in Nat /\ MaxDrops \in Nat /\ PushCap > 0
    /\ 0 \in 0 .. SosTimeOut - 1 /\ 0 \in 0 .. PushCap /\ 0 \in 0 .. AckWait
  BY OgAssumption

\* The agreement holds at the start.
LEMMA ButtonInit == OgInit => ButtonInv
<1> SUFFICES ASSUME OgInit PROVE ButtonInv
  OBVIOUS
<1>1. sos \in SosRecord /\ where \in Places
  BY OgBounds DEF OgInit, NoSos, SosRecord, AtTop, Places
<1>2. SosInv
  BY DEF OgInit, SosInv, NoSos, AtTop
<1> QED BY <1>1, <1>2 DEF OgInit, ButtonInv

\* The time of a cut wire leaves the emergency.
LEMMA TamperTimedType ==
    ASSUME NEW r \in SosRecord
    PROVE  TamperTimed(r) \in SosRecord /\ TamperTimed(r).on = r.on
<1> USE OgBounds DEF TamperTimed, SosRecord
<1>1. CASE ~ r.tamper
  BY <1>1
<1>2. CASE r.tamper /\ "notamper" \in ogWorld
  BY <1>2
<1>3. CASE r.tamper /\ "notamper" \notin ogWorld /\ r.tamperLapsed + 1 < SosTimeOut
  BY <1>3
<1>4. CASE r.tamper /\ "notamper" \notin ogWorld /\ ~ (r.tamperLapsed + 1 < SosTimeOut)
  BY <1>4
<1> QED BY <1>1, <1>2, <1>3, <1>4

\* So does an idle button.
LEMMA ReleasedType ==
    ASSUME NEW r \in SosRecord
    PROVE  Released(r) \in SosRecord /\ Released(r).on = r.on
  BY OgBounds DEF Released, SosRecord

\* A step that leaves the emergency and its alert keeps the agreement.
LEMMA ButtonAside ==
    ASSUME ButtonInv, ogWorld' = ogWorld, sos' \in SosRecord, sos'.on = sos.on,
           alerts' \subseteq {"on", "off", "tmp"}, "on" \in alerts' <=> "on" \in alerts,
           \/ UNCHANGED where
           \/ \E p \in {"commands", "reply", "resetting", "alerts", "normal"} : Goto(p)
    PROVE  ButtonInv'
<1>1. /\ where' \in Places
      /\ where'.hardware = where.hardware /\ where'.systic = where.systic
  BY DEF ButtonInv, Places, Goto
<1> QED BY <1>1 DEF ButtonInv, SosInv

\* The hardware thread, in its two steps.
LEMMA PollKeepsButton ==
    ASSUME ButtonInv, Poll
    PROVE  ButtonInv'
<1>0. sos \in SosRecord /\ alerts \subseteq {"on", "off", "tmp"} /\ where \in Places
  BY DEF ButtonInv
<1>1. CASE PollDisabled
  <2>0. UNCHANGED <<ogWorld, where>> /\ Alone
    BY <1>1 DEF PollDisabled
  <2>1. CASE sos.on \/ sos.tamper
    <3>1. sos' = [sos EXCEPT !.on = FALSE, !.tamper = FALSE, !.push = 0]
      BY <1>1, <2>1 DEF PollDisabled
    <3>2. sos' \in SosRecord /\ ~ sos'.on
      BY <1>0, <3>1, OgBounds DEF SosRecord
    <3>3. alerts' \subseteq {"on", "off", "tmp"} /\ "on" \notin alerts'
      BY <1>0, <1>1, <2>1 DEF PollDisabled, SosOff
    <3> QED BY <2>0, <3>2, <3>3 DEF ButtonInv, SosInv, Alone
  <2>2. CASE ~ (sos.on \/ sos.tamper)
    <3>1. sos' = [sos EXCEPT !.push = 0] /\ alerts' = alerts
      BY <1>1, <2>2 DEF PollDisabled
    <3>2. sos' \in SosRecord /\ sos'.on = sos.on
      BY <1>0, <3>1, OgBounds DEF SosRecord
    <3> QED BY <1>0, <2>0, <3>1, <3>2, ButtonAside
  <2> QED BY <2>1, <2>2
<1>2. CASE PollActive
  <2>1. PICK push \in 0 .. PushCap :
          \/ sos' = [sos EXCEPT !.push = push] /\ alerts' = alerts
          \/ /\ sos' = [sos EXCEPT !.push = 0, !.tamper = TRUE, !.release = TRUE]
             /\ alerts' = alerts \cup {"tmp"}
    <3>1. sos.push \in 0 .. PushCap /\ (sos.push < PushCap => sos.push + 1 \in 0 .. PushCap)
      BY <1>0, OgBounds DEF SosRecord
    <3> QED BY <1>2, <3>1, OgBounds DEF PollActive
  <2>2. sos' \in SosRecord /\ sos'.on = sos.on
    BY <1>0, <2>1, OgBounds DEF SosRecord
  <2>3. UNCHANGED <<ogWorld, where>>
    BY <1>2 DEF PollActive
  <2> QED BY <1>0, <2>1, <2>2, <2>3, ButtonAside
<1>3. CASE PollIdle
  <2>1. UNCHANGED <<ogWorld, where>> /\ sos' = Released(sos) /\ alerts' = Restored(alerts)
    BY <1>3 DEF PollIdle
  <2> QED BY <1>0, <2>1, ReleasedType, ButtonAside DEF Restored
<1>4. CASE Press
  <2>1. sos' \in SosRecord /\ sos'.on
    BY <1>0, <1>4 DEF Press, SosRecord
  <2>2. /\ where' \in Places /\ where'.hardware = "raise" /\ where'.systic = where.systic
        /\ Alone /\ UNCHANGED <<ogWorld, alerts>>
    BY <1>0, <1>4 DEF Press, Places
  <2> QED BY <1>0, <2>1, <2>2 DEF ButtonInv, SosInv, Alone
<1>5. CASE Raise
  <2>1. /\ [Released(sos) EXCEPT !.lapsed = 0] \in SosRecord
        /\ [Released(sos) EXCEPT !.lapsed = 0].on = sos.on
    BY <1>0, ReleasedType, OgBounds DEF SosRecord
  <2>2. "on" \in alerts' /\ alerts' \subseteq {"on", "off", "tmp"}
    BY <1>0, <1>5 DEF Raise, Restored
  <2>3. /\ where' \in Places /\ where'.hardware = "idle" /\ where'.systic = where.systic
        /\ where.hardware = "raise" /\ ogWorld' = ogWorld
    BY <1>0, <1>5 DEF Raise, Places
  <2>4. sos' = [Released(sos) EXCEPT !.lapsed = 0]
    BY <1>5 DEF Raise
  <2> QED BY <2>1, <2>2, <2>3, <2>4 DEF ButtonInv, SosInv
<1> QED BY <1>1, <1>2, <1>3, <1>4, <1>5 DEF Poll

\* The system-tick thread, in its two steps.
LEMMA SysticKeepsButton ==
    ASSUME ButtonInv, Systic
    PROVE  ButtonInv'
<1>0. sos \in SosRecord /\ alerts \subseteq {"on", "off", "tmp"} /\ where \in Places
  BY DEF ButtonInv
<1>1. CASE NormalDue
  BY <1>0, <1>1, ButtonAside DEF NormalDue, sosVars
<1>2. CASE Tick
  <2>1. PICK r \in SosRecord : r.on = sos.on /\ sos' = TamperTimed(r)
                              /\ alerts' = TamperAlerts(r, alerts)
    <3>1. CASE sos.on
      <4>1. sos.lapsed + 1 \in 0 .. SosTimeOut - 1
        BY <1>0, <1>2, <3>1, OgBounds DEF Tick, SosRecord
      <4>2. /\ [sos EXCEPT !.lapsed = sos.lapsed + 1] \in SosRecord
            /\ [sos EXCEPT !.lapsed = sos.lapsed + 1].on = sos.on
        BY <1>0, <4>1 DEF SosRecord
      <4> QED BY <1>2, <3>1, <4>2 DEF Tick
    <3>2. CASE ~ sos.on
      BY <1>0, <1>2, <3>2 DEF Tick
    <3> QED BY <3>1, <3>2
  <2>2. UNCHANGED <<ogWorld, where>>
    BY <1>2 DEF Tick
  <2> QED BY <1>0, <2>1, <2>2, TamperTimedType, ButtonAside DEF TamperAlerts
<1>3. CASE Expire
  <2>1. sos' \in SosRecord /\ ~ sos'.on
    BY <1>0, <1>3, OgBounds DEF Expire, SosRecord
  <2>2. /\ where' \in Places /\ where'.systic = "expire" /\ where'.hardware = where.hardware
        /\ Alone /\ UNCHANGED <<ogWorld, alerts>>
    BY <1>0, <1>3 DEF Expire, Places
  <2> QED BY <1>0, <2>1, <2>2 DEF ButtonInv, SosInv, Alone
<1>4. CASE Expired
  <2>1. sos' \in SosRecord /\ sos'.on = sos.on
    BY <1>0, <1>4, TamperTimedType DEF Expired
  <2>2. "on" \notin alerts' /\ alerts' \subseteq {"on", "off", "tmp"}
    BY <1>0, <1>4 DEF Expired, TamperAlerts, ExpireAlerts, SosOff
  <2>3. /\ where' \in Places /\ where'.systic = "idle" /\ where'.hardware = where.hardware
        /\ where.systic = "expire" /\ ogWorld' = ogWorld
    BY <1>0, <1>4 DEF Expired, Places
  <2> QED BY <2>1, <2>2, <2>3 DEF ButtonInv, SosInv, Places
<1> QED BY <1>1, <1>2, <1>3, <1>4 DEF Systic

\* ResetSOS.
LEMMA ResetKeepsButton ==
    ASSUME ButtonInv, Alone, ResetSOS, Goto("reply"), ogWorld' = ogWorld
    PROVE  ButtonInv'
<1>0. sos \in SosRecord /\ alerts \subseteq {"on", "off", "tmp"} /\ where \in Places
  BY DEF ButtonInv
<1>1. CASE sos.on
  <2>1. sos' \in SosRecord /\ ~ sos'.on
    BY <1>0, <1>1, OgBounds DEF ResetSOS, SosRecord
  <2>2. "on" \notin alerts' /\ alerts' \subseteq {"on", "off", "tmp"}
    BY <1>0, <1>1 DEF ResetSOS, SosOff
  <2>3. /\ where' \in Places
        /\ where'.hardware = where.hardware /\ where'.systic = where.systic
    BY <1>0 DEF Goto, Places
  <2> QED BY <2>1, <2>2, <2>3 DEF ButtonInv, SosInv, Alone
<1>2. CASE ~ sos.on
  BY <1>0, <1>2, ButtonAside DEF ResetSOS
<1> QED BY <1>1, <1>2

\* The commands.
LEMMA CommandsKeepButton ==
    ASSUME ButtonInv, Commands
    PROVE  ButtonInv'
<1>0. sos \in SosRecord /\ alerts \subseteq {"on", "off", "tmp"} /\ where \in Places
  BY DEF ButtonInv
<1>1. CASE (\E src \in {"sms", "sck3"} : VReset(src)) \/ SosDisable
  BY <1>0, <1>1, ButtonAside DEF VReset, SosDisable, sosVars
<1>2. CASE SosClear
  BY <1>2, ResetKeepsButton DEF SosClear
<1>3. CASE TestOn
  <2>1. sos' \in SosRecord /\ sos'.on
    BY <1>0, <1>3, OgBounds DEF TestOn, SosRecord
  <2>2. "on" \in alerts' /\ alerts' \subseteq {"on", "off", "tmp"}
    BY <1>0, <1>3 DEF TestOn
  <2>3. /\ where' \in Places
        /\ where'.hardware = where.hardware /\ where'.systic = where.systic
    BY <1>0, <1>3 DEF TestOn, Goto, Places
  <2> QED BY <1>3, <2>1, <2>2, <2>3 DEF TestOn, ButtonInv, SosInv, Alone
<1>4. CASE TestOff
  <2>1. alerts' = alerts \cup {"off"} /\ UNCHANGED <<ogWorld, sos>> /\ Goto("reply")
    BY <1>4 DEF TestOff
  <2> QED BY <1>0, <2>1, ButtonAside
<1>5. ASSUME NEW src \in {"sck1", "sck2"}, NEW frame \in Frames, Amd3(src, frame)
      PROVE  ButtonInv'
  <2>1. CASE frame = "clear"
    BY <1>5, <2>1, ResetKeepsButton DEF Amd3
  <2>2. CASE frame # "clear"
    BY <1>0, <1>5, <2>2, ButtonAside DEF Amd3
  <2> QED BY <2>1, <2>2
<1> QED BY <1>1, <1>2, <1>3, <1>4, <1>5 DEF Commands

\* The rest of the round of the server thread.
LEMMA ServeKeepsButton ==
    ASSUME ButtonInv, Serve
    PROVE  ButtonInv'
<1>0. sos \in SosRecord /\ alerts \subseteq {"on", "off", "tmp"} /\ where \in Places
  BY DEF ButtonInv
<1>1. CASE Restart
  <2>1. sos' = NoSos /\ sos' \in SosRecord /\ where' = AtTop /\ where' \in Places /\ alerts' = {}
    BY <1>1, OgBounds DEF Restart, NoSos, SosRecord, AtTop, Places
  <2> QED BY <2>1 DEF ButtonInv, SosInv, NoSos, AtTop
<1>2. CASE NormalPacket
  <2>1. sos' \in SosRecord /\ sos'.on = sos.on
    <3>1. \A b \in BOOLEAN : /\ [sos EXCEPT !.sms = b] \in SosRecord
                             /\ [sos EXCEPT !.sms = b].on = sos.on
      BY <1>0 DEF SosRecord
    <3> QED BY <1>0, <1>2, <3>1 DEF NormalPacket, SendEmergency
  <2>2. UNCHANGED <<ogWorld, alerts>> /\ Goto("commands")
    BY <1>2 DEF NormalPacket, normalFrame
  <2> QED BY <1>0, <2>1, <2>2, ButtonAside
<1>3. CASE AlertOn \/ AlertOff \/ AlertTamper \/ NoAlerts \/ NoNormalPacket \/ NoCommand
  <2>1. sos' = sos /\ alerts' \subseteq alerts /\ ("on" \in alerts => "on" \in alerts')
    BY <1>3 DEF AlertOn, AlertOff, AlertTamper, NoAlerts, NoNormalPacket, NoCommand, sosVars,
                normalFrame
  <2>2. ogWorld' = ogWorld
    BY <1>3 DEF AlertOn, AlertOff, AlertTamper, NoAlerts, NoNormalPacket, NoCommand,
                normalFrame, alertFrame
  <2>3. \E p \in {"reply", "normal", "commands"} : Goto(p)
    BY <1>3 DEF AlertOn, AlertOff, AlertTamper, NoAlerts, NoNormalPacket, NoCommand
  <2> QED BY <1>0, <2>1, <2>2, <2>3, ButtonAside
<1>4. CASE ReplySent \/ ReplyRefused \/ ReplyWaits \/ ReplyStored \/ NoReplyDue
  <2>1. UNCHANGED <<ogWorld, sos, alerts>>
    BY <1>4 DEF ReplySent, ReplyRefused, ReplyWaits, ReplyStored, NoReplyDue, replyFrame, sosVars
  <2>2. \E p \in {"resetting", "alerts"} : Goto(p)
    BY <1>4 DEF ReplySent, ReplyRefused, ReplyWaits, ReplyStored, NoReplyDue, SendReply, Left
  <2> QED BY <1>0, <2>1, <2>2, ButtonAside
<1> QED BY <1>1, <1>2, <1>3, <1>4 DEF Serve

\* Every step keeps the agreement.
LEMMA ButtonKept == ButtonInv /\ [OgNext]_ogVars => ButtonInv'
<1> SUFFICES ASSUME ButtonInv, [OgNext]_ogVars PROVE ButtonInv'
  OBVIOUS
<1>1. CASE MovePin \/ TimeComes \/ (\E s \in Reached : Connect(s) \/ Disconnect(s))
  BY <1>1, ButtonAside DEF MovePin, TimeComes, Connect, Disconnect, ButtonInv, sosVars
<1>2. CASE UNCHANGED ogVars
  BY <1>2 DEF ogVars, ButtonInv, SosInv
<1> QED BY <1>1, <1>2, PollKeepsButton, SysticKeepsButton, CommandsKeepButton,
           ServeKeepsButton DEF OgNext

\* Nothing is due at the start.
LEMMA ReplyInit == OgInit => ReplyInv
  BY DEF OgInit, ReplyInv, NoReply, Response, Sources

\* Every step keeps what is due pending.
LEMMA ReplyKept == ReplyInv /\ [OgNext]_ogVars => ReplyInv'
<1> SUFFICES ASSUME ReplyInv, [OgNext]_ogVars PROVE ReplyInv'
  OBVIOUS
<1> USE DEF ReplyInv, Response, Sources
<1>1. CASE UNCHANGED <<ogWorld, ota, due, orderer>>
  BY <1>1
<1>2. ASSUME NEW src \in {"sms", "sck3"}, VReset(src)
      PROVE  ReplyInv'
  BY <1>2 DEF VReset, Commanded
<1>3. ASSUME NEW src \in {"sck1", "sck2"}, NEW frame \in Frames, Amd3(src, frame)
      PROVE  ReplyInv'
  BY <1>3 DEF Amd3, Commanded
<1>4. CASE ReplySent \/ ReplyStored
  BY <1>4 DEF ReplySent, ReplyStored, SendReply, Left, replyFrame
<1>5. CASE Restart
  BY <1>5 DEF Restart, NoReply
<1>6. CASE Commands
  BY <1>1, <1>2, <1>3, <1>6 DEF Commands, SosClear, TestOn, TestOff, SosDisable, otaVars
<1>7. CASE Poll \/ Systic
  BY <1>1, <1>7 DEF Poll, PollDisabled, PollActive, PollIdle, Press, Raise, Systic, NormalDue,
     Tick, Expire, Expired, otaVars
<1>8. CASE Serve
  BY <1>1, <1>4, <1>5, <1>8 DEF Serve, NoCommand, ReplyRefused, ReplyWaits, NoReplyDue,
     SendReply, AlertOn, AlertOff, AlertTamper, NoAlerts, NormalPacket, NoNormalPacket,
     otaVars, replyFrame, alertFrame, normalFrame
<1>9. CASE MovePin \/ TimeComes \/ (\E s \in Reached : Connect(s) \/ Disconnect(s))
  BY <1>1, <1>9 DEF MovePin, TimeComes, Connect, Disconnect, otaVars
<1>10. CASE UNCHANGED ogVars
  BY <1>1, <1>10 DEF ogVars
<1> QED BY <1>6, <1>7, <1>8, <1>9, <1>10 DEF OgNext

\* The rest of the types.
LEMMA RestInit == OgInit => RestInv
<1> SUFFICES ASSUME OgInit PROVE RestInv
  OBVIOUS
<1>1. 0 \in 0 .. MaxMoves /\ 0 \in 0 .. MaxCommands /\ 0 \in 0 .. MaxDrops
  BY OgBounds
<1> QED BY <1>1, OgBounds DEF OgInit, RestInv, NoWord, Words

\* Every step keeps them.
LEMMA RestKept == RestInv /\ [OgNext]_ogVars => RestInv'
<1> SUFFICES ASSUME RestInv, [OgNext]_ogVars PROVE RestInv'
  OBVIOUS
<1> USE OgBounds DEF RestInv
<1>0. ogWorld' = ogWorld => Configured' = Configured
  BY DEF Configured
<1>1. CASE MovePin
  <2>1. moves' \in 0 .. MaxMoves /\ pin' \in {"idle", "active"}
    BY <1>1 DEF MovePin
  <2>2. UNCHANGED <<ogWorld, sosVars, disabled, emrSent, normal, timeSet, up, drops,
                    reinit, reset, ackWait, word, commands>>
    BY <1>1 DEF MovePin, otaVars, linkVars
  <2> QED BY <1>0, <2>1, <2>2 DEF sosVars
<1>2. CASE TimeComes \/ (\E s \in Reached : Connect(s) \/ Disconnect(s))
  <2>1. timeSet' \in BOOLEAN /\ up' \subseteq Configured /\ drops' \in 0 .. MaxDrops
    <3>1. Reached \subseteq Configured
      BY DEF Reached
    <3>2. CASE TimeComes
      BY <3>2 DEF TimeComes, countVars
    <3>3. ASSUME NEW s \in Reached, Connect(s)
          PROVE  timeSet' \in BOOLEAN /\ up' \subseteq Configured /\ drops' \in 0 .. MaxDrops
      BY <3>1, <3>3 DEF Connect, countVars
    <3>4. ASSUME NEW s \in Reached, Disconnect(s)
          PROVE  timeSet' \in BOOLEAN /\ up' \subseteq Configured /\ drops' \in 0 .. MaxDrops
      BY <3>4 DEF Disconnect
    <3> QED BY <1>2, <3>2, <3>3, <3>4
  <2>2. UNCHANGED <<ogWorld, pin, sosVars, disabled, emrSent, normal, otaVars, word, moves,
                    commands>>
    BY <1>2 DEF TimeComes, Connect, Disconnect, countVars
  <2> QED BY <1>0, <2>1, <2>2 DEF sosVars, otaVars
<1>3. CASE Poll
  <2>1. heard' \in BOOLEAN /\ normal' \in BOOLEAN
    BY <1>3 DEF Poll, PollDisabled, PollActive, PollIdle, Press, Raise
  <2>2. UNCHANGED <<ogWorld, pin, disabled, emrSent, linkVars, otaVars, word, moves, commands>>
    BY <1>3 DEF Poll, PollDisabled, PollActive, PollIdle, Press, Raise
  <2> QED BY <1>0, <2>1, <2>2 DEF linkVars, otaVars
<1>4. CASE Systic
  <2>1. heard' = heard /\ normal' \in BOOLEAN
    BY <1>4 DEF Systic, NormalDue, Tick, Expire, Expired, sosVars
  <2>2. UNCHANGED <<ogWorld, pin, disabled, emrSent, linkVars, otaVars, word, moves, commands>>
    BY <1>4 DEF Systic, NormalDue, Tick, Expire, Expired
  <2> QED BY <1>0, <2>1, <2>2 DEF linkVars, otaVars
<1>5. CASE Commands
  <2>1. commands' \in 0 .. MaxCommands /\ UNCHANGED <<ogWorld, up, drops, moves, ackWait>>
    BY <1>5 DEF Commands, VReset, SosClear, TestOn, TestOff, SosDisable, Amd3, Commanded,
                otaVars, linkVars
  <2>2. UNCHANGED <<pin, emrSent, normal, timeSet, word>> /\ disabled' \in BOOLEAN
    BY <1>5 DEF Commands, VReset, SosClear, TestOn, TestOff, SosDisable, Amd3, linkVars
  <2>3. reinit' \in BOOLEAN /\ reset' \in BOOLEAN /\ heard' \in BOOLEAN
    BY <1>5 DEF Commands, VReset, SosClear, TestOn, TestOff, SosDisable, Amd3, otaVars, sosVars
  <2> QED BY <2>1, <2>2, <2>3 DEF Configured
<1>6. CASE Serve
  <2>1. CASE Restart
    BY <2>1 DEF Restart, countVars, NoWord, Words
  <2>2. CASE ReplySent \/ ReplyRefused \/ ReplyWaits \/ ReplyStored \/ NoReplyDue
    <3>1. ackWait' \in 0 .. AckWait /\ ogWorld' = ogWorld
      BY <2>2 DEF ReplySent, ReplyRefused, ReplyWaits, ReplyStored, NoReplyDue, SendReply,
                  Left, Waited, replyFrame
    <3>0. up' \subseteq up /\ reinit' \in BOOLEAN /\ reset' \in BOOLEAN
      BY <2>2 DEF ReplySent, ReplyRefused, ReplyWaits, ReplyStored, NoReplyDue, SendReply,
                  Left
    <3>2. UNCHANGED <<pin, heard, disabled, emrSent, normal, timeSet, word, moves, commands,
                      drops>>
      BY <2>2 DEF ReplySent, ReplyRefused, ReplyWaits, ReplyStored, NoReplyDue, replyFrame,
                  sosVars, countVars
    <3> QED BY <1>0, <3>0, <3>1, <3>2
  <2>3. CASE NoCommand
    BY <2>3 DEF NoCommand, sosVars, otaVars, linkVars, countVars, Configured
  <2>4. CASE AlertOn \/ AlertOff \/ AlertTamper \/ NoAlerts
    <3>1. emrSent' \subseteq {"on", "tmp"} /\ heard' \in BOOLEAN
      BY <2>4 DEF AlertOn, AlertOff, AlertTamper, NoAlerts, OffSent, sosVars
    <3>0. /\ word.alert \in {"none", "on", "off"} /\ word.emergency \in {"on", "off"}
          /\ [word EXCEPT !.alert = "on"] \in Words
      BY DEF Words
    <3>2. word' \in Words
      <4>1. CASE AlertOn
        BY <3>0, <4>1 DEF AlertOn
      <4>2. CASE AlertOff
        BY <3>0, <4>2 DEF AlertOff, Words
      <4>3. CASE AlertTamper \/ NoAlerts
        BY <4>3 DEF AlertTamper, NoAlerts
      <4> QED BY <2>4, <4>1, <4>2, <4>3
    <3> QED BY <2>4, <3>1, <3>2 DEF AlertOn, AlertOff, AlertTamper, NoAlerts, alertFrame, otaVars,
                              linkVars, Configured
  <2>5. CASE NormalPacket \/ NoNormalPacket
    <3>1. normal' \in BOOLEAN /\ heard' \in BOOLEAN /\ word' \in Words
      BY <2>5 DEF NormalPacket, NoNormalPacket, SendEmergency, Words
    <3> QED BY <2>5, <3>1 DEF NormalPacket, NoNormalPacket, normalFrame, otaVars, linkVars,
                              Configured
  <2> QED BY <1>6, <2>1, <2>2, <2>3, <2>4, <2>5 DEF Serve
<1>7. CASE UNCHANGED ogVars
  BY <1>7 DEF ogVars, countVars, Configured
<1> QED BY <1>1, <1>2, <1>3, <1>4, <1>5, <1>6, <1>7 DEF OgNext

\* The inductive invariant holds.
LEMMA OgInvHolds == OgSpec => [](ButtonInv /\ ReplyInv /\ RestInv)
  BY ButtonInit, ButtonKept, ReplyInit, ReplyKept, RestInit, RestKept, PTL DEF OgSpec

\* The SOS record, the places of the threads and the reply stay in range, in every
\* world (SOS.c, Systic.c, Server.c).
THEOREM OgTypesHold == OgSpec => []OgTypeOK
<1>1. ButtonInv /\ ReplyInv /\ RestInv => OgTypeOK
  BY DEF ButtonInv, ReplyInv, RestInv, OgTypeOK
<1> QED BY <1>1, OgInvHolds, PTL

\* The emergency and its alert agree whenever both threads are between changes, in
\* whatever order button, timeout and commands come (SOS.c, Systic.c, SMS.c).
THEOREM AlertFollowsSos == OgSpec => []AlertMatchesSos
<1>1. ButtonInv => AlertMatchesSos
  BY DEF ButtonInv, SosInv, AlertMatchesSos
<1> QED BY <1>1, OgInvHolds, PTL

\* A reset that a command ordered comes after the reply to it (handlePackets).
THEOREM ResetsAreAnswered == OgSpec => AnsweredFirst
<1>1. ReplyInv /\ ButtonInv /\ [OgNext]_ogVars =>
        [(~ At("resetting") /\ where'.server = "resetting" /\ "busy" \notin ogWorld)
             => orderer \notin due']_ogVars
  <2> SUFFICES ASSUME ReplyInv, ButtonInv, OgNext, ~ At("resetting"),
                      where'.server = "resetting", "busy" \notin ogWorld
               PROVE  due' = {}
    OBVIOUS
  <2>1. ReplySent \/ ReplyStored \/ NoReplyDue
    <3>1. \A p \in {"commands", "reply", "alerts", "normal"} : ~ Goto(p)
      BY DEF ButtonInv, Places, Goto
    <3>2. \A h : where' # [where EXCEPT !.hardware = h] /\ where' # [where EXCEPT !.systic = h]
      BY DEF ButtonInv, Places, At
    <3>3. where' # where /\ where' # AtTop
      BY DEF At, AtTop
    <3>4. ~ Poll /\ ~ Systic
      BY <3>2, <3>3 DEF Poll, PollDisabled, PollActive, PollIdle, Press, Raise, Systic,
                        NormalDue, Tick, Expire, Expired
    <3>5. ~ Commands
      BY <3>1 DEF Commands, VReset, SosClear, TestOn, TestOff, SosDisable, Amd3
    <3>6. ~ MovePin /\ ~ TimeComes /\ ~ (\E s \in Reached : Connect(s) \/ Disconnect(s))
      BY <3>3 DEF MovePin, TimeComes, Connect, Disconnect
    <3>7. /\ ~ NoCommand /\ ~ ReplyRefused /\ ~ ReplyWaits /\ ~ AlertOn /\ ~ AlertOff
          /\ ~ AlertTamper /\ ~ NoAlerts /\ ~ NormalPacket /\ ~ NoNormalPacket /\ ~ Restart
      BY <3>1, <3>3 DEF NoCommand, ReplyRefused, ReplyWaits, SendReply, AlertOn, AlertOff,
         AlertTamper, NoAlerts, NormalPacket, NoNormalPacket, Restart
    <3> QED BY <3>4, <3>5, <3>6, <3>7 DEF OgNext, Serve
  <2>2. CASE ReplySent \/ ReplyStored
    BY <2>2 DEF ReplySent, ReplyStored, SendReply, Left, ReplyInv
  <2>3. CASE NoReplyDue
    BY <2>3 DEF NoReplyDue, ReplyInv
  <2> QED BY <2>1, <2>2, <2>3
<1> QED BY <1>1, OgInvHolds, PTL DEF OgSpec, AnsweredFirst

=============================================================================
