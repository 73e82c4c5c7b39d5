------------------------------ MODULE TcpSocket ------------------------------
(***************************************************************************)
(* One of the sockets ServerSocket[] of the TCP protocols (custom/TCP.c).   *)
(* The TCP thread runs TCPSocket_Process on it every 100 ms; the modem calls *)
(* back with the answers to name lookups and connects and when the peer      *)
(* closes; the server thread, and the main thread for SMS commands, send     *)
(* packets with TCPSocket_SendString, which polls for the acknowledgement    *)
(* for up to 15 s; a SET command makes the socket anew (InitSockets).  They  *)
(* share the one TCPSocketTypedef without a lock.                            *)
(*                                                                         *)
(* The sockets do not touch each other but for the modem's descriptors,      *)
(* which are used again.  A packet is one unit of the acknowledgement count. *)
(***************************************************************************)
EXTENDS Naturals

CONSTANTS
    Hosts,      \* what DNSorIP can be set to
    Dotted,     \* ... those of Hosts that need no lookup
    NoHost,     \* m_ipaddress before a lookup
    Descs, NoDesc, \* the modem's socket ids, and -1
    Senders,    \* the threads that send
    NOACK_MAX,  \* the unacknowledged packets in a row a connection survives: 6
    DELAY_MAX,  \* the longest backoff in seconds: 60
    SILENT_SENDS, \* ... and those sent since the last answer to any, at least: 30
    MAX_SENT,   \* bound: packets sent on one connection
    Worlds      \* the conditions under which the device may run, sets of Events

Events == { "latedns",  \* a lookup is answered after its socket has moved on
            "stale",    \* a callback comes for a descriptor that was closed
            "preempt",  \* a callback runs between the return of Ql_SOC_Connect
                        \* and the assignment that follows it
            "hidden",   \* the socket is made anew between two polls of WaitAck
            "slowack",  \* an acknowledgement takes longer than WaitAck waits
            "shared" }  \* two threads send at a time

ASSUME HostAssumption == Dotted \subseteq Hosts /\ NoHost \notin Hosts
ASSUME DescAssumption == NoDesc \notin Descs
ASSUME LimitAssumption == /\ {NOACK_MAX, SILENT_SENDS, MAX_SENT} \subseteq Nat
                          /\ DELAY_MAX \in Nat /\ DELAY_MAX >= 2
ASSUME WorldsAssumption == Worlds \subseteq SUBSET Events

VARIABLES
    world,      \* the conditions of this run; nothing changes them
    host,       \* DNSorIP
    enabled,    \* isEnabled, and DNSorIP is not "NA"
    active,     \* GPRS is active and the device does not sleep
    state,      \* SocketState
    index,      \* SocketIndex
    addr,       \* whose address m_ipaddress is
    resolved,   \* rval.dnsresolved
    delay,      \* rval.reconnect_delay_ms, in seconds
    waiting,    \* ... has not passed yet
    lastAck,    \* rval.last_ack_number
    noAck,      \* rval.noackcount
    opening,    \* Ql_SOC_Connect has returned SOC_WOULDBLOCK to the TCP thread
    lookups,    \* the hosts the modem is looking up
    link,       \* the modem's view of each descriptor
    stale,      \* callbacks on their way for descriptors that were closed
    sent, acked,\* packets sent, and acknowledged, on the present connection
    pc,         \* each sender: "idle", its packet "sent", or polling: "wait"
    expected,   \* ... the count it waits for
    pos,        \* ... its packet's place among those of its connection
    mine        \* ... its connection is the present one

conf  == <<host, enabled, active>>
sock  == <<state, index, addr, resolved, delay, waiting, lastAck, noAck, opening>>
modem == <<lookups, link, stale, sent, acked>>
sends == <<pc, expected, pos, mine>>
vars  == <<world, conf, sock, modem, sends>>

States == {"CLOSED", "IDLE", "DNS_PENDING", "OPEN", "CONNECTING", "CONNECTED", "ERROR"}
Open   == {"OPEN", "CONNECTING", "CONNECTED", "ERROR"}

Init ==
    /\ world \in Worlds
    /\ host \in Hosts /\ enabled = TRUE /\ active = TRUE
    /\ state = "CLOSED" /\ index = NoDesc /\ addr = NoHost /\ resolved = FALSE
    /\ delay = 0 /\ waiting = FALSE /\ lastAck = 0 /\ noAck = 0 /\ opening = FALSE
    /\ lookups = {} /\ link = [d \in Descs |-> "free"] /\ stale = {}
    /\ sent = 0 /\ acked = 0
    /\ pc = [s \in Senders |-> "idle"]
    /\ expected = [s \in Senders |-> 0] /\ pos = [s \in Senders |-> 0]
    /\ mine = [s \in Senders |-> FALSE]

-----------------------------------------------------------------------------
Ends == mine' = [s \in Senders |-> FALSE] /\ sent' = 0 /\ acked' = 0

\* Mutant of CloseDesc: the descriptor is forgotten and not closed.
CloseDescForgets ==
    /\ index' = NoDesc
    /\ UNCHANGED <<link, stale>>
    /\ Ends

\* Ql_SOC_Close of the descriptor, if there is one.  A callback that was on its
\* way may still come.
CloseDesc ==
    /\ index' = NoDesc
    /\ IF index = NoDesc THEN UNCHANGED <<link, stale, sent, acked, mine>>
       ELSE /\ link' = [link EXCEPT ![index] = "free"]
            /\ \/ UNCHANGED stale
               \/ /\ "stale" \in world /\ link[index] \in {"connecting", "up"}
                  /\ stale' = stale \cup
                        {<<IF link[index] = "up" THEN "closed" ELSE "connected", index>>}
            /\ Ends

-----------------------------------------------------------------------------
(* TCPSocket_Process, by what it finds.                                      *)

Disabled ==
    /\ ~ enabled /\ ~ opening /\ state # "CLOSED"
    /\ CloseDesc
    /\ state' = "CLOSED"
    /\ UNCHANGED <<world, conf, addr, resolved, delay, waiting, lastAck, noAck,
                   opening, lookups, pc, expected, pos>>

Inactive ==
    /\ enabled /\ ~ active /\ ~ opening /\ state \in Open
    /\ CloseDesc
    /\ state' = "IDLE"
    /\ UNCHANGED <<world, conf, addr, resolved, delay, waiting, lastAck, noAck,
                   opening, lookups, pc, expected, pos>>

Runs(st) == enabled /\ active /\ ~ opening /\ state = st

Closed ==
    /\ Runs("CLOSED")
    /\ state' = "IDLE" /\ delay' = 0 /\ waiting' = FALSE
    /\ UNCHANGED <<world, conf, index, addr, resolved, lastAck, noAck, opening,
                   modem, sends>>

\* The senders have polled since the last connection ended.
Polled == \A s \in Senders : pc[s] # "idle" => mine[s]

\* The backoff is over; it is at least 2 s, and WaitAck polls every 100 ms.
Rested ==
    /\ waiting /\ Polled
    /\ waiting' = FALSE
    /\ UNCHANGED <<world, conf, state, index, addr, resolved, delay, lastAck,
                   noAck, opening, modem, sends>>

\* The socket made in IDLE, with the old one, if any, closed first.
Create(d) ==
    /\ Runs("IDLE") /\ (delay = 0 \/ ~ waiting)
    /\ "hidden" \in world \/ Polled
    /\ d \in Descs /\ (link[d] = "free" \/ d = index)
    /\ index' = d
    /\ link' = [x \in Descs |-> IF x = d THEN "idle"
                                ELSE IF x = index THEN "free" ELSE link[x]]
    /\ IF index = NoDesc THEN UNCHANGED <<sent, acked, mine>> ELSE Ends
    /\ UNCHANGED <<world, conf, delay, lastAck, noAck, opening, stale, pc,
                   expected, pos>>

\* The address is known, or the lookup answered at once ...
IdleResolved(d) ==
    /\ Create(d)
    /\ addr' = host
    /\ resolved' = TRUE
    /\ state' = "OPEN"
    /\ UNCHANGED <<lookups, waiting>>

\* Mutant of IdleLookup: the last answer is kept.
IdleLookupKeepsAnswer(d) ==
    /\ Create(d) /\ host \notin Dotted
    /\ UNCHANGED <<addr, resolved>>
    /\ lookups' = lookups \cup {host}
    /\ \/ state' = "DNS_PENDING" /\ waiting' = (delay > 0)
       \/ "latedns" \in world /\ state' = "OPEN" /\ UNCHANGED waiting

\* ... or later, whether the modem says so or takes the lookup for done ...
IdleLookup(d) ==
    /\ Create(d) /\ host \notin Dotted
    /\ addr' = NoHost /\ resolved' = FALSE
    /\ lookups' = lookups \cup {host}
    /\ \/ state' = "DNS_PENDING" /\ waiting' = (delay > 0)
       \/ "latedns" \in world /\ state' = "OPEN" /\ UNCHANGED waiting

\* ... or there is no socket, or no lookup.
IdleFails ==
    /\ \/ /\ Runs("IDLE") /\ (delay = 0 \/ ~ waiting)
          /\ CloseDesc
          /\ UNCHANGED <<world, conf, addr, resolved, delay, lastAck, noAck,
                         opening, pc, expected, pos>>
       \/ /\ \E d \in Descs : Create(d)
          /\ host \notin Dotted
          /\ addr' = NoHost /\ resolved' = FALSE
    /\ state' = "ERROR"
    /\ UNCHANGED <<lookups, waiting>>

DnsPending ==
    /\ Runs("DNS_PENDING")
    /\ state' = "ERROR" \/ (resolved /\ state' = "OPEN")
    /\ UNCHANGED <<world, conf, index, addr, resolved, delay, waiting, lastAck,
                   noAck, opening, modem, sends>>

\* Ql_SOC_Connect: at once ...
OpenConnects ==
    /\ Runs("OPEN")
    /\ link' = [link EXCEPT ![index] = "up"]
    /\ state' = "CONNECTED" /\ lastAck' = 0 /\ noAck' = 0
    /\ UNCHANGED <<world, conf, index, addr, resolved, delay, waiting, opening,
                   lookups, stale, sent, acked, sends>>

\* ... or later ...
OpenPending ==
    /\ Runs("OPEN")
    /\ link' = [link EXCEPT ![index] = "connecting"]
    /\ \/ "preempt" \in world /\ opening' = TRUE /\ UNCHANGED <<state, waiting>>
       \/ state' = "CONNECTING" /\ waiting' = (delay > 0) /\ UNCHANGED opening
    /\ UNCHANGED <<world, conf, index, addr, resolved, delay, lastAck, noAck,
                   lookups, stale, sent, acked, sends>>

OpenAssigns ==
    /\ opening
    /\ state' = "CONNECTING" /\ opening' = FALSE
    /\ waiting' = (delay > 0)
    /\ UNCHANGED <<world, conf, index, addr, resolved, delay, lastAck, noAck,
                   modem, sends>>

\* ... or not at all.
OpenFails ==
    /\ Runs("OPEN")
    /\ state' = "ERROR"
    /\ UNCHANGED <<world, conf, index, addr, resolved, delay, waiting, lastAck,
                   noAck, opening, modem, sends>>

\* Mutant of ConnectingTimesOut: without the timeout.
ConnectingWaits == FALSE /\ UNCHANGED vars

ConnectingTimesOut ==
    /\ Runs("CONNECTING")
    /\ state' = "ERROR"
    /\ UNCHANGED <<world, conf, index, addr, resolved, delay, waiting, lastAck,
                   noAck, opening, modem, sends>>

\* Nothing heard for 10 minutes after so many packets: a zombie.  (The server
\* need not have been silent about each of them.)
Connected ==
    /\ Runs("CONNECTED")
    /\ delay' = 0 /\ waiting' = FALSE
    /\ \/ UNCHANGED state
       \/ sent >= SILENT_SENDS /\ state' = "ERROR"
    /\ UNCHANGED <<world, conf, index, addr, resolved, lastAck, noAck, opening,
                   modem, sends>>

NextDelay == IF delay = 0 THEN 2
             ELSE IF 2 * delay > DELAY_MAX THEN DELAY_MAX ELSE 2 * delay

Error ==
    /\ Runs("ERROR")
    /\ CloseDesc
    /\ lastAck' = 0 /\ noAck' = 0
    /\ delay' = NextDelay /\ waiting' = TRUE
    /\ state' = "IDLE"
    /\ UNCHANGED <<world, conf, addr, resolved, opening, lookups, pc, expected, pos>>

-----------------------------------------------------------------------------
(* The modem's callbacks.  Those for a descriptor look the socket up by its  *)
(* SocketIndex, dns_cb by its SocketNo.                                      *)

InTime(h) == state = "DNS_PENDING" /\ h = host

DnsAnswers(h) ==
    /\ h \in lookups
    /\ "latedns" \in world \/ InTime(h)
    /\ lookups' = lookups \ {h}
    /\ \/ addr' = h /\ resolved' = TRUE /\ UNCHANGED state
       \/ resolved' = FALSE /\ state' = "ERROR" /\ UNCHANGED addr
    /\ UNCHANGED <<world, conf, index, delay, waiting, lastAck, noAck, opening,
                   link, stale, sent, acked, sends>>

\* An answer that never comes, or comes in time for nobody.
DnsSilent(h) ==
    /\ h \in lookups
    /\ lookups' = lookups \ {h}
    /\ UNCHANGED <<world, conf, sock, link, stale, sent, acked, sends>>

OnConnect == state' = "CONNECTED" /\ lastAck' = 0 /\ noAck' = 0

ConnectAnswered ==
    /\ index # NoDesc /\ link[index] = "connecting"
    /\ \/ link' = [link EXCEPT ![index] = "up"] /\ OnConnect
       \/ /\ link' = [link EXCEPT ![index] = "idle"]
          /\ state' = "ERROR" /\ UNCHANGED <<lastAck, noAck>>
    /\ UNCHANGED <<world, conf, index, addr, resolved, delay, waiting, opening,
                   lookups, stale, sent, acked, sends>>

\* callback_socket_close: the descriptor is gone.
OnClose ==
    /\ index' = NoDesc /\ lastAck' = 0 /\ noAck' = 0
    /\ state' = "IDLE"
    /\ Ends

PeerCloses ==
    /\ index # NoDesc /\ link[index] \in {"up", "lost"}
    /\ link' = [link EXCEPT ![index] = "free"]
    /\ OnClose
    /\ UNCHANGED <<world, conf, addr, resolved, delay, waiting, opening, lookups,
                   stale, pc, expected, pos>>

StaleConnect(d) ==
    /\ <<"connected", d>> \in stale
    /\ stale' = stale \ {<<"connected", d>>}
    /\ IF d = index THEN OnConnect ELSE UNCHANGED <<state, lastAck, noAck>>
    /\ UNCHANGED <<world, conf, index, addr, resolved, delay, waiting, opening,
                   lookups, link, sent, acked, sends>>

\* (The descriptor the socket has by now stays open in the modem.)
StaleClose(d) ==
    /\ <<"closed", d>> \in stale
    /\ stale' = stale \ {<<"closed", d>>}
    /\ IF d = index THEN OnClose
       ELSE UNCHANGED <<state, index, lastAck, noAck, sent, acked, mine>>
    /\ UNCHANGED <<world, conf, addr, resolved, delay, waiting, opening, lookups,
                   link, pc, expected, pos>>

\* The other end is gone and nobody says so; a read or write error may.
LinkDies ==
    /\ index # NoDesc /\ link[index] \in {"connecting", "up"}
    /\ link' = [link EXCEPT ![index] = "lost"]
    /\ UNCHANGED <<world, conf, sock, lookups, stale, sent, acked, sends>>

ReadError ==
    /\ index # NoDesc /\ link[index] = "lost" /\ state = "CONNECTED"
    /\ state' = "ERROR"
    /\ UNCHANGED <<world, conf, index, addr, resolved, delay, waiting, lastAck,
                   noAck, opening, modem, sends>>

PeerAcks ==
    /\ index # NoDesc /\ link[index] = "up" /\ acked < sent
    /\ acked' = acked + 1
    /\ UNCHANGED <<world, conf, sock, lookups, link, stale, sent, sends>>

-----------------------------------------------------------------------------
(* TCPSocket_SendString.                                                     *)

Send(s) ==
    /\ pc[s] = "idle" /\ ("shared" \in world \/ \A t \in Senders : pc[t] = "idle")
    /\ state = "CONNECTED" /\ index # NoDesc
    /\ sent < MAX_SENT
    /\ \/ /\ link[index] \in {"up", "lost"}
          /\ sent' = sent + 1
          /\ pc' = [pc EXCEPT ![s] = "sent"]
          /\ pos' = [pos EXCEPT ![s] = sent + 1]
          /\ mine' = [mine EXCEPT ![s] = TRUE]
          /\ UNCHANGED <<state, expected>>
       \/ state' = "ERROR" /\ UNCHANGED <<sent, sends>>
    /\ UNCHANGED <<world, conf, index, addr, resolved, delay, waiting, lastAck,
                   noAck, opening, lookups, link, stale, acked>>

\* WaitAck begins, on a socket that is still connected ...
WaitBegins(s) ==
    /\ pc[s] = "sent" /\ state = "CONNECTED"
    /\ pc' = [pc EXCEPT ![s] = "wait"]
    /\ expected' = [expected EXCEPT ![s] = lastAck + 1]
    /\ UNCHANGED <<world, conf, sock, modem, pos, mine>>

\* Ql_SOC_GetAckNumber answers for a descriptor that is open.
Answers == index # NoDesc

Returns(s) ==
    /\ pc' = [pc EXCEPT ![s] = "idle"] /\ mine' = [mine EXCEPT ![s] = FALSE]
    /\ expected' = [expected EXCEPT ![s] = 0] /\ pos' = [pos EXCEPT ![s] = 0]

\* ... or returns at once, and the failure is not counted.
AckSkipped(s) ==
    /\ pc[s] = "sent" /\ state # "CONNECTED"
    /\ lastAck' = (IF Answers THEN acked ELSE lastAck)
    /\ Returns(s)
    /\ UNCHANGED <<world, conf, state, index, addr, resolved, delay, waiting,
                   noAck, opening, modem>>

\* Mutant of AckSeen: the count is not kept for the next packet.
AckSeenForgets(s) ==
    /\ pc[s] = "wait" /\ Answers /\ acked >= expected[s]
    /\ noAck' = 0
    /\ Returns(s)
    /\ UNCHANGED <<world, conf, state, index, addr, resolved, delay, waiting,
                   lastAck, opening, modem>>

AckSeen(s) ==
    /\ pc[s] = "wait" /\ Answers /\ acked >= expected[s]
    /\ noAck' = 0 /\ lastAck' = acked
    /\ Returns(s)
    /\ UNCHANGED <<world, conf, state, index, addr, resolved, delay, waiting,
                   opening, modem>>

\* Neither answer nor acknowledgement for 15 s.
Unacked(s) ==
    Answers => acked < expected[s] /\ (link[index] # "up" \/ "slowack" \in world)

\* The packet counts as sent all the same when the socket is connected by then.
AckFails(s) ==
    /\ pc[s] = "wait" /\ Unacked(s)
    /\ IF noAck + 1 > NOACK_MAX THEN state' = "ERROR" /\ noAck' = 0
                                ELSE UNCHANGED state /\ noAck' = noAck + 1
    /\ lastAck' = (IF Answers THEN acked ELSE lastAck)
    /\ Returns(s)
    /\ UNCHANGED <<world, conf, index, addr, resolved, delay, waiting, opening,
                   modem>>

-----------------------------------------------------------------------------
(* The rest of the device.                                                   *)

\* TCP_CloseALLSockets before an update and a power-off.
CloseAll ==
    /\ enabled' = FALSE
    /\ IF state \in Open /\ index # NoDesc
       THEN CloseDesc /\ state' = "IDLE"
       ELSE UNCHANGED <<state, index, link, stale, sent, acked, mine>>
    /\ UNCHANGED <<world, host, active, addr, resolved, delay, waiting, lastAck,
                   noAck, opening, lookups, pc, expected, pos>>

\* ReinitSingleSocket after a SET command, or InitSockets.
Reinit(h, e) ==
    /\ CloseDesc
    /\ state' = "CLOSED"
    /\ host' = h /\ enabled' = e
    /\ UNCHANGED <<world, active, addr, resolved, delay, waiting, lastAck, noAck,
                   opening, lookups, pc, expected, pos>>

ActiveChanges ==
    /\ active' = ~ active
    /\ UNCHANGED <<world, host, enabled, sock, modem, sends>>

-----------------------------------------------------------------------------
Process ==
    \/ Disabled \/ Inactive \/ Closed \/ Rested
    \/ \E d \in Descs : IdleResolved(d) \/ IdleLookup(d)
    \/ IdleFails \/ DnsPending
    \/ OpenConnects \/ OpenPending \/ OpenAssigns \/ OpenFails
    \/ ConnectingTimesOut \/ Connected \/ Error

Callbacks ==
    \/ \E h \in Hosts : DnsAnswers(h) \/ DnsSilent(h)
    \/ ConnectAnswered \/ PeerCloses \/ ReadError
    \/ \E d \in Descs : StaleConnect(d) \/ StaleClose(d)

Network == LinkDies \/ PeerAcks

Polling(s) == WaitBegins(s) \/ AckSkipped(s) \/ AckSeen(s) \/ AckFails(s)

Sending(s) == Send(s) \/ Polling(s)

Device == ActiveChanges \/ CloseAll \/ \E h \in Hosts, e \in BOOLEAN : Reinit(h, e)

Next == Process \/ Callbacks \/ Network \/ Device \/ \E s \in Senders : Sending(s)

Spec == Init /\ [][Next]_vars

Attempts  == \E d \in Descs : IdleResolved(d) \/ IdleLookup(d)
Resolves  == InTime(host) /\ DnsAnswers(host) /\ resolved'
Takes     == DnsPending /\ state' = "OPEN"
Succeeds  == (OpenConnects \/ ConnectAnswered) /\ state' = "CONNECTED"

\* The TCP thread and the senders keep running; a name is resolved, and a server
\* answers, at the latest when it has been tried again and again.  The TCP thread
\* looks at a pending lookup a hundred times before that times out.
FairSpec ==
    /\ Spec
    /\ WF_vars(Closed) /\ WF_vars(Rested) /\ WF_vars(ConnectingTimesOut)
    /\ WF_vars(Error) /\ WF_vars(OpenAssigns) /\ WF_vars(DnsPending)
    /\ WF_vars(OpenConnects \/ OpenPending \/ OpenFails)
    /\ \A s \in Senders : WF_vars(Polling(s))
    /\ SF_vars(Attempts) /\ SF_vars(Resolves) /\ SF_vars(Takes) /\ SF_vars(Succeeds)

-----------------------------------------------------------------------------
ConfOK  == host \in Hosts /\ {enabled, active} \subseteq BOOLEAN
StateOK == state \in States /\ index \in Descs \cup {NoDesc} /\ addr \in Hosts \cup {NoHost}
FlagsOK == {resolved, waiting, opening} \subseteq BOOLEAN
WaitOK  == delay \in 0..DELAY_MAX
ModemOK == /\ lookups \subseteq Hosts
           /\ link \in [Descs -> {"free", "idle", "connecting", "up", "lost"}]
           /\ stale \subseteq {"connected", "closed"} \X Descs
CountOK == /\ lastAck \in 0..MAX_SENT /\ noAck \in 0..NOACK_MAX
           /\ sent \in 0..MAX_SENT /\ acked \in 0..sent
SendsOK == /\ pc \in [Senders -> {"idle", "sent", "wait"}] /\ mine \in [Senders -> BOOLEAN]
           /\ expected \in [Senders -> 0..(MAX_SENT + 1)] /\ pos \in [Senders -> 0..MAX_SENT]

\* The backoff and the failures keep their limits, and no more is acknowledged
\* than was sent.
TypeOK ==
    /\ world \in Worlds
    /\ ConfOK /\ StateOK /\ FlagsOK /\ WaitOK /\ ModemOK /\ CountOK /\ SendsOK

Without(events) == world \cap events = {}

\* A socket that says it is connected has a descriptor on which a connection was
\* made, dead or alive, however callbacks, restarts, errors and SET commands
\* follow each other; unless a callback for a closed descriptor comes late, when
\* the modem has given its number to the next one.
ConnectedIsUp ==
    Without({"stale"}) /\ state = "CONNECTED" =>
        index # NoDesc /\ link[index] \in {"up", "lost"}

\* Every descriptor of the modem that is in use is the socket's own: no way out of
\* a connection leaves one behind (the modem has few).
NoDescriptorLeaks ==
    Without({"stale"}) => \A d \in Descs : link[d] # "free" => d = index

\* The socket's descriptor is the one in use, and its state is the connection's.
DescriptorIsSound == ConnectedIsUp /\ NoDescriptorLeaks

\* A connection is tried to the host that is configured now, whenever SET commands
\* change it and lookups end; unless a lookup is answered after its time.
ConnectsToHost ==
    [][Without({"latedns"}) /\ (OpenConnects \/ OpenPending) => addr = host]_vars

\* The acknowledgement a sender takes for its packet's covers its packet, and is
\* of the connection it was sent on, also when the socket is made anew between
\* two of its polls; when one thread sends at a time, and acknowledgements and
\* callbacks are prompt.
AckIsMine ==
    [][Without({"slowack", "shared", "stale"}) =>
         \A s \in Senders : AckSeen(s) => mine[s] /\ acked >= pos[s]]_vars

\* As long as GPRS is up, the server is enabled and not set anew, the socket gets
\* connected again, whatever failed before; unless late callbacks have used up the
\* modem's descriptors.
Reconnects ==
    /\ <>[](enabled /\ active /\ Without({"stale"}))
    /\ <>[][\A h \in Hosts, e \in BOOLEAN : ~ Reinit(h, e)]_vars
    => []<>(state = "CONNECTED")
=============================================================================
