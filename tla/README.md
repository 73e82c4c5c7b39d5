# InnoVTSM66: specifications and proofs

The repository is the firmware of a vehicle tracker: the application on a Quectel
M66 modem (`custom/`), and the application and boot loader of the Nuvoton M031
microcontroller on the same board (`QuectelM031-main/`).  The device makes position,
alert and health packets, delivers them to up to a handful of servers over HTTP or TCP, and
keeps what it cannot deliver in flash.  These specifications are about that delivery
(what is lost, sent twice, sent to the wrong place, stuck), about the updates of modem and
microcontroller (what can leave a board without a program, or a download without an end), about
the emergency button and the replies to commands, and about the recovery that is to end every
hang and nothing else.

Line numbers are those of the files in this repository; a path without a directory is
in `custom/`.

## 1. The system

### Threads and what they share

The modem runs its application in preemptive tasks: `proc_main_task` (start-up, SMS
commands, the serial console), `GPRSThreadEntry`, `SysticThreadEntry`,
`mcu_rcv_thread`, `gps_thread_entry`, `HardwareThreadEntry`, `ServerThreadEntry`, and
either `HTTPThreadEntry` (protocol CDAC) or `TCPThreadEntry` (the others; the checked-in
`custom_proto_cfg.h` selects `PROTO_OG`).  The modem's core calls back for sockets, name
lookups, GPRS and timers.  **The tasks share plain globals.  There is no mutex or
semaphore around any of the state below**; where the code says "lock" it is a flag that is
polled.  That is why most of the models are about interleavings.

### Components

| component | state | operations | works with |
|---|---|---|---|
| Packet store, CDAC (`Batch.c`) | `FTable` in RAM, index file, data file: a ring of slots | `StoreFileToFlash`, `ReadDataBatchExt`, `DeleteDataBatchSlot`, `ClearBatchStorage` | HTTP queue (stores), server thread (uploads) |
| Upload, CDAC (`GetBatchData`, `MakeBatchPacket` in `Server.c`) | the slots picked | scan, post, delete | store, transport |
| HTTP queue (`HttpQueue.c`) | ring of items, `busy`, `sending`, `queue_send_start_ms`, `g_httpQueuePaused` | `Add`, `ReplaceLatestNormal`, `Process`, `AbortSend`, `Pause`/`Resume` | server thread (adds), HTTP thread (posts), store (evictions) |
| HTTP transport (`HTTP.c`, `SendDataToServer`) | `HTTPUrl`, `HTTPState`, `IsHTTPRes`, `IsSendProcess`, the breaker's `server1_*` | setup, post, close, arm | queue, uploads, emergencies; the modem's one HTTP session |
| History, TCP protocols (`PktSave.c`) | `BK_<n>.bin`, `BkCount.bin`, `PacketConfig.LastPkt` | `SavePacket`, `ReadLastPacket`, `DeleteLastPacket`, `DeleteAllPackets`, `ClearHistoryStorage` | server thread, `File.c` |
| TCP sockets (`TCP.c`) | `ServerSocket[]`: state, descriptor, address, backoff, acknowledgement counters | `TCPSocket_Process`, `TCPSocket_SendString`, the callbacks, `ReinitSingleSocket` | server and main threads (send), modem |
| MCU update (`MOTA.c`, `MCU.c`; `MOTA.c`, `MComm.c`, `Boot.c` of the MCU; boot loader) | transfer position, `IsSent`, answer flags; expected chunk, SPI flash, `BootConfig`, program flash | `mota_start`, `SendAllChunksDirect`, `mota_end`; `ProcessFirmwareUpdateSM`, `SetUpdateREQ`; `FlashNewApp` | every thread that sends a frame to the MCU |
| Server thread (`Server.c`) | intervals, flags, emergency state | chooses, makes and hands over packets | all of the above |
| GPRS and SIM profiles (`GPRS.c`) | `GSM.GSMState`, `prfReq`, `RegDenytemp`; in flash the current profile, the last active one and the failure counts | registration, activation, choice of a profile, switch with verification and retry | modem callbacks, `Systic.c` (timer), `SMS.c` (commands), every thread that waits for `prfReq == NONE` |
| Recovery (`SystemRecovery.c`, `Systic.c`) | the modem's watchdog, `s_lastTaskCheckInMs`, `s_lastGpsOkMs`, `s_lastServerOkMs`, `ServerThreadTimeout`, `s_ftpExemptSecs` | feed after checks, count the seconds of the server thread, reset, power down | every thread; the modem |
| SOS and alerts (`SOS.c`, `Alert.c`, `CheckAlerts`) | the record `SOS`, `VAlert[].Enable`, `IsEMRSend`, `IsEMRTSend` | press, tamper, time out, clear, alert and emergency packets | hardware, system-tick, server and main threads; sockets, SMS |
| FTP and FOTA (`FTP.c`) | `DownloadReq` in RAM and flash, `FTPState`, `FTPDownloadState`, `IsFotaProcessing`, `IsMotaProcessing` | order, attempt, login, get, verify, install, resume at the start | callbacks of the modem, GPRS, sockets (disabled for an update), MCU update |
| Commands (`SMS.c`, `SMSLib.c`) | configuration, `LastOTAResponse`, `AIS140ResetPending` | SET, GET, CLR, CMD, AMD3, VRESET; the reply and what waits for it | everything |
| Geofence (`Geofence.c`) | fences, inside/outside with hysteresis | evaluate, arm | alerts |
| GPS, NMEA, EPO; hardware, sensors, LEDs, BLE; formatting | samples | parse, sample, drive | packets |

### What is hard about it

* Data read before a post that takes seconds and used after it (slot numbers, the head of
  the queue, the URL).
* Flags tested and set in two steps by two threads.
* Files that are emptied before they are rewritten, and the power that may go in between.
* Answers that come late: name lookups, connects, closes, acknowledgements, frames.
* Retries of what may already have been done; timeouts that let go of what is in use.
* A store, a queue and a history that run full.
* Heartbeats of threads that may be busy for minutes; timers that stand still while their
  check is bypassed; a reset or a power-down that itself gets stuck.
* Restarts in the middle of an order, which the record in flash is to finish and not repeat.

`PROJECT.json` lists each of these as a hazard at its line, with the properties that would
catch it.

### What makes each component correct

* **Store**: what is stored is found again until it is delivered or is the oldest of a full
  ring; the index survives faults in a state the firmware accepts; it runs empty.
* **Queue**: a packet is in one place; none vanishes; what is taken off is what was posted;
  emergencies are posted alone; nothing stays for ever.
* **Transport**: the post goes to the server meant; "delivered" means answered; the breaker
  closes again.
* **History**: a stack, with a count that covers what is owed, and no second delivery.
* **Socket**: connected means connected, no descriptor leaks, the acknowledgement is one's
  own, it reconnects.
* **Profiles**: the device knows the profile its SIM is in; it does not choose a blacklisted one
  of itself; a profile gets its full window before it is left; it gets through if any profile is
  good, and gives none up for ever if none is.
* **Recovery**: a thread that hangs is ended within a bound, in a transfer too; no reset comes
  before its time; a power-down and an ordered reset come to their end.
* **FOTA**: attempts are bounded across restarts; what is installed is whole; every way out puts
  everything back; every order ends.
* **SOS**: alert and emergency agree; somebody hears of an emergency whichever servers are down;
  server 1 is told how it ended.
* **Commands**: the reply goes out before the reset it orders, on the way the command came.
* **MCU update**: the board always has a program; the report is true, comes, and is followed
  by the update.

## 2. The modules

| module | models | proofs |
|---|---|---|
| `OfflineStack` | what a store for undelivered packets promises: a bounded stack that refuses or gives up its oldest when full | |
| `BatchStore` | the ring and its index, one call at a time, with faults and power cuts | `BatchStoreProofs` |
| `BatchUpload` | extends `BatchStore`: upload and store by two threads, step by step | `BatchStoreProofs` |
| `HttpQueue` | the queue and its two threads, with batches and emergencies | `HttpQueueProofs` |
| `HttpTransport` | `SendDataToServer` by two threads over one session, and the breaker | `HttpTransportProofs` |
| `PktSave` | the history, each file operation a step | `PktSaveProofs` |
| `TcpSocket` | a socket, the TCP thread, two senders, callbacks, SET commands | `ServerProofs` |
| `McuUpdate` | modem, MCU application and boot loader | `FirmwareProofs` |
| `Profiles` | the GPRS thread from SIM detection to activation, the choice of a profile and the switch, with callbacks, timer, commands and power cuts | `ProfilesProofs` |
| `Recovery` | the watchdog and its feeding, the three checks, the count of seconds, resets and the power-down, second by second | `RecoveryProofs` |
| `Fota` | an order for a download, its attempts, the modem's callback, the installation, the record in flash and restarts | `FirmwareProofs` |
| `OgServer` | the loop of the server thread in the OG build, with the emergency button, its alerts and the replies to commands | `ServerProofs` |
| `MC*` | the instances TLC checks: sizes, worlds, networks, symmetry | |

`PROJECT.json` "map" gives the source lines of every definition.

### Conventions

* **An action is what the code does from one point where another thread, the modem or a
  power cut may come in to the next.**  In `BatchStore` that is a whole call, because the
  store alone is the subject; in `BatchUpload` it is the part of a call between two uses of
  `FTable`; in `HttpQueue` what is done under the lock; in `HttpTransport` what is done between two AT
  commands; in `PktSave` a file operation.
* **Data is a name.**  A packet, an image, a host is a model value.  Names of packets are
  used again once a packet is gone, so a small set of them is enough.
* **Worlds.**  Much of what the code does right it does right only under conditions: no
  preemption inside `WaitLock`, a queue that is not full, one send at a time.  Each module has
  a set `Events` of what may happen, and a variable `world`, a subset of it chosen by `Init`
  out of the constant `Worlds` and never changed.  (In `McuUpdate` and `OgServer` these and the
  specification carry the module's name, `mcuWorld`, `OgEvents`, `McuSpec`, because one module of proofs
  extends them together with another module.)  An event outside the world does not
  happen.  A property says in which worlds it holds, and so one run covers the calm
  device and the rough one, and the property that needs calm is not vacuous in it.
  `Worlds` is a constant: the theorems hold for every choice of it.  Where
  a property fails outside its worlds, section 5 tells the sequence.
* **Ghost variables**: `owed` (packets stored or handed over and neither delivered nor
  given up) and `delivered`, `foreign`, `answered`, `pos`, `mine`, `motaReport`.  No action's
  guard depends on them, but for `answered`'s use by properties only, `foreign`, which stands for
  the IMEI in the packet's bytes, and the bound on `motaOrders`.
* **Mutants.**  A definition `X` that a run is to be sensitive to is preceded by a variant with a
  plausible bug (`XStays`, `XEarly`, ...).  Nothing uses it; replacing the body of
  `X` by it makes the property listed with it in `PROJECT.json` fail.

### Module by module

**`BatchStore`.**  `table` is `FTable`, `index` is `BatchIndex.bin`, `data` is
`BatchFile.bin`.  `Reload` is `ReadFileTable` (a rejected index reads as an empty one; `ReloadFails` and
`StoreUnread` are the calls in which a sound one could not be read, and is replaced by an empty one),
`Store`/`StoreFails`/`StoreCut` are `StoreFileToFlash` done, failed, and cut between its two
writes; `Delete` is `DeleteDataBatchSlot` (of any slot; `UploadSpec` deletes as the upload picks); `Repair` is the end of a scan that matched nothing
and corrects the count; `Clear` is `ClearBatchStorage`; `Reboot` loses the RAM.
`UpdateFileTable` includes the format-and-retry of a failed create.  The count is a
`uint16_t`: decrementing 0 gives 65535.

**`BatchUpload`.**  `StoreLoad`, `StoreData`, `StoreMark` are the steps of
`StoreFileToFlash`; `MakeBatch` picks as `MakeBatchPacket` does (newest alerts, then newest
normal packets, passing over foreign IMEIs); `SendSucceeds`, then `DeleteLoad` and
`DeleteWrite` for each slot.  Both threads use the one `table`.

**`HttpQueue`.**  `pc` says where each thread is; `Got`/`TimedOut` say where each call of
`HttpQueue_WaitLock` goes on.  `busy`, `saw` and `hasLock` are the lock, who has seen it
free, and who holds it.  The HTTP thread is `HttpQueue_Process` with the watchdog at its
top, expiry, a burst of posts, retries, eviction.  The server thread adds (evicting the oldest
when full), replaces, uploads batches and posts emergencies (`Emergency`, `EmergencyClear`
or `AbortSend`, `EmergencyEnds`).  A post itself is `SendBegins` and an end; how it goes is
`HttpTransport`'s subject.

**`HttpTransport`.**  `call[t]` are the locals of a thread's `SendDataToServer`; the session
variables are the globals of `HTTP.c`.  `SetupPrepare`, `SetupCheck`, `SetupUrl` are
`HTTP_Setup`; `PostReady`, `PostRefresh`, `PostAnswered`/`PostFailed` are `HTTP_Post`;
`AnswerSeen`/`AnswerTimesOut` the wait on `IsHTTPRes`; `Breaker` the circuit breaker; `Vlt` to
`VltEnd` the second server; `ArmBegin` to `FollowState` is `HTTPThreadEntry`; `CloseSession`
the end of a burst and `AbortSend`.

**`PktSave`.**  `pc` is the operation under way.  `Save`, `SaveWritten`, then `OpenCount`,
`WriteCount` (`SaveToFlash`); `ReadLast`, `Invalid`, `SendSucceeds`, `SendFails`,
`DeleteLast` are `ProcessHistoryPacket`; `ClearBegins`... `CLR HISTORY`;
`SweepBegins`, `Sweep` are `ClearHistoryStorage`.  `CheckPacketCount` reads the count, and a count that
cannot be read is made anew, which may fail too.  In the world `unread` packets are saved before the
count was read (`CountIsRead`).  `PowerCut` may come at each step that is in
the world.

**`TcpSocket`.**  The actions of `Process` are the branches of `TCPSocket_Process`, by
`SocketState`; `link` is the modem's view of each descriptor, `lookups` and `stale` the
callbacks under way.  `Send` (with its failures on a link that is up), `WaitBegins`, `AckSkipped` (the
socket is no longer connected when `WaitAck` begins), `AckSeen`, `AckFails` are `TCPSocket_SendString` and `WaitAck`.
`Reinit` is a SET command, `CloseAll` the close before an update.  The sockets share only
the modem's descriptors, so one is modelled.

**`McuUpdate`.**  `down` is the frame on its way to the MCU, `up` the answers on theirs.  The
modem's side is `OrderMota` (`OrderFails` when there is no file to send, or one of too many chunks) to `EndTimesOut`; the application's `McuStart` to `McuResets`; the
boot loader's `BootNoUpdate` to `BootCopied`; `AppStarts` erases the SPI flash and resets the
modem, as the MCU's `Init` does.  `SetUpdateREQ` is made with the last chunk, as in the code, not with
`FWEND`.  `size` is modulo 2^16 bytes (`WRAP` chunks).  `PowerFails` is a power cut of the whole board.
An image ordered after the start of one that was never sent is the world `begun`, a second image over the
first `again`; in the world `spi` the SPI flash of the MCU does not answer: what is written is lost, and the boot
loader, which finds no flash, takes the request back.

**`Profiles`.**  `cur` and `fails` are `VTSState.CurrentProfile` and `ProfileFailCount`, `active` is
`ActiveProfile.bin`, `prfReq` the request that registration, activation, timer and commands write, `gsm` is `GSM.GSMState`.
`thread.pc` is the place in `GPRSThreadEntry`: one round of its loop is the action for the
state (`DetectSim`; `Register*` for `ProcessREGISTER`; `Activate*`, `Wait*`, `HasAddress`,
`NoAddress` for `ActivateGPRS` and `Score*` for what the loop makes of its result;
`StayActive`), followed by `CheckprfReq` (`CheckNothing`, `CheckRequest`, `StkReady`,
`CommandSent`, `SwitchVerified`, `SwitchSaved`, `SwitchDone` and the ways it fails).
`ProcessREGISTER` calls `CheckprfReq` itself when it has been refused for long enough;
`thread.nested` says so.  The steps are cut where the thread sleeps or waits, so the callbacks
(`Activated`, `Refused`, `ActivatedLate`, `Deactived`), the timer, a command or the power may come in.
`net` says what each profile is good for: not on the SIM, refused, registered without data, or
good.  A SIM that has the profile changes to it within the 5 s that `SwitchProfile` waits; one
that does not keeps its IMSI.

**`Recovery`.**  Time passes in seconds: `Tick` ends one in which every thread that no call holds up has
gone round (`ran`), and chooses who is held up and what the checks find in the next (`around`).  A time
stamp is its age.  `FeedBooting`, `FeedWithheld`, `GpsFaultReset`, `ConnectionReset` and `Feed` are the ways through
`SystemRecovery_FeedWatchdog`; `CountSecond` and `HangReset` are `ProcessServerThreadTimeout`;
`LowBattery`, `StopWatchdog`, `PowerDown` the power-down; `RequestReset` feeds the watchdog once and
leaves its thread in `Ql_Reset`.  `quiet`, `faultFor`, `downFor`, `transferFor` are ghosts: how long it has really been.

**`Fota`.**  `pc` is the place in `FTPStart`, `FTP_DownloadFile` and the installation; one step for each AT command,
file operation or wait.  `req` and `flash` are `DownloadReq` and its record, which `Attempt` (`PreFTPRoutine`)
writes before it starts and `Downloaded` before it installs.  `job` is the modem's download, `late` the
reports of those given up, and `Callback` is what either does to the one pair of globals.  A power
cut may come at each step; one in a write may leave no record.  `tries`, `resumed` are ghosts.

**`OgServer`.**  Three threads at the `SOS` record: `Poll*`, `Press` and `Raise` are `ProcessSOS`; `Tick`,
`Expire`, `Expired` the system tick; the server thread goes through commands, reply, alerts and
position packet in turn.  `Press` and `Expire` change the record in two steps with nothing between that
excludes others; they are apart in the model, and `Alone` joins them but in the world `preempt`.  `heard`, `word`, `due` and
`orderer` are ghosts: what reached whom; `word` holds the last alert packet of server 1 and the last packet
of the emergency, begun (`EmergencyPacket(1)`) or ended (`EmergencyPacket(0)`), of the emergency's own
server.  A `VRESET` comes by SMS, by wire or from the third server (`ServerSocket[3]`, the one socket
whose data goes to `DecodeSMS`), and is answered there; frames of servers 1 and 2 go to
`DecodeOTAData`, which knows no `VRESET`.

## 3. The runs

| run | instance | distinct states (about) | what it shows |
|---|---|---|---|
| `Batch` | ring of 3. `BatchStore`: 4 packets, faults. `BatchUpload`: 4 normal packets and an alert; 2 worlds: calm, alerts and a change of IMEI | 710 000 | the count covers the ring; deletions hide nothing; a ring emptied newest first keeps no gap and is `OfflineStack`; owed packets are found and indices accepted (`StoreIsKept`); the store runs empty |
| `HttpQueue` | queue of 2, burst 2, 2 tries; 2 + 1 packets; 6 worlds, the last with every event | 235 000 | the lock excludes and emergencies are posted alone; nothing lost or stored twice; nothing delivered twice; the queue drains and the pause ends |
| `PktSave` | 3 files, 4 packets; calm, cuts at most steps, cuts at every step and saves before the first read, cuts and failures | 223 000 | cover, one delivery, the stack |
| `HttpTransport` | breaker at 2, counter modulo 4, 2 attempts; 5 worlds | 163 000 | right server, true result, breaker closes |
| `TcpSocket` | 2 hosts (one a name), 1 descriptor, 2 senders, 2 packets a connection (`MAX_SENT`); 5 worlds | 200 000 | connected is up and no descriptor leaks; right host; own acknowledgement; reconnects |
| `Profiles` | 3 profiles, 7 networks, 4 worlds, 2 disturbances; blacklist at 3, switch after 2 failed activations, window of 1 | 442 000 | in step with the SIM and true credit; never a blacklisted choice; full window; waiting threads go on; gets through, or retries all |
| `Recovery` | limits of 2 and 3 seconds, exemption counter modulo 5; 7 worlds | 400 000 | a hang is bounded; a reset is due; a power-down ends; an ordered reset comes |
| `Firmware` | `Fota`: 3 attempts, 2 orders, 4 restarts, 1 loss of GPRS; 5 worlds. `McuUpdate`: images of 2, 2, 3 and 5 chunks, limit 3, wrap 4, 3 tries, 2 orders; 6 worlds | 953 000 | attempts bounded; nothing left behind; whole and off the record; every order ends; whole request and never bricked; true report that comes and is applied |
| `OgServer` | press at 2 polls, cut wire above 2, timeout of 2, 4 moves of the button, 2 commands, 1 lost connection; 4 servers, 9 worlds | 265 000 | alert and emergency agree; somebody hears; the last words are true; reply before reset; the reset comes |
| `OgServer_channel` | one AMD3 command, two servers | violated | the reply to a command of server 2 leaves on the socket of server 1 |
| `HttpQueue_unsent` | as `HttpQueue`; packets replaced, or a full queue, and nothing else | violated | a packet is removed unsent |
| `PktSave_rollover` | as `PktSave`, nothing fails | violated | a full history refuses the newest packet |

`Batch` and `Firmware` each answer for two modules, of which a behaviour is one.  In `Batch` `Init`
chooses single calls with faults (`BatchStore`) or the two threads (`BatchUpload`) on the same ring; in
`Firmware` it chooses the download or the transfer, and the other keeps its initial state.  Each has the
properties, the bounds and the fairness it would have in a run of its own.

**Type invariants** are theorems (section 4), and no run checks what holds for every value of the
constants.

**Why the bounds are enough.**  A ring of 3 is the smallest in which a packet can lie
between head and tail, with more packets than it holds, so that it wraps, fills and
has gaps at each end and in the middle; where single calls are
checked any packet may be deleted, whatever its type, so that one type is enough, and a new packet gets the
first name that is free, as the names are interchangeable.  Two packets a connection are the fewest of which one is before
the other.  A queue of 2 has a head that is not its tail, fills,
and replaces either item.  A burst, a retry limit and a breaker of 2 tell the first from the
last.  A history of 3 has a file that is neither first nor last.  Counters that grow without
end are taken modulo a small number where the code's wraps (`COUNT_WIDTH` for the
`uint8_t` failure counter, `WRAP` for the `uint16_t` size) or bounded in the guard (`MAX_SENT`,
`MAX_ORDERS`).  The image of 3 is the largest the boot loader takes, the one of 5 is larger
than the SPI flash and wraps; a single descriptor makes every reconnect use the number again, which
is the case the code's look-up by descriptor is exposed to.  Three profiles are the fewest for
which round robin and skipping differ: with two, the next one is the other one.  The blacklist's
limit is the code's; the window and the limit of activations tell the first failure from the
last.  The networks are all alike or have each kind with each other; commands may also ask
for a profile the SIM does not support (4).  Two disturbances are, for instance, a late answer after a
timer's request, or a lost IMSI and a power cut.

The limits of `Recovery` are small but in the order of the code's: the check-in and the connection may be
older than the watchdog's timeout, and the exemption's counter wraps only above exemption and count (5 > 4;
65536 > 2700 + 600).  A hang of each thread outlasts each limit, and an age that has passed its limit says no more
by growing.  Three attempts are the code's; four restarts are more than an order has
attempts, so that one that resumed for ever would show.  Two orders are enough for one to
meet the late report of the other.  Four moves are two presses, or a press and a cut wire; two
commands are an order and one that overtakes it.

**Symmetry** of the packets is used in `PktSave` and `PktSave_rollover`, which check no liveness.

**Fairness.**
* `BatchUpload` (in `Batch`): each thread finishes its call (the code has no unbounded wait), and a
  server that answers posts again and again answers one (strong fairness of `SendSucceeds`).
  Nothing makes packets stop coming: `StoreDrains` assumes it.
* `HttpQueue`: weak fairness of each thread's steps.  Strong fairness of taking the lock: it is held for
  less than the 5 ms between two polls.  Strong fairness of `ProcessEnter`: the server thread sleeps 100
  ms in each round with the flags down and the HTTP thread looks every 50 ms.  Strong fairness of
  `ExpireHead`: a packet does grow old.  No post has to succeed. `QueueDrains` (with the end of a pause
  in it) is stated for the worlds in which neither lock timeouts nor preemption let go of
  what is held.
* `HttpTransport`: both threads go on, the cooldown of five minutes passes, the server
  thread has something to post again and again (it has a reporting interval).  `BreakerCloses` holds also
  while the HTTP thread arms the session under a send, not when a send overlaps another or is aborted.
* `TcpSocket`: the TCP thread and the senders go on.  Strong fairness of an attempt, of a
  lookup, of taking its answer and of a connect that succeeds: `Reconnects` asks whether the
  socket finds its way back when the network gives it chances, not whether the network does.
* `McuUpdate`: modem, application and boot loader go on.  Frames need not arrive.
* `Profiles`: the GPRS thread goes on; a good network answers an activation within the minute the
  device waits; the modem reports a context that is gone (`ql_gprs.h:566`: the callback "will be
  invoked when GPRS drops down"); a download ends.  The timer and the commands need not come.

* `Recovery`: threads that are not held up go round, seconds pass, the modem's watchdog fires and its
  power-down works.  `Ql_Reset` resets only outside the world `stall`.  A thread that is held up need
  never come back.
* `Fota`: the server thread goes on and the modem restarts after an update; it need not report the end of any
  download.  `OrderEnds` assumes that GPRS is there for good from some time on.
* `OgServer`: the server thread goes round, a thread in the middle of a change goes on, packets fall
  due, the network gives the time, and sockets are connected again.  A socket that is asked again and
  again takes a reply (strong fairness of `ReplySent`).  Neither the polls of the button nor the tick
  need come.

**Deadlock** is checked in every run.  In `Firmware` the part of the transfer may stutter for ever, because
its orders are bounded and a board may be dead; the server thread of the download is never stuck.

## 4. What is proved

Every invariant and every action property that a passing run checks is a theorem, and so is the
type invariant of every module.  All theorems are for every value of the constants, `Worlds` included, from
the assumptions named in the modules that declare the constants: sizes and limits are naturals, most
not zero; a value that stands for "nothing" is none of the values it could be taken for
(`IndexAssumption`, `NothingAssumption`, ...); and two that relate limits.  `RecoveryAssumption` asks that the
exemption of a transfer is more than a second (the code's is 2700, `inc/Systic.h:56`) and ends before its
counter wraps; `RingAssumption` that the ring holds 2 to 65 535 packets, the range of the count.

Nearly every argument has the same shape: the property is not inductive, and a strengthening says at each
place of each thread what holds there, in the worlds in which the code can promise it.  One
lemma shows that it holds at the start, one that each action keeps it, and the last steps put the two
together (`PTL`).

**`BatchStoreProofs`**, of `BatchStore`:

* `TypeCorrect`: `Spec => []TypeOK`, with the count at most `MAX_FILE` in RAM and in flash.  It is inductive
  as it stands, although `DeleteDataBatchSlot` decrements without a test: what is deleted is a slot that
  a scan of the same, just reloaded table returned (`Visible`), and a scan of a table that counts nothing
  returns nothing, so the count was not 0.
* `CountCoversFound`: `Spec => []CountCoversRing`, from `Accounted`: the count is exactly the number of packets
  a scan finds, or it covers all valid slots.  Neither half alone is kept: a ring with gaps
  that has wrapped keeps valid slots outside its window, where no scan looks and the exact count does not
  count them, and they come back into it when the tail meets the head, which is when the ring has been
  filled to a count that covers them all.
* `DeletionHidesNothing`: `Spec => DeleteHidesNothingElse`, from the same and a lemma on what `SkipHead` passes
  over.
* `LifoLeavesNoGap`: `Spec => LifoKeepsNoGap`: the arithmetic of `NoGap` on head, tail and count, one case for
  each action and outcome of a write.
* `LifoImplementsStack`: `Spec => LifoIsStack`: a ring without a gap is a sequence, `StackOf`, whose `i`th
  element is `i - 1` slots from the head (`At`); a store appends to it, after dropping the first if the ring
  was full, and the deletion of the newest takes off the last.

and of `BatchUpload`:

* `UploadKeepsStore`: `USpec => []StoreIsKept`, from `UploadInv`.  While calls do not overlap (`TablesInv`) the
  tables the threads have in RAM are sound, and what the uploader has left to delete can be found, each
  slot once.  With positions only (`CalmInv`) it is moreover the newest end of a ring without a
  gap, newest first (`PickedIsFound` and what follows from `NextOf`), so a deletion is a pop and the
  owed packets stay found.
* `UploadTypesHold`: `USpec => []TypeOKU`, overlapping calls included: from `RaceInv`, which says that each
  table a thread has in its hands, and the one the next call reloads, counts at least those of the (at most
  two) slots yet to be deleted that are valid in it.  So the count does not wrap even while the two
  threads write into each other's `FTable`; it may be one too many, and no more.

**`PktSaveProofs`**: `PktSaveTypeCorrect`; `CountCoversOwed`: without file faults, cuts in the
rewriting of the count and saves before the first read, the count in flash covers what is owed;
its invariant relates `last`, `disk`, `pc` and the files at every step of a rewrite; `ImplementsStack`:
`Spec => Stack!Spec`, the refinement of `OfflineStack` under the mapping `Stacked`, from the same
invariant (initial state, and one step lemma per action: a push, a pop, a wipe, or a stutter);
`NoSecondDelivery` from `DeliveredInv`, with power cuts at any step: a packet is in one file, and one that was
delivered is in none but the file that is about to be deleted, which the count in flash names as the last.

**`HttpQueueProofs`**:

* `HttpTypeCorrect`; `LockExcludes`: in an orderly world `busy` says exactly whether a thread holds the
  lock and every label between taking and releasing is a holder's; `EmergencyAlone`: while the
  server thread posts an emergency packet the queue is paused and the HTTP thread is outside its
  posting labels, which follows from `sending` and `IsSendProcess` covering them.
  `QueueThreadsExclude` is the two together, as the run checks them.
* `QueueKeepsPackets`: `OneCopyInv` for the first half of `PacketsKept` (what the server thread has to hand over
  is nowhere else; what the HTTP thread posts is behind no other packet, so it is not queued any more
  when it goes to flash; and where no full queue evicts it, it is not in flash while it is posted), `KeptInv` for
  the second.
* `QueueDeliversOnce`: `Spec => DeliversOnce`.  What is posted is owed until its post ends: in a queue that
  does not fill up it can leave the queue only by the HTTP thread or by being replaced, and a packet that
  replaces it is owed anew.

**`HttpTransportProofs`**: `TransportTypeCorrect`: types, with the strengthening that an attempt under way is not
counted yet, so that the count stays within the limit.  `PostsMeant` and `DeliveredMeansAnswered` from `SendInv`.
With one send at a time a thread that does anything is alone (`Alone`; the guard of the arming is
`IsSendProcess`, so the flag must be set throughout a send); then the URL, the session and the modem are
as the thread left them at each step of its attempt (`Meant`), and what it knows agrees with the servers
that answered (`Told`).  That nothing is reported which no server answered needs no such condition (`Honest`).

**`ServerProofs`**, of `TcpSocket`:

* `SocketTypeCorrect`; `SocketConnectedIsUp` and `SocketLeaksNothing` from `Placed`: the states that need a
  descriptor have one, and every descriptor in use is the socket's; `SocketDescriptor` is the two
  together; `SocketConnectsToHost` from `Aimed`: an address taken for known is that of the host.
* `AcksAreMine` from `SendInv`: a sender on the present connection sent the last packet on it and waits for
  just that one; one that its connection left behind waits where nothing has been sent; and between two
  packets the socket's count is exact on a live link.  So the property also holds in the world `hidden`,
  where the socket is made anew between two polls of `WaitAck`: nothing is owned across a reconnect.

and of `OgServer`:

* `OgTypesHold`.
* `AlertFollowsSos` from `ButtonInv`: of the two threads that change emergency and alert in two steps each,
  at most one is between its steps, and then the emergency is as that thread left it, so that the
  other step makes the two agree; the commands change both at once.
* `ResetsAreAnswered` from `ReplyInv`: nobody waits for a reply but the one whose reply is pending, so once it
  is out or stored the reset leaves no order unanswered.

**`FirmwareProofs`**, of `Fota`: `FotaType`; `FotaAttemptsBounded` from `CountInv`: attempts made and attempts left,
in RAM and in flash, never exceed the number an order starts with, which holds across a restart because
the attempt is written before it is made; `FotaLeavesNothingBehind` from `HeldInv`, which says at each
place what is open; `FotaInstallsWhole` from `ImageInv`, an action property.

and of `McuUpdate`:

* `McuTypesHold`: the copy of the boot loader stays within the program flash because the size asked for is
  compared with the limit before it starts, also when that size has wrapped.
* `BoardStaysSafe` and `ReportsAreTrue` from `BoardInv`.  `FrameInv`, `TurnInv`: a frame on its way belongs to the
  image being sent, and while the modem transfers the application runs, so nothing resets under it.
  `TotalInv`: the microcontroller counts up to that image's size or has not seen its start.  `SpiInv`: every
  chunk before the expected one is stored.  `AckInv`: what was acknowledged was stored, so the modem is never
  ahead.  `ReqInv`: the update is requested with exactly the last chunk.  `RunInv`: there is always an
  image that runs, or the request for one and the SPI flash to copy it from, from the first erased page to
  the last copied one.
* The proof of `TotalInv` found a case that the model used to leave out, and the property now states as an
  exception (section 5, *MCU, count of another image*).

**`ProfilesProofs`**: `ProfilesTypeCorrect`: types, whose strengthening says that a command has gone out only for
a profile the device supports, so that `fails` is never indexed outside.  `ProfilesPickViable`: the lemma
`NextValidIsViable` about `GetNextValidProfile` (going round from anywhere every profile comes up, and a
set of naturals has a least element), then one case for each writer of `prfReq`.
`ProfilesFreshWindow`: the counter never runs ahead of the refusals of the current profile.
`ProfilesInStep` and `ProfilesActiveReached`: from one invariant, `KnownInv`, which says at every place of the thread
which of `cur`, `thread.target` and `imsi` is the SIM's profile, and that no context is up while the SIM is
ahead of `cur`; one case for each of the 41 actions.  `ProfilesTrue` is the two together.

**`RecoveryProofs`**:

* `RecoveryType`; `RecoveryHangIsBounded`: `Spec => []HangIsBounded`.  What keeps the bound is where each clock stands
  relative to the thread's silence.  `SysticInv`: a Systic thread that is held up has been silent for less
  than the last feed's age, and a watchdog is never older than its timeout and a second. `BootInv`: an
  uninitialised system is at most the grace older than its last feed.  `GprsInv`: while the check-in of a
  GPRS thread that is held up is not too old, it bounds its silence; afterwards nothing feeds, and
  the last feed's age does.  `ServerInv`: outside a transfer the silence is at most the count, plus what a
  transfer before may have added; inside one the exemption bounds it, or, once it is used up, the
  count.  A transfer may begin with the exemption of an earlier one still counted, which then wraps
  (`ExemptWidth`) and is granted again: that is the second half of the limit `FtpExempt + 2 * HangSecs`.
* `ResetsAreDue`: `Spec => ResetIsDue` from `DueInv`: each timer is younger than what it times.  `CountInv`: the
  count of seconds against the server thread's silence, for each order of the two in a second;
  `TransferInv`: the exemption against the age of the transfer; `ConnInv`, `FaultInv`: the connection's and the GPS's
  time stamp against how long it has really been, but where the check of this very second is about to
  set them.  `FtpExempt > 1` is needed here: were it 1, the second in which a transfer begins would already
  count.

**Only model-checked**: liveness under fairness, which is out of the prover's reach, as `ENABLED` is:
`StoreDrains`, `QueueDrains`, `BreakerCloses`, `Reconnects`, `OrderIsReported`, `ThreadsResume`, `GetsThrough`,
`PowerDownEnds`, `ResetComes` (of `Recovery` and `OgServer`), `OrderEnds`, `SosIsHeard`, `LastWordIsTrue`; and
the properties of section 5, which the code violates.  No module with a theorem has a `RECURSIVE` operator, as
induction over data is out of reach too.

## 5. Where the code departs from what it says

Three runs each check a statement of the repository that the code does not keep; TLC finds it violated.

* `OgServer_channel` (`SMS.c:1506`).  "Route by Channel, never by the displayed address"
  (`Server.c:5450`).  The parser of AMD3 frames writes `LastOTAResponse.Source` and leaves `Channel` as
  it was, after a start the value of no socket; the reply to a frame of server 2 leaves on the socket of
  server 1, with `SCK2` in its text.
* `HttpQueue_unsent` (`HttpQueue.c:260`).  "A queued packet not sent within (interval x MULTIPLIER) is evicted
  to flash" (`HttpQueue.h:13`).  The lock is released for a post; meanwhile the head is replaced by a newer packet
  (`HttpQueue.c:308`), or a full queue evicts it (`:141`); what is then the head is removed, unsent.
* `PktSave_rollover` (`PktSave.c:287`).  "The oldest history packet is deleted (FIFO rollover)"
  (`FIRMWARE_DOCUMENTATION.md:736`).  `ROLLOVER` is defined nowhere: the newest is refused.  `StackSpec` holds
  of the code as it is, with `Rollover <- FALSE` in `OfflineStack`.

Nine more definitions are not checked by a run of their own.  The first seven state a line of the repository;
the last two what one would expect and no line promises.  With the specification and the constants given here,
and otherwise those of the module's run, TLC finds each of them violated.

* `GivesUpOldest` in `BatchStore` (`UploadSpec`, no faults, three normal packets and two alerts; `Batch.c:234`).
  "Batch FULL - overwriting oldest at slot" (`Batch.c:228`).  Room is made at
  the head when the count says so, and the packet is written at the tail.  An alert uploaded from between
  two normal packets leaves a gap and a count below the limit, and the tail of the wrapped ring is on a
  stored packet.
* `NoDoublePost` in `HttpQueue` (`Worlds = {{"emergency", "preempt"}}`; `HttpQueue.c:197`).  "Waiting for both
  flags prevents a concurrent double-POST" (`Server.c:5877`).  `HttpQueue_Process`, past its guards but before it
  sets its flag, loses the CPU; the server thread pauses the queue, finds both flags down and posts; and so
  does the HTTP thread.
* `NeverStolen` in `McuUpdate` (`McuWorlds = {{"serial"}}`; `MCU.c:448`).  "Must exceed the longest per-send
  WaitFlag timeout (1000 ms) so a legitimate in-flight transfer is never stolen from its owner"
  (`MCU.c:446-447`).  The transmitter is taken after 1500 ms;
  the waits of `MOTA.c` are 5000, 6000 and 2000 ms.  (`ReportIsTrue` holds all the same: no report is
  wrong because of it.)
* `OneShot` in `Fota` (`Worlds = {{"cut"}}`; `FTP.c:803`).  "The auto-resume is ONE-SHOT ... a wedged or reset
  attempt cannot re-arm itself" (`main.c:184-194`): `main.c` takes the record's mark off, and the attempt that
  follows writes the request back as valid before it starts.  The device resumes until the attempts are used up
  (`AttemptsBounded`).
* `GpsFaultLasts` in `Recovery` (`Worlds = {{"gps", "gpsoff"}}`; `SystemRecovery.c:854`).  "GPS in Fault state
  for > 3 minutes" (`SystemRecovery.c:864-866`).  The time of the last good
  state is not renewed while the check is switched off, so that a fault of a second after it is switched on
  again resets the device.
* `MarkedReached` in `Profiles` (`Nets = {<<"denied", "missing", "good">>}`, `Worlds = {{"cut", "order"}}`;
  `GPRS.c:1236`).  "Active means this profile previously reached GPRS IP or server connection"
  (`GPRS.c:1162-1163`).  Between the SIM's switch and `UpdateStateInFlash` the flash still names the old
  profile; after a power cut there, what the new one reaches is credited to the old one, which is restored
  at every start.
* `DisabledIsQuiet` in `OgServer` (`SosTimeOut = 8`,
  `OgWorlds = {{"button", "clear", "disable", "notamper", "preempt"}}`; `SOS.c:207`).  "SET SOSDISABLE 1 ... Clears
  active SOS/Tamper states" (`FIRMWARE_DOCUMENTATION.md:643`).  The button sets `IsSOS`, a `SOSCLR` ends the
  emergency, the button goes on to set the alert: from then on the alert is enabled without an emergency, and
  the poll of a disabled button looks at the emergency only.
* `DeletesOnlyUploaded` in `BatchUpload` (`Worlds = {{"overlap"}}`, five normal packets, no alerts,
  specification `USpec`; `Server.c:5030`).  Slots are deleted by number after a post of seconds.  A
  store of the HTTP thread that found the ring full has used the slot again; the packet in it is deleted
  unsent.
* `CountCovers` in `PktSave` (`Worlds = {{"unread", "idle"}}`; `PktSave.c:287`).  `SavePacket` does not load the
  count.  The first save after a restart, before the first read of the history, writes `BK_1.bin` over
  the oldest packet and a count of 1; the rest of the history is out of reach.

While the properties were written, TLC also showed the following.  They are the reasons
for the worlds in which the properties are stated.

* *Store, gaps* (`OwedIsStored` outside `world = {}`; `Batch.c:243`): room is made at the head, the
  packet is written at the tail.  Once alerts deleted from the middle have left gaps and the ring has
  wrapped, the slot at the tail can hold a packet that is not the oldest ("overwriting oldest",
  `Batch.c:228`).
* *Store, overlap* (`IndexIsAccepted` with `overlap`; `Batch.c:246`): a store that made room
  in RAM, a reload by the server thread, then the mark: a count of `MAX_FILE + 1`, which
  `ReadFileTable` rejects (`Batch.c:92`); the store is empty at the next reload.
* *Header* (with `imei`; `Server.c:2790`): the count is written before the scan,
  which passes over packets of another IMEI (`cdac_complete_implementation_guide.md:393-394`: the count
  and then the records).
* *Queue, full* (`OneCopy`, `DeliversOnce` with `full`; `HttpQueue.c:141`, `236`): during a post an
  `HttpQueue_Add` evicts the head, the item being posted, into flash.  The post delivers it, and a batch delivers it
  again.
* *Queue, preempted* (`ThreadsExclude` with `preempt`; `HttpQueue.c:44`): both threads see the lock free.
* *Queue, watchdog* (`HttpQueue.c:175`): a batch or emergency post of the server thread that takes more
  than 25 s is taken for a stuck thread; flags and lock are cleared under it.  No promise above is broken by
  it: the server thread holds no lock then, and an emergency has the queue paused; after a batch the HTTP
  thread may post at the same time, each its own packet (see *Transport, overlap*).
* *Transport, overlap* (`PostsWhereMeant`, `DeliveredIffAnswered`; `HTTP.c:132`, `Server.c:5194`):
  `HTTPUrl` is set by the other thread between setup and post, and a packet for Server 3 goes to Server
  1 (`Server.c:5257-5259` guards against that within one thread); the other thread's `HTTP_Close` or
  `HTTP_Post` clears `IsHTTPRes` before the answer is seen, and an answered packet is sent again.  (What
  is reported as delivered was answered even so.)
* *Transport, arming* (`HTTP.c:496-509`): the test of `IsSendProcess` is stale when `HTTP_Setup` runs.
* *Breaker* (`Server.c:5241`): the 256th failure in a row wraps the counter to 0 and one cooldown is
  skipped.
* *Socket* (`TCP.c:353-367`): a lookup reported as done whose answer comes by callback connects to
  address 0.0.0.0 first; a callback for a closed descriptor is taken for the new socket's if the number
  is the same (`TCP.c:26`); `WaitAck` across a reconnect reads the new
  connection's count (and then times out, see `AckIsMine`).
* *MCU update*: an acknowledgement that is lost is not repeated (the MCU has gone on and ignores the
  chunk), so that every retry times out; the request for an update is made with the last chunk, so that
  an update reported as failed may still be applied; the boot loader takes the request back even when
  its verification failed (boot loader `Boot.c:34`, `124`); the size wraps at 64 KiB; a second,
  different image in the same run of the MCU is written over flash that was not erased.
* *MCU, count of another image* (`BoardIsSafe`, `ReportIsTrue` with `begun` and `serial`; MCU application
  `MComm.c:236-244`, `MOTA.c:66-71`): an image of 2 chunks is ordered; the MCU takes its start, the answer is lost,
  and the modem gives up without a word to the MCU (`custom/MOTA.c:191`).  Then an image of 3 chunks is
  ordered.  Its start is lost, and the answer to another thread's frame is taken for the answer to it.
  `total_chunks` is still 2, not 0, so the chunks are accepted, and the update is requested after the
  second of three.  Either half alone does no harm: without the earlier image the first chunk is refused,
  and without the foreign answer the start is known to be lost.
* *Profiles, first boot* (`ProfileIsTrue` with `fresh`; `GPRS.c:1028-1038`): when the first switch fails, the
  target is taken for the current profile although the SIM is elsewhere; failures are then
  counted for the wrong profile.
* *Profiles, power cut* (besides `MarkedReached`; `GPRS.c:1236-1237`): from such a cut on the round robin asks,
  among others, for the profile the SIM is already in, whose unchanged IMSI counts as a failure of the
  switch; the timer of `Systic.c` leads out.
* *Profiles, no IMSI* (`ProfileIsTrue` and liveness with `imsi`): if the IMSI could not be read at start, the
  comparison is with an empty string, `strstr` finds it in every IMSI, and every switch is
  judged unchanged although the SIM has moved.
* *Profiles, restore* (`GPRS.c:1153-1175`): the restore of the last active profile at boot has nothing
  to do, as `LoadActiveProfile` has already made that profile the current one (`File.c:373-380`); which
  it does whatever the reason recorded with it, so also for one that was only switched to (`GPRS.c:1163`
  means one that reached an address or a server).
* *Profiles, lost request* (`GPRS.c:1239`): a command or the timer that asks for another profile
  during a switch has its request cleared with the one just served.

* *Recovery, fallback*: "Keep the WDT active across the reset request ... a fallback if the reset call
  or modem firmware stalls".  A reset ordered from the main thread keeps no watched thread from going
  on, so that the watchdog is fed as before.  (`ResetComes` of `Recovery` is about the others.)
* *Recovery, server thread*: the exemption of a transfer is counted until a second without one is seen
  (`Systic.c:509-520`), so a transfer that follows another within a second shares its exemption, and one that
  begins with it used up is not exempt at all.
* *FOTA, guard* (`GPRS.c:1115`, `1313`; `PktSave.c:264`): `AbortFTPRoutine` clears `IsFotaProcessing` and
  `IsMotaProcessing`, which only the way to the first attempt sets.  The second and third attempt run without
  what the flags are asked for: profiles may be switched under them and history is saved.
* *FOTA, EPO* (`LeavesNothingBehind`, `OrderEnds` outside `epo`): `SET EPO` whose login fails leaves
  `FTPState` at `FTP_STATE_INIT`: the server thread counts as in a transfer, and an order found at the
  start is not taken up.
* *FOTA, failed installation*: "FTP Failed. Attempting Again" is reported though the request is off the
  record.
* *SOS, alert marked as sent* (`LastWordIsTrue` outside `fails` and `second`; `Server.c:4394`): what the
  sockets answer is not looked at, and with one of two servers connected the other never gets the
  packet.
* *SOS, no lock* (`AlertMatchesSos` outside `preempt`): a press between the two steps of a timeout, or a
  timeout between those of a press, leaves an emergency without its alert or the reverse.
* *SOS, emergency server* (`LastWordIsTrue` where connections are lost; `Server.c:4417-4421`): the packet that ends
  the emergency goes to server 1 alone while the emergency server is not connected, which is not told
  of the end afterwards.
* *SOS, marks*: `IsEMRTSend` stays set when a cut wire is mended while no socket is connected, so the
  next one is not reported; `SOSTamperTimeLapsed` is not reset by mending; an emergency is not kept
  across a restart.
* *TESTRIG* (`SMS.c:2296`, `2326`): the branch that ends the test emergency follows one that already
  takes its number, so that `TESTRIG 1` raises the alert of an end that has not come; `TESTRIG 0` does
  not reset `IsSOSSMS`.
* *Commands, overwritten reply* (`AnsweredFirst` outside `busy`): a second command before the first is
  answered takes the place of its reply, and a reset ordered by the first waits for the second's.
* *Commands, refusing socket* (`Server.c:5481`): `otaAckWait` counts only while the socket is not
  connected.  One that is connected and refuses for ever holds up the reply and the reset.

## 6. Not modelled, and the plan

Not modelled: the formatting of packets and the parsing of NMEA, SMS and frames (text, without state of
their own), the arithmetic of GPS and geofences (floating point), sampling and LEDs (I/O), the vendor's
SDK, whose calls are the environment, and the vendor's libraries and examples, which are most of the
repository's lines.  The TCP mirror of a CDAC packet to Server 3.  In `Profiles`: torn writes of the state file, a
failing `RIL_NW_GetOperator`, the test mode `ZigTestMode` and the `GPRSTEST` hooks, sleep.  In `OgServer`: the
alerts that are not about the button, login, health and RFID
packets, `SET:RESET` and `DEFAULT` (which reset at once), `HandleSOSTamperTest`, and the CDAC variant of
`ProcessSOS`.  In `Recovery`: the test modes and the alert of a low voltage that does not lead to a power-down.

The modules are about one component each, with the calls of the others as environment; `BatchUpload` (store
and upload), `McuUpdate` (modem, application and boot loader) and `OgServer` (button, alerts, commands, server thread)
compose several.

Built, in this order: `BatchStore` and `OfflineStack`; `BatchUpload`; `HttpQueue`; `PktSave`; `HttpTransport`;
`TcpSocket`; `McuUpdate`; `Profiles`; `Recovery`; `Fota`; `OgServer`.

What is left, in order:

1. A composition of queue, store and transport: a packet handed over is delivered, owed or given up as
   the oldest.
2. The login and acknowledgement packets of the server thread; `handleCDACProtocol` with its intervals.
3. Geofence entry and exit as a state machine over samples, without the geometry.
4. The diagnostic ring of `File.c`.
