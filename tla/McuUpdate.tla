------------------------------ MODULE McuUpdate ------------------------------
(***************************************************************************)
(* The update of the board's microcontroller (MCU) over the serial line.     *)
(* The modem (custom/MOTA.c, custom/MCU.c) sends an image in chunks and      *)
(* waits for the acknowledgement of each; the MCU's application              *)
(* (QuectelM031-main/Application) stores them in an SPI flash and asks the   *)
(* boot loader (QuectelM031-main/BootLoader) for an update, which copies     *)
(* them over the application.  The MCU powers the modem: when it starts, so  *)
(* does the modem.  The modem's other threads send frames of their own.      *)
(*                                                                         *)
(* A chunk is the image it is of; flash is a function from chunk numbers.    *)
(***************************************************************************)
EXTENDS Naturals, FiniteSets

CONSTANTS
    Images, Old, \* what the MCU can run; what it runs at first
    Size,       \* the chunks of each
    Erased, Mixed, \* what else a chunk of flash can hold
    NoFrame, NoReply,
    RETRIES,    \* MOTA_MAX_RETRIES
    WRAP,       \* the chunks of 2^16 bytes, and of the SPI flash set aside: 256
    LIMIT,      \* the largest application the boot loader takes, in chunks: 240
    MAX_ORDERS, \* bound: updates ordered
    McuWorlds   \* the conditions under which the device may run, sets of Events

Events == { "noise",    \* frames and answers get lost; the image file is unreadable
            "late",     \* the MCU answers after the modem has stopped waiting
            "serial",   \* other threads of the modem send frames meanwhile
            "cut",      \* the power fails
            "modem",    \* the modem restarts on its own
            "again",    \* another image is sent over one that was not applied
            "begun",    \* another image is ordered after the start of one that was
                        \* never sent
            "badwrite", \* the boot loader's write of a chunk fails
            "spi",      \* the SPI flash does not answer: no id, and writes are lost
            "oversize" } \* an image larger than the boot loader takes

ASSUME ImageAssumption == /\ Old \in Images
                          /\ Erased \notin Images /\ Mixed \notin Images /\ Erased # Mixed
ASSUME SizeAssumption == /\ Size \in [Images -> Nat \ {0}]
                         /\ {RETRIES, WRAP, LIMIT, MAX_ORDERS} \subseteq Nat
                         /\ LIMIT < WRAP /\ Size[Old] <= LIMIT
ASSUME WorldsAssumption == McuWorlds \subseteq SUBSET Events

ChunkCounts == UNION {0..Size[i] : i \in Images}

Frames == {<<"FWSTART", Size[i]>> : i \in Images} \cup {<<"FWEND">>} \cup
          UNION {{<<"FWUPDATE", c, i>> : c \in 0..(Size[i] - 1)} : i \in Images}
Replies == {<<"SUCCESS">>, <<"ERROR">>} \cup
           UNION {{<<"FWUPDATE", c>> : c \in 0..(Size[i] - 1)} : i \in Images}

ASSUME NothingAssumption == NoFrame \notin Frames /\ NoReply \notin Replies

VARIABLES
    mcuWorld,   \* the conditions of this run; nothing changes them
    mota,       \* where ProcessMCUOTA is
    waits,      \* it is in MCOMM_WaitFlag
    IsSent,     \* the transmitter is claimed
    got,        \* the answer MCOMMRcvFlags and mota_rcv_chunk_num tell of
    image,      \* the image being sent
    num,        \* chunkNumber
    attempt,    \* how often it was sent
    ok,         \* result of SendAllChunksDirect
    motaReport, \* what the last order was answered
    motaOrders,
    down, up,   \* the frame on its way to the MCU, the answers on theirs
    mcu,        \* what the MCU does
    expected,   \* expected_chunk_number
    total,      \* total_chunks
    spi,        \* the SPI flash
    updateREQ, size, \* BootConfig: UpdateREQCode, NewAppSize in chunks
    app,        \* the program flash
    copied      \* chunks the boot loader has copied

modem == <<mota, waits, IsSent, got, image, num, attempt, ok, motaReport, motaOrders>>
rx    == <<expected, total>>
mcuFlash == <<spi, updateREQ, size, app, copied>>
mcuVars  == <<mcuWorld, modem, down, up, mcu, rx, mcuFlash>>

Blank == [c \in 0..(WRAP - 1) |-> Erased]

McuInit ==
    /\ mcuWorld \in McuWorlds
    /\ mota = "idle" /\ waits = FALSE /\ IsSent = FALSE /\ got = NoReply
    /\ image = Old /\ num = 0 /\ attempt = 0 /\ ok = FALSE
    /\ motaReport = "none" /\ motaOrders = 0
    /\ down = NoFrame /\ up = {}
    /\ mcu = "app" /\ expected = 0 /\ total = 0
    /\ spi = Blank /\ updateREQ = FALSE /\ size = 0 /\ copied = 0
    /\ app = [c \in 0..(LIMIT - 1) |-> IF c < Size[Old] THEN Old ELSE Erased]

Without(events) == mcuWorld \cap events = {}

-----------------------------------------------------------------------------
(* The modem.                                                                *)

\* In ms: the waits of mota_start, SendAllChunksDirect and mota_end, and what
\* MCOMM_SendData waits for the transmitter before it takes it.
Timeout == [idle |-> 0, start |-> 5000, chunk |-> 6000, end |-> 2000]
MCOMM_TX_BUSY_TIMEOUT_MS == 1500

\* MCOMM_SendData.  While the MCU has a frame it takes no other.
Sends(frame) ==
    /\ waits' = TRUE /\ IsSent' = TRUE /\ got' = NoReply
    /\ \/ down' = IF down = NoFrame THEN frame ELSE down
       \/ "noise" \in mcuWorld /\ UNCHANGED down

Returns == waits' = FALSE /\ IsSent' = FALSE /\ got' = NoReply

\* (By the time the file has been downloaded, nothing of the last transfer is left.)
OrderMota(i) ==
    /\ mota = "idle" /\ mcu = "app" /\ down = NoFrame /\ up = {}
    /\ motaOrders < MAX_ORDERS
    /\ "oversize" \in mcuWorld \/ Size[i] <= LIMIT
    /\ "again" \in mcuWorld \/ \A c \in DOMAIN spi : spi[c] \in {Erased, i}
    /\ "begun" \in mcuWorld \/ total \in {0, Size[i]}
    /\ mota' = "start" /\ image' = i
    /\ motaOrders' = motaOrders + 1 /\ motaReport' = "none"
    /\ Sends(<<"FWSTART", Size[i]>>)
    /\ UNCHANGED <<mcuWorld, num, attempt, ok, up, mcu, rx, mcuFlash>>

\* ProcessMCUOTA finds no file, an empty one, or one of too many chunks.
OrderFails ==
    /\ mota = "idle" /\ "noise" \in mcuWorld /\ motaOrders < MAX_ORDERS
    /\ motaOrders' = motaOrders + 1 /\ motaReport' = "err"
    /\ UNCHANGED <<mcuWorld, mota, waits, IsSent, got, image, num, attempt, ok, down,
                   up, mcu, rx, mcuFlash>>

StartAnswered ==
    /\ mota = "start" /\ got = <<"SUCCESS">>
    /\ mota' = "chunk" /\ num' = 0 /\ attempt' = 0
    /\ Returns
    /\ UNCHANGED <<mcuWorld, image, ok, motaReport, motaOrders, down, up, mcu, rx,
                   mcuFlash>>

Awaited == IF mota = "chunk" THEN "FWUPDATE" ELSE "SUCCESS"

\* Nothing came in time; without "late" it is not on its way either.
TimedOut == /\ waits /\ got = NoReply
            /\ "late" \in mcuWorld \/ (down = NoFrame /\ \A r \in up : r[1] # Awaited)

StartTimesOut ==
    /\ mota = "start" /\ TimedOut
    /\ mota' = "idle" /\ motaReport' = "err"
    /\ Returns
    /\ UNCHANGED <<mcuWorld, image, num, attempt, ok, motaOrders, down, up, mcu, rx,
                   mcuFlash>>

\* Mutant of SendChunk: the attempts are not counted.
SendChunkForever ==
    /\ mota = "chunk" /\ ~ waits /\ num < Size[image] /\ attempt < RETRIES
    /\ Sends(<<"FWUPDATE", num, image>>)
    /\ UNCHANGED <<mcuWorld, mota, image, num, attempt, ok, motaReport, motaOrders,
                   up, mcu,
                   rx, mcuFlash>>

SendChunk ==
    /\ mota = "chunk" /\ ~ waits /\ num < Size[image] /\ attempt < RETRIES
    /\ attempt' = attempt + 1
    /\ Sends(<<"FWUPDATE", num, image>>)
    /\ UNCHANGED <<mcuWorld, mota, image, num, ok, motaReport, motaOrders, up, mcu,
                   rx, mcuFlash>>

ChunkAnswered ==
    /\ mota = "chunk" /\ got # NoReply
    /\ IF got = <<"FWUPDATE", num>> THEN num' = num + 1 /\ attempt' = 0
                                    ELSE UNCHANGED <<num, attempt>>
    /\ Returns
    /\ UNCHANGED <<mcuWorld, mota, image, ok, motaReport, motaOrders, down, up, mcu,
                   rx, mcuFlash>>

ChunkTimesOut ==
    /\ mota = "chunk" /\ TimedOut
    /\ Returns
    /\ UNCHANGED <<mcuWorld, mota, image, num, attempt, ok, motaReport, motaOrders,
                   down, up,
                   mcu, rx, mcuFlash>>

\* mota_end, however the chunks went.
SendEnd ==
    /\ mota = "chunk" /\ ~ waits
    /\ num = Size[image] \/ attempt = RETRIES \/ "noise" \in mcuWorld
    /\ mota' = "end" /\ ok' = (num = Size[image])
    /\ Sends(<<"FWEND">>)
    /\ UNCHANGED <<mcuWorld, image, num, attempt, motaReport, motaOrders, up, mcu,
                   rx, mcuFlash>>

\* Mutant of EndAnswered: the answer to FWEND is the result.
EndAnsweredSuffices ==
    /\ mota = "end" /\ got = <<"SUCCESS">>
    /\ mota' = "idle" /\ motaReport' = "ok"
    /\ Returns
    /\ UNCHANGED <<mcuWorld, image, num, attempt, ok, motaOrders, down, up, mcu, rx,
                   mcuFlash>>

EndAnswered ==
    /\ mota = "end" /\ got = <<"SUCCESS">>
    /\ mota' = "idle" /\ motaReport' = IF ok THEN "ok" ELSE "err"
    /\ Returns
    /\ UNCHANGED <<mcuWorld, image, num, attempt, ok, motaOrders, down, up, mcu, rx,
                   mcuFlash>>

EndTimesOut ==
    /\ mota = "end" /\ TimedOut
    /\ mota' = "idle" /\ motaReport' = "err"
    /\ Returns
    /\ UNCHANGED <<mcuWorld, image, num, attempt, ok, motaOrders, down, up, mcu, rx,
                   mcuFlash>>

\* ProcessMCUData.
Receive(r) ==
    /\ r \in up
    /\ up' = up \ {r}
    /\ got' = IF waits /\ r[1] = Awaited THEN r ELSE got
    /\ UNCHANGED <<mcuWorld, mota, waits, IsSent, image, num, attempt, ok,
                   motaReport,
                   motaOrders, down, mcu, rx, mcuFlash>>

\* Another thread sends to RS232, with MCOMM_SendData and without a wait.  It has
\* outwaited the owner of the transmitter, if there was one.  Its frame may be in
\* the way of another; the MCU answers it.
OtherSends ==
    /\ "serial" \in mcuWorld
    /\ IsSent => Timeout[mota] > MCOMM_TX_BUSY_TIMEOUT_MS
    /\ IsSent' = FALSE
    /\ down' \in {down, NoFrame}
    /\ up' \in {up} \cup (IF mcu = "app" THEN {up \cup {<<"SUCCESS">>}} ELSE {})
    /\ UNCHANGED <<mcuWorld, mota, waits, got, image, num, attempt, ok, motaReport,
                   motaOrders,
                   mcu, rx, mcuFlash>>

-----------------------------------------------------------------------------
(* The application of the MCU: ParseModemData, ProcessFirmwareUpdateSM.      *)

Has(function) == mcu = "app" /\ down # NoFrame /\ down[1] = function /\ down' = NoFrame

Answers(r) == up' = up \cup {r} \/ ("noise" \in mcuWorld /\ UNCHANGED up)

McuStart ==
    /\ Has("FWSTART")
    /\ expected' = 0 /\ total' = down[2]
    /\ Answers(<<"SUCCESS">>)
    /\ UNCHANGED <<mcuWorld, modem, mcu, mcuFlash>>

\* W25Q_Write: what was not erased keeps its zeros; beyond the end nothing.
Written(c, i) ==
    IF c \in DOMAIN spi
    THEN [spi EXCEPT ![c] = IF spi[c] \in {Erased, i} THEN i ELSE Mixed]
    ELSE spi

McuChunkRefused ==
    /\ Has("FWUPDATE")
    /\ \/ total = 0 /\ Answers(<<"ERROR">>)
       \/ total # 0 /\ down[2] # expected /\ UNCHANGED up
    /\ UNCHANGED <<mcuWorld, modem, mcu, rx, mcuFlash>>

\* The size is a uint16_t of bytes.
SetUpdateREQ == updateREQ' = TRUE /\ size' = total % WRAP

\* What is written is not read back, and the chunk acknowledged.  SetUpdateREQ comes
\* with the last chunk, before FWEND.
McuChunk ==
    /\ Has("FWUPDATE") /\ total # 0 /\ down[2] = expected
    /\ \/ spi' = Written(down[2], down[3])
       \/ "spi" \in mcuWorld /\ UNCHANGED spi
    /\ Answers(<<"FWUPDATE", expected>>)
    /\ expected' = expected + 1
    /\ IF expected + 1 >= total THEN SetUpdateREQ ELSE UNCHANGED <<updateREQ, size>>
    /\ UNCHANGED <<mcuWorld, modem, mcu, total, app, copied>>

\* JumpToBOOT a while, in ms, after the answer; nothing is received meanwhile.
Delay == 7000

McuEnd ==
    /\ Has("FWEND")
    /\ IF expected = total
       THEN Answers(<<"SUCCESS">>) /\ mcu' = "ending" /\ UNCHANGED total
       ELSE Answers(<<"ERROR">>) /\ total' = 0 /\ UNCHANGED mcu
    /\ UNCHANGED <<mcuWorld, modem, expected, mcuFlash>>

McuResets ==
    /\ mcu = "ending" /\ (waits => Timeout[mota] >= Delay)
    /\ mcu' = "boot"
    /\ UNCHANGED <<mcuWorld, modem, down, up, rx, mcuFlash>>

-----------------------------------------------------------------------------
(* The boot loader: LoadBootConfig, FlashNewApp.                             *)

\* BootConfig is erased and written again; without its mark it asks for nothing.
\* FlashNewApp copies nothing either when the SPI flash has no id.
BootNoUpdate ==
    /\ mcu = "boot"
    /\ updateREQ => size = 0 \/ size > LIMIT \/ "spi" \in mcuWorld
    /\ updateREQ' = FALSE /\ mcu' = "init"
    /\ UNCHANGED <<mcuWorld, modem, down, up, rx, spi, size, app, copied>>

\* Mutant of BootUpdate: the request is taken back first.
BootUpdateTakesBack ==
    /\ mcu = "boot" /\ updateREQ /\ size \in 1..LIMIT
    /\ mcu' = "copy" /\ copied' = 0 /\ updateREQ' = FALSE
    /\ UNCHANGED <<mcuWorld, modem, down, up, rx, spi, size, app>>

BootUpdate ==
    /\ mcu = "boot" /\ updateREQ /\ size \in 1..LIMIT
    /\ mcu' = "copy" /\ copied' = 0
    /\ UNCHANGED <<mcuWorld, modem, down, up, rx, spi, updateREQ, size, app>>

BootCopies ==
    /\ mcu = "copy" /\ copied < size
    /\ app' \in {[app EXCEPT ![copied] = spi[copied]]} \cup
                (IF "badwrite" \in mcuWorld THEN {[app EXCEPT ![copied] = Mixed]} ELSE {})
    /\ copied' = copied + 1
    /\ UNCHANGED <<mcuWorld, modem, down, up, mcu, rx, spi, updateREQ, size>>

\* After the verification, whatever it found.
BootCopied ==
    /\ mcu = "copy" /\ copied = size
    /\ updateREQ' = FALSE /\ mcu' = "init"
    /\ UNCHANGED <<mcuWorld, modem, down, up, rx, spi, size, app, copied>>

RunsImage(i) == \A c \in 0..(Size[i] - 1) : c \in DOMAIN app /\ app[c] = i

ModemOff == /\ mota' = "idle" /\ waits' = FALSE /\ IsSent' = FALSE /\ got' = NoReply
            /\ down' = NoFrame /\ up' = {}
            /\ UNCHANGED <<image, num, attempt, ok, motaReport, motaOrders>>

\* Init of the application, if there is one: FW_EraseFirmwareSectors, and
\* InitModemComm resets the modem.
AppStarts ==
    /\ mcu = "init"
    /\ IF \E i \in Images : RunsImage(i)
       THEN mcu' = "app" /\ spi' = Blank /\ expected' = 0 /\ total' = 0
       ELSE mcu' = "dead" /\ UNCHANGED <<spi, rx>>
    /\ ModemOff
    /\ UNCHANGED <<mcuWorld, updateREQ, size, app, copied>>

PowerFails ==
    /\ "cut" \in mcuWorld /\ mcu # "dead"
    /\ mcu' = "boot"
    /\ ModemOff
    /\ UNCHANGED <<mcuWorld, rx, mcuFlash>>

ModemRestarts ==
    /\ "modem" \in mcuWorld /\ mota # "idle"
    /\ ModemOff
    /\ UNCHANGED <<mcuWorld, mcu, rx, mcuFlash>>

-----------------------------------------------------------------------------
Transfer ==
    \/ StartAnswered \/ StartTimesOut
    \/ SendChunk \/ ChunkAnswered \/ ChunkTimesOut
    \/ SendEnd \/ EndAnswered \/ EndTimesOut
Application == McuStart \/ McuChunkRefused \/ McuChunk \/ McuEnd \/ McuResets \/ AppStarts
BootLoader  == BootNoUpdate \/ BootUpdate \/ BootCopies \/ BootCopied
Receives    == \E r \in up : Receive(r)

McuNext ==
    \/ \E i \in Images \ {Old} : OrderMota(i)
    \/ OrderFails
    \/ Transfer \/ Receives \/ OtherSends
    \/ Application \/ BootLoader
    \/ PowerFails \/ ModemRestarts

McuSpec == McuInit /\ [][McuNext]_mcuVars

\* Everything that runs goes on running, answers and timeouts come.
McuFairSpec == /\ McuSpec
            /\ WF_mcuVars(Transfer) /\ WF_mcuVars(Receives)
            /\ WF_mcuVars(Application) /\ WF_mcuVars(BootLoader)

-----------------------------------------------------------------------------
\* The transfer stays within its image, the receiver within the largest, and both
\* flashes hold chunks of images.
McuTypeOK ==
    /\ mcuWorld \in McuWorlds
    /\ mota \in {"idle", "start", "chunk", "end"}
    /\ waits \in BOOLEAN /\ IsSent \in BOOLEAN /\ ok \in BOOLEAN
    /\ got \in Replies \cup {NoReply}
    /\ image \in Images /\ num \in ChunkCounts /\ attempt \in 0..RETRIES
    /\ motaReport \in {"none", "ok", "err"} /\ motaOrders \in 0..MAX_ORDERS
    /\ down \in Frames \cup {NoFrame} /\ up \subseteq Replies
    /\ mcu \in {"app", "ending", "boot", "copy", "init", "dead"}
    /\ expected \in ChunkCounts /\ total \in ChunkCounts
    /\ spi \in [0..(WRAP - 1) -> Images \cup {Erased, Mixed}]
    /\ updateREQ \in BOOLEAN /\ size \in 0..(WRAP - 1)
    /\ app \in [0..(LIMIT - 1) -> Images \cup {Erased, Mixed}]
    /\ copied \in 0..LIMIT

Stored(i) == \A c \in 0..(Size[i] - 1) : c \in DOMAIN spi /\ spi[c] = i

\* What the update rests on: no image is sent over another, none is too large, the
\* SPI flash, which nothing is read back from, keeps what is written, and
\* the answer to another thread is not taken for the one to a start that was lost
\* while the microcontroller counts the chunks of an image never sent.
Regular == Without({"again", "oversize", "spi"}) /\ ~ ({"begun", "serial"} \subseteq mcuWorld)

\* The boot loader is never asked for an update when the SPI flash does not hold one
\* whole image of the size asked for: however frames, answers and power are lost.
RequestIsWhole == Regular /\ updateREQ => \E i \in Images : size = Size[i] /\ Stored(i)

\* The MCU is never left without an application it can run, wherever the power
\* fails, unless a write of the boot loader fails.
NeverBricked == Regular /\ Without({"badwrite"}) => mcu # "dead"

\* The boot loader gets whole images only, and the board always has one.
BoardIsSafe == RequestIsWhole /\ NeverBricked

\* When the modem reports that the update is complete, the MCU holds the image and
\* the request for it, whatever was lost or late and whoever else was sending.
ReportIsTrue ==
    [][Regular /\ EndAnswered /\ motaReport' = "ok" =>
         Stored(image) /\ updateREQ /\ size = Size[image]]_mcuVars

\* Every update that is ordered is reported, done or failed, unless the power fails
\* or the modem restarts; and one that is reported as done comes to run, unless
\* another thread's answer is taken for the one to FWEND besides.
OrderIsReported ==
    /\ Without({"cut", "modem"}) => (mota = "start" ~> motaReport # "none")
    /\ Without({"again", "oversize", "badwrite", "spi", "cut", "serial", "modem"}) =>
           (motaReport = "ok" ~> mcu = "app" /\ RunsImage(image))

\* The transmitter is never taken from a thread that waits for its answer: "Must
\* exceed the longest per-send WaitFlag timeout (1000 ms) so a legitimate in-flight
\* transfer is never stolen from its owner" (MCU.c:446-447).  The waits of MOTA.c
\* are longer.
NeverStolen == [][OtherSends => ~ IsSent]_mcuVars
=============================================================================
