-------------------------------- MODULE Fota --------------------------------
(* Firmware over the air: an order to download an image for the modem (FOTA) *)
(* or for the microcontroller (MOTA), its attempts, the download through the *)
(* modem's FTP client, the installation, and what of an order outlives a     *)
(* restart (custom/FTP.c, with SMS.c, Server.c and main.c where they start   *)
(* it).  All of it runs in the server thread; meanwhile the modem reports    *)
(* the end of a download, GPRS comes and goes, and the device restarts.      *)
EXTENDS Naturals

CONSTANTS
    MaxAttempts,    \* the AttemptCount that an order starts with, 3
    MaxOrders,      \* bound: orders in a behaviour
    MaxCuts,        \* bound: restarts in a behaviour
    MaxDrops,       \* bound: losses of GPRS
    Worlds          \* sets of the things that may happen, one per behaviour

Happenings == { "cut",      \* power cuts and resets by a watchdog
                "flash",    \* a file may not be written
                "late",     \* a report of a download that was given up
                "net",      \* GPRS comes and goes
                "switch",   \* the GPRS thread leaves the profile of the SIM
                "epo" }     \* GPS data are downloaded with the same client

ASSUME FotaAssumption ==
    /\ MaxAttempts \in Nat \ {0}
    /\ {MaxOrders, MaxCuts, MaxDrops} \subseteq Nat
    /\ Worlds \subseteq SUBSET Happenings

Kinds == {"fota", "mota"}
Request == [valid : BOOLEAN, left : 0 .. MaxAttempts, kind : Kinds]
NoRequest == [valid |-> FALSE, left |-> 0, kind |-> "fota"]

VARIABLES
    world,
    req,        \* DownloadReq: IsValid, AttemptCount, RequestType
    flash,      \* the record in FOTA_CONFIG_PATH, NoRequest if unreadable
    pending,    \* IsFTPReq
    pc,         \* where the server thread is
    task,       \* what it downloads: an image, or GPS data (FTP_DownloadOnce)
    flags,      \* which of IsFotaProcessing and IsMotaProcessing are set
    ftp,        \* FTPState
    dl,         \* FTPDownloadState
    gotWhole,   \* DownloadedFileSize is the size of the file
    cb,         \* FtpGet_IND_CB is set
    job,        \* the modem downloads
    late,       \* reports of downloads that were given up
    file,       \* the file on the device
    enabled,    \* the sockets are enabled
    updating,   \* Ql_FOTA_Update succeeded: the modem is about to restart
    gprs,       \* GSM.GSMState = GPRS_ACTIVE
    tries,      \* attempts made for the order, to one too many
    resumed,    \* restarts that took the order up again, to one too many
    orders, cuts, drops

record == <<req, flash, pending, tries, resumed>>
report == <<dl, gotWhole, cb>>
session == <<ftp, report, job, late, file>>
sockets == <<enabled, updating>>
device == <<flags, sockets>>
vars == <<world, record, pc, task, session, device, gprs, orders, cuts, drops>>

Upto(n, limit) == IF n > limit THEN limit ELSE n

Reports == {"whole", "part", "error"}

Init ==
    /\ world \in Worlds
    /\ req = NoRequest /\ flash = NoRequest /\ pending = FALSE
    /\ tries = 0 /\ resumed = 0
    /\ pc = "idle" /\ task = "none"
    /\ ftp = "closed" /\ dl = "closed" /\ gotWhole = FALSE
    /\ cb = FALSE /\ job = FALSE /\ late = {} /\ file = "none"
    /\ flags = {} /\ enabled = TRUE /\ updating = FALSE
    /\ gprs = FALSE
    /\ orders = 0 /\ cuts = 0 /\ drops = 0

(* A step of the server thread at p.                                         *)
Step(p) == pc = p /\ UNCHANGED <<world, gprs, orders, cuts, drops>>
Goto(p) == pc' = p

(* UpdateFTPConfigInFlash, which may skip the write at a low voltage.        *)
Save(r) == flash' \in {r} \cup IF "flash" \in world THEN {flash} ELSE {}

-----------------------------------------------------------------------------
(* FTPStart, up to the loop: only a valid request, and a sweep of the disk   *)
(* first.                                                                    *)
Start(r) == /\ task' = IF r.valid THEN "image" ELSE "none"
            /\ Goto(IF r.valid THEN "sweep" ELSE "idle")

(* FOTAPacket, MOTAPacket and the other commands that order a download.      *)
Order ==
    /\ pc = "idle" /\ orders < MaxOrders
    /\ \E k \in Kinds :
          LET r == [valid |-> TRUE, left |-> MaxAttempts, kind |-> k]
          IN  req' = r /\ Save(r) /\ Start(r)
    /\ orders' = orders + 1 /\ tries' = 0 /\ resumed' = 0
    /\ UNCHANGED <<session, device, world, pending, gprs, cuts, drops>>

\* "FOTA INVALID COMMAND": DownloadReq has been cleared before the parsing.
BadOrder ==
    /\ Step("idle")
    /\ req' = NoRequest
    /\ UNCHANGED <<session, device, pc, task, flash, pending, tries, resumed>>

(* handleFTPRequests takes up a request found at the start.                  *)
HandleRequest ==
    /\ Step("idle") /\ gprs /\ ftp = "closed" /\ pending
    /\ pending' = FALSE
    /\ Start(req)
    /\ UNCHANGED <<session, device, req, flash, tries, resumed>>

\* FTP_ClearRecoverableDiskData, then the flag that guards the download.
Sweep ==
    /\ Step("sweep")
    /\ flags' = {req.kind}
    /\ file' = IF req.kind = "mota" THEN "none" ELSE file
    /\ Goto("try")
    /\ UNCHANGED <<record, report, sockets, task, ftp, job, late>>

\* Mutant of Counted: the attempt is not written down for a restart.
CountedInRam(r) == req' = r /\ flash' = flash

Counted(r) == req' = r /\ Save(r)

(* PreFTPRoutine: the last attempt is taken off the record before it starts. *)
Attempt ==
    /\ Step("try")
    /\ ftp' = "init"
    /\ LET left == req.left - 1
       IN  Counted([req EXCEPT !.left = left, !.valid = @ /\ left > 0])
    /\ tries' = Upto(tries + 1, MaxAttempts + 1)
    /\ Goto(IF gprs THEN "login" ELSE "gprs")
    /\ UNCHANGED <<device, report, task, pending, resumed, job, late, file>>

\* Mutant of Abort: FTPState is left as it is.
AbortLeavesState ==
    /\ flags' = {} /\ ftp' = "init"
    /\ Goto(IF req.left > 0 THEN "try" ELSE "idle")
    /\ task' = IF req.left > 0 THEN task ELSE "none"

(* AbortFTPRoutine, and the loop goes on if attempts are left.               *)
Abort ==
    /\ flags' = {}
    /\ ftp' = "closed"
    /\ Goto(IF req.left > 0 THEN "try" ELSE "idle")
    /\ task' = IF req.left > 0 THEN task ELSE "none"

GprsReady ==
    /\ Step("gprs") /\ gprs
    /\ Goto("login")
    /\ UNCHANGED <<record, session, device, task>>

GprsTimeout ==
    /\ Step("gprs") /\ ~ gprs
    /\ Abort
    /\ UNCHANGED <<record, report, sockets, job, late, file>>

-----------------------------------------------------------------------------
(* FTP_Login: three tries at QFTPOPEN.                                       *)
Login ==
    /\ Step("login")
    /\ ftp' = "connected" /\ dl' = "closed"
    /\ Goto("size")
    /\ UNCHANGED <<record, device, task, gotWhole, cb, job, late, file>>

LoginFails ==
    /\ Step("login")
    /\ dl' = "closed"
    /\ IF task = "image" THEN Abort
       ELSE /\ ftp' = "init" /\ Goto("idle") /\ task' = "none"
            /\ UNCHANGED flags
    /\ UNCHANGED <<record, sockets, gotWhole, cb, job, late, file>>

(* RIL_FTP_QFTPCLOSE ends a download; the modem may have reported it before. *)
CloseSession ==
    /\ job' = FALSE
    /\ late' \in {late} \cup IF job /\ "late" \in world
                             THEN {late \cup {r} : r \in Reports} ELSE {}

(* A failed download: the caller's FTP_Logout and AbortFTPRoutine.           *)
DownloadFails ==
    /\ CloseSession
    /\ IF task = "image" THEN Abort
       ELSE /\ ftp' = "closed" /\ Goto("idle") /\ task' = "none"
            /\ UNCHANGED flags

\* The old file is deleted, the server asked for the size, space made for it.
GetSize ==
    /\ Step("size")
    /\ file' = "none" /\ dl' = "busy"
    /\ Goto("get")
    /\ UNCHANGED <<record, device, task, ftp, gotWhole, cb, job, late>>

NoSize ==
    /\ Step("size")
    /\ file' = "none" /\ dl' = "busy"
    /\ DownloadFails
    /\ UNCHANGED <<record, sockets, gotWhole, cb>>

(* RIL_FTP_QFTPGET: the callback is registered when the modem has agreed.    *)
Get ==
    /\ Step("get")
    /\ dl' = "busy" /\ cb' = TRUE /\ job' = TRUE
    /\ Goto("wait")
    /\ UNCHANGED <<record, device, task, ftp, gotWhole, late, file>>

\* The modem refuses: the session is closed, and the wait begins all the same.
GetFails ==
    /\ Step("get")
    /\ dl' = "busy"
    /\ CloseSession
    /\ Goto("wait")
    /\ UNCHANGED <<record, device, task, ftp, gotWhole, cb, file>>

\* A step of the modem or of the GPRS thread: the server thread stays in its.
Modem == UNCHANGED <<world, record, pc, task, device, orders, cuts>>

(* FTP_Callback_OnUpDown, called once for what QFTPGET registered.           *)
Callback(r) ==
    IF cb THEN /\ cb' = FALSE
               /\ dl' = IF r = "error" THEN "error" ELSE "done"
               /\ gotWhole' = IF r = "error" THEN gotWhole ELSE r = "whole"
          ELSE UNCHANGED report

FileGrows ==
    /\ job /\ file = "none"
    /\ file' = "part"
    /\ Modem /\ UNCHANGED <<report, ftp, job, late, gprs, drops>>

JobEnds ==
    /\ job
    /\ job' = FALSE
    /\ \E r \in Reports :
          /\ Callback(r)
          /\ file' = IF r = "error" THEN file ELSE r
    /\ Modem /\ UNCHANGED <<ftp, late, gprs, drops>>

LateReport ==
    /\ \E r \in late : late' = late \ {r} /\ Callback(r)
    /\ Modem /\ UNCHANGED <<ftp, job, file, gprs, drops>>

WaitError ==
    /\ Step("wait") /\ dl = "error"
    /\ DownloadFails
    /\ UNCHANGED <<record, report, sockets, file>>

\* The 300 seconds are over.
WaitTimeout ==
    /\ Step("wait") /\ dl = "busy"
    /\ dl' = "error"
    /\ DownloadFails
    /\ UNCHANGED <<record, sockets, gotWhole, cb, file>>

(* The reported size is right: FTP_Logout, and the file itself is looked at. *)
WaitDone ==
    /\ Step("wait") /\ dl = "done" /\ gotWhole
    /\ CloseSession
    /\ ftp' = "closed"
    /\ Goto("verify")
    /\ UNCHANGED <<record, device, report, task, file>>

\* Another size was reported: the file is deleted.
WrongSize ==
    /\ Step("wait") /\ dl = "done" /\ ~ gotWhole
    /\ file' = "none"
    /\ DownloadFails
    /\ UNCHANGED <<record, report, sockets>>

-----------------------------------------------------------------------------
\* Mutant of FileIsGood: the file is there, its size is not looked at.
FileIsGoodExists == file # "none"

FileIsGood == file = "whole"

\* The file is missing, has another size, or (UFS) cannot be renamed.
NotVerified ==
    /\ Step("verify")
    /\ FileIsGood => task = "image" /\ req.kind = "mota"
    /\ DownloadFails
    /\ UNCHANGED <<record, report, sockets, file>>

\* Mutant of TakenOff: the record in flash stays as it is.
TakenOffInRam == req' = [req EXCEPT !.valid = FALSE] /\ flash' = flash

TakenOff ==
    LET r == [req EXCEPT !.valid = FALSE] IN req' = r /\ Save(r)

(* An image: the request is taken off the record before the installation.    *)
Downloaded ==
    /\ Step("verify") /\ FileIsGood /\ task = "image"
    /\ TakenOff
    /\ ftp' = "closed"
    /\ Goto("install")
    /\ UNCHANGED <<device, report, task, pending, tries, resumed, job, late, file>>

\* GPS data: EPO_FlashInjectFile, whatever it returns, and the file goes.
Inject ==
    /\ Step("verify") /\ FileIsGood /\ task = "epo"
    /\ file' = "none" /\ ftp' = "closed"
    /\ Goto("idle") /\ task' = "none"
    /\ UNCHANGED <<record, device, report, job, late>>

\* FTPStart returns, whatever became of the installation.
Finish == Goto("idle") /\ task' = "none" /\ flags' = {}

(* FOTAUpdate up to Ql_FOTA_Finish fails: AbortFTPRoutine, and the end.      *)
InstallFails ==
    /\ Step("install") /\ req.kind = "fota"
    /\ ftp' = "closed"
    /\ Finish
    /\ UNCHANGED <<record, report, sockets, job, late, file>>

\* The image is with the modem: TCP_CloseALLSockets, and the file is deleted.
InstallReady ==
    /\ Step("install") /\ req.kind = "fota"
    /\ enabled' = FALSE /\ file' = "none"
    /\ Goto("update")
    /\ UNCHANGED <<record, report, task, ftp, job, late, flags, updating>>

\* Mutant of UpdateRefused: the sockets are not enabled again.
UpdateRefusedSilent ==
    /\ Step("update")
    /\ ftp' = "closed"
    /\ Finish
    /\ UNCHANGED <<record, report, sockets, job, late, file>>

(* Ql_FOTA_Update fails: InitSockets and AbortFTPRoutine.                    *)
UpdateRefused ==
    /\ Step("update")
    /\ enabled' = TRUE
    /\ ftp' = "closed"
    /\ Finish
    /\ UNCHANGED <<record, report, job, late, file, updating>>

UpdateStarts ==
    /\ Step("update")
    /\ updating' = TRUE
    /\ Finish
    /\ UNCHANGED <<record, session, enabled>>

(* ProcessMCUOTA (module McuUpdate), whatever it returns.                    *)
InstallMcu ==
    /\ Step("install") /\ req.kind = "mota"
    /\ Finish
    /\ UNCHANGED <<record, session, sockets>>

(* SET EPO: FTP_DownloadOnce.                                                *)
Epo ==
    /\ "epo" \in world
    /\ Step("idle")
    /\ task' = "epo"
    /\ Goto("login")
    /\ UNCHANGED <<record, session, device>>

-----------------------------------------------------------------------------
GprsDrops ==
    /\ "net" \in world /\ gprs /\ drops < MaxDrops
    /\ gprs' = FALSE /\ drops' = drops + 1
    /\ Modem /\ UNCHANGED session

GprsReturns ==
    /\ ~ gprs
    /\ gprs' = TRUE
    /\ Modem /\ UNCHANGED <<session, drops>>

(* SwitchProfile in the GPRS thread, but not while a flag is set.            *)
SwitchProfile ==
    /\ "switch" \in world /\ gprs /\ drops < MaxDrops
    /\ flags = {}
    /\ gprs' = FALSE /\ drops' = drops + 1
    /\ Modem /\ UNCHANGED session

(* The next steps that write the record: a cut in them may leave no record.  *)
Saving == \/ pc \in {"try", "verify"} /\ task = "image"
          \/ pc = "boot" /\ flash.valid

Restart ==
    /\ req' = NoRequest /\ pending' = FALSE
    /\ Goto("boot") /\ task' = "none"
    /\ ftp' = "closed" /\ dl' = "closed" /\ gotWhole' = FALSE
    /\ cb' = FALSE /\ job' = FALSE /\ late' = {}
    /\ file' \in {file, "none"}
    /\ flags' = {} /\ enabled' = TRUE /\ updating' = FALSE
    /\ gprs' = FALSE
    /\ UNCHANGED <<world, tries, resumed, orders, drops>>

PowerCut ==
    /\ "cut" \in world /\ cuts < MaxCuts
    /\ cuts' = cuts + 1
    /\ flash' \in {flash} \cup IF Saving THEN {NoRequest} ELSE {}
    /\ Restart

\* The modem restarts with the new firmware.
Reboot ==
    /\ updating
    /\ Restart
    /\ UNCHANGED <<flash, cuts>>

(* LoadFTPConfig, and system_init takes the record back: "one-shot".         *)
Boot ==
    /\ Step("boot")
    /\ req' = flash /\ pending' = flash.valid
    /\ IF flash.valid THEN /\ Save([flash EXCEPT !.valid = FALSE])
                           /\ resumed' = Upto(resumed + 1, 2)
                      ELSE UNCHANGED <<flash, resumed>>
    /\ Goto("idle")
    /\ UNCHANGED <<session, device, task, tries>>

Server ==
    \/ HandleRequest \/ Sweep \/ Attempt \/ GprsReady \/ GprsTimeout
    \/ Login \/ LoginFails \/ GetSize \/ NoSize \/ Get \/ GetFails
    \/ WaitError \/ WaitTimeout \/ WaitDone \/ WrongSize
    \/ NotVerified \/ Downloaded \/ Inject
    \/ InstallFails \/ InstallReady \/ UpdateRefused \/ UpdateStarts \/ InstallMcu
    \/ Boot

Next ==
    \/ Server \/ Order \/ BadOrder \/ Epo
    \/ FileGrows \/ JobEnds \/ LateReport
    \/ GprsDrops \/ GprsReturns \/ SwitchProfile
    \/ PowerCut \/ Reboot

Spec == Init /\ [][Next]_vars

(* The server thread runs and the modem restarts after an update; nothing    *)
(* makes the modem report the end of a download.                             *)
FairSpec == Spec /\ WF_vars(Server) /\ WF_vars(Reboot)

-----------------------------------------------------------------------------
(* Every variable has a value its code can give it.                          *)
TypeOK ==
    /\ world \in Worlds
    /\ {req, flash} \subseteq Request
    /\ {pending, gotWhole, cb, job, enabled, updating, gprs} \subseteq BOOLEAN
    /\ pc \in {"boot", "idle", "sweep", "try", "gprs", "login", "size", "get",
               "wait", "verify", "install", "update"}
    /\ task \in {"none", "image", "epo"}
    /\ flags \subseteq Kinds
    /\ ftp \in {"closed", "init", "connected"}
    /\ dl \in {"closed", "busy", "done", "error"}
    /\ late \subseteq Reports /\ file \in {"none", "part", "whole"}
    /\ {tries, resumed, orders, cuts, drops} \subseteq Nat

(* "AttemptCount is initialised to 3" (FTP.c): however often the device      *)
(* restarts, an order makes no more attempts than that, unless the record    *)
(* cannot be written.                                                        *)
AttemptsBounded == "flash" \notin world => tries <= MaxAttempts

(* What is installed is the whole file, whichever download was reported as   *)
(* done and whatever it left on the device; and by then the order is off the *)
(* record, so that an installation that restarts the device is not repeated. *)
Installs == InstallReady \/ InstallMcu \/ Inject
InstallsWhole ==
    [][Installs => /\ file = "whole"
                   /\ (task = "image" /\ "flash" \notin world) => ~ flash.valid]_vars

(* "every early return after this point MUST restore the sockets" (FTP.c):   *)
(* a server thread that is not in a download finds the sockets enabled, the  *)
(* flags clear and the client closed, and the modem does not download.  (SET *)
(* EPO leaves FTPState at FTP_STATE_INIT when the login fails.)              *)
LeavesNothingBehind ==
    (pc = "idle" /\ ~ updating) =>
        /\ enabled /\ flags = {} /\ ~ job
        /\ "epo" \notin world => ftp = "closed"

(* With GPRS an order found at the start is taken up, and every download     *)
(* ends, though the modem may never report.                                  *)
OrderEnds == ("epo" \notin world /\ <>[]gprs)
                 => []<>(pc = "idle" /\ ~ pending)

(* "The auto-resume is ONE-SHOT ... a wedged or reset attempt cannot re-arm  *)
(* itself" (main.c).  PreFTPRoutine writes the request back as valid.        *)
OneShot == "flash" \notin world => resumed <= 1

=============================================================================
