----------------------------- MODULE MCFirmware -----------------------------
(* The two ways in which firmware is renewed: Fota, the download, with what   *)
(* disturbs it taken together where it interacts; and McuUpdate, the transfer *)
(* to the microcontroller, with small images.  A behaviour is one of the two: *)
(* ProcessMCUOTA, which Fota calls when a download of kind "mota" is there,   *)
(* is a call of the server thread in the one and the subject of the other.    *)
EXTENDS Fota, McuUpdate

VARIABLE part \* "download" or "transfer"; nothing changes it

FirmwareInit == /\ part \in {"download", "transfer"}
                /\ Init /\ McuInit
                /\ part = "download" => mcuWorld = {}
                /\ part = "transfer" => world = {"cut", "epo"}

(* The transfer may stop for good: the orders are bounded, a board may be     *)
(* dead.  The server thread of the download must never be stuck.             *)
FirmwareNext == /\ \/ part = "download" /\ Next /\ UNCHANGED mcuVars
                   \/ part = "transfer" /\ McuNext /\ UNCHANGED vars
                   \/ part = "transfer" /\ UNCHANGED <<vars, mcuVars>>
                /\ UNCHANGED part

(* The fairness of the one that happens: FairSpec's or McuFairSpec's.        *)
Down == part = "download"
Over == part = "transfer"

FirmwareSpec == /\ FirmwareInit
                /\ [][FirmwareNext]_<<part, vars, mcuVars>>
                /\ WF_vars(Down /\ Server) /\ WF_vars(Down /\ Reboot)
                /\ WF_mcuVars(Over /\ Transfer) /\ WF_mcuVars(Over /\ Receives)
                /\ WF_mcuVars(Over /\ Application) /\ WF_mcuVars(Over /\ BootLoader)

FotaWorlds ==
    {{"cut", "net"}, {"cut", "late", "switch"}, {"cut", "flash"},
     {"late", "epo", "net"}, {"cut", "epo"}}

CONSTANTS old, new, alt, big

MCSize == [i \in Images |-> CASE i \in {old, alt} -> 2 [] i = new -> 3 [] i = big -> 5]
MotaWorlds == {{}, {"late", "noise", "serial"}, {"cut", "noise"},
               {"begun", "late", "noise"}, {"late", "modem", "noise"},
               {"again", "badwrite", "oversize", "spi"}}

=============================================================================
