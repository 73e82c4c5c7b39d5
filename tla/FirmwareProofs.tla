--------------------------- MODULE FirmwareProofs ---------------------------
(***************************************************************************)
(* Theorems about the two ways in which firmware is renewed: Fota, the       *)
(* download of the modem's own, for any number of attempts, orders, restarts *)
(* and losses of GPRS; and McuUpdate, the transfer of the microcontroller's, *)
(* for any images, sizes and flashes, and any number of retries and orders.  *)
(* Both for any set of worlds.                                               *)
(***************************************************************************)
EXTENDS Fota, McuUpdate, TLAPS

\* A request that is taken up, and a loop that goes on, has an attempt left.
LeftOK ==
    /\ req.valid => req.left > 0
    /\ flash.valid => flash.left > 0
    /\ pc \in {"sweep", "try"} => req.left > 0

\* The task of the server thread, by the place where it is.
Resting == {"boot", "idle"}
TaskOK ==
    /\ task = "none" <=> pc \in Resting
    /\ pc \in {"sweep", "try", "gprs", "install", "update"} => task = "image"
    /\ "epo" \notin world => task # "epo"

\* The counters, and the rest of TypeOK.
Counters == /\ tries \in Nat /\ resumed \in Nat
            /\ orders \in Nat /\ cuts \in Nat /\ drops \in Nat
Shape ==
    /\ world \in Worlds /\ req \in Request /\ flash \in Request
    /\ {pending, gotWhole, cb, job, enabled, updating, gprs} \subseteq BOOLEAN
    /\ pc \in {"boot", "idle", "sweep", "try", "gprs", "login", "size", "get",
               "wait", "verify", "install", "update"}
    /\ task \in {"none", "image", "epo"}
    /\ flags \subseteq Kinds
    /\ ftp \in {"closed", "init", "connected"}
    /\ dl \in {"closed", "busy", "done", "error"}
    /\ late \subseteq Reports /\ file \in {"none", "part", "whole"}

TypeInv == Counters /\ Shape /\ LeftOK /\ TaskOK

\* The attempts made and the attempts left, in memory and in flash.
CountInv ==
    "flash" \notin world =>
        /\ tries + req.left <= MaxAttempts
        /\ tries + flash.left <= MaxAttempts

\* What a download has opened and not yet closed, by the place where it is.
HeldInv ==
    /\ job => pc = "wait"
    /\ ~ enabled => pc = "update" \/ updating
    /\ task # "image" => flags = {}
    /\ pc \in {"install", "update"} => ftp = "closed"
    /\ pc \in Resting /\ "epo" \notin world => ftp = "closed"

\* What is about to be installed.
ImageInv ==
    pc = "install" => /\ file = "whole"
                      /\ "flash" \notin world => ~ flash.valid

-----------------------------------------------------------------------------
LEMMA Bounds ==
    /\ MaxAttempts \in Nat /\ MaxAttempts > 0
    /\ MaxOrders \in Nat /\ MaxCuts \in Nat /\ MaxDrops \in Nat
BY FotaAssumption

(* What is saved: the record, or with a flash that fails what was there.     *)
LEMMA Saved ==
    ASSUME NEW r, Save(r)
    PROVE  flash' = r \/ (flash' = flash /\ "flash" \in world)
BY DEF Save

(* The request of an attempt: one less, and off the record with the last.    *)
LEMMA OneLess ==
    ASSUME NEW r \in Request, r.left > 0,
           NEW s, s = [r EXCEPT !.left = r.left - 1,
                                !.valid = @ /\ r.left - 1 > 0]
    PROVE  s \in Request /\ s.left = r.left - 1 /\ (s.valid => s.left > 0)
<1>1. r.left - 1 \in 0 .. MaxAttempts
  BY Bounds DEF Request
<1>2. CASE r.left - 1 > 0
  <2>1. (r.valid /\ r.left - 1 > 0) = r.valid
    BY <1>2 DEF Request
  <2>2. s = [r EXCEPT !.left = r.left - 1, !.valid = r.valid]
    BY <2>1
  <2> QED
    BY <1>1, <1>2, <2>2 DEF Request
<1>3. CASE ~ (r.left - 1 > 0)
  <2>1. (r.valid /\ r.left - 1 > 0) = FALSE
    BY <1>3 DEF Request
  <2>2. s = [r EXCEPT !.left = r.left - 1, !.valid = FALSE]
    BY <2>1
  <2> QED
    BY <1>1, <2>2 DEF Request
<1> QED
  BY <1>2, <1>3

(* The request of an order.                                                  *)
LEMMA Ordered ==
    ASSUME Order
    PROVE  /\ req' \in Request /\ req'.valid /\ req'.left = MaxAttempts
           /\ flash' \in {req', flash}
           /\ "flash" \notin world => flash' = req'
           /\ task' = "image" /\ pc' = "sweep"
<1>1. PICK k \in Kinds :
          LET r == [valid |-> TRUE, left |-> MaxAttempts, kind |-> k]
          IN  req' = r /\ Save(r) /\ Start(r)
  BY DEF Order
<1>2. /\ req' = [valid |-> TRUE, left |-> MaxAttempts, kind |-> k]
      /\ Save(req') /\ Start(req')
  BY <1>1
<1>3. req' \in Request /\ req'.valid /\ req'.left = MaxAttempts
  BY <1>2, Bounds DEF Request
<1> QED
  BY <1>2, <1>3 DEF Save, Start, Goto

(* A request that is taken off the record.                                   *)
LEMMA Off ==
    ASSUME NEW r \in Request, NEW s, s = [r EXCEPT !.valid = FALSE]
    PROVE  s \in Request /\ s.left = r.left /\ ~ s.valid
BY DEF Request

(* What a request can be, and the counters.                                  *)
LEMMA Requests ==
    /\ NoRequest \in Request /\ ~ NoRequest.valid /\ NoRequest.left = 0
    /\ \A r \in Request : r.left \in Nat /\ r.valid \in BOOLEAN
                           /\ r.kind \in Kinds
BY Bounds DEF NoRequest, Request, Kinds

LEMMA Capped == \A n, l \in Nat : Upto(n, l) \in Nat
BY DEF Upto

LEMMA WorldStays == [Next]_vars => world' = world
BY DEF Next, Server, Step, Modem, Restart, vars, HandleRequest, Sweep,
   Attempt, GprsReady, GprsTimeout, Login, LoginFails, GetSize, NoSize, Get,
   GetFails, WaitError, WaitTimeout, WaitDone, WrongSize, NotVerified,
   Downloaded, Inject, InstallFails, InstallReady, UpdateRefused,
   UpdateStarts, InstallMcu, Boot, Order, BadOrder, Epo, FileGrows, JobEnds,
   LateReport, GprsDrops, GprsReturns, SwitchProfile, PowerCut, Reboot

LEMMA TypeInit == Init => TypeInv
BY Bounds, Requests DEF Init, TypeInv, Counters, Shape, LeftOK, TaskOK, Resting

LEMMA TypeStep == TypeInv /\ [Next]_vars => TypeInv'
<1> SUFFICES ASSUME TypeInv, [Next]_vars PROVE TypeInv'
  OBVIOUS
<1>1. CASE HandleRequest
  BY <1>1, Bounds, Requests, Capped DEF HandleRequest, Step, Start, session,
     device, sockets, report, Goto, TypeInv, Counters, Shape, LeftOK,
     TaskOK, Resting
<1>2. CASE Sweep
  <2>1. Counters'
    BY <1>2, Bounds, Requests, Capped DEF Sweep, Step, Goto, record, report,
       sockets, TypeInv, Counters, Shape, LeftOK, TaskOK, Resting
  <2>2. Shape'
    BY <1>2, Bounds, Requests, Capped DEF Sweep, Step, Goto, record, report,
       sockets, TypeInv, Counters, Shape, LeftOK, TaskOK, Resting
  <2>3. LeftOK'
    BY <1>2, Bounds, Requests, Capped DEF Sweep, Step, Goto, record, report,
       sockets, TypeInv, Counters, Shape, LeftOK, TaskOK, Resting
  <2>4. TaskOK'
    BY <1>2, Bounds, Requests, Capped DEF Sweep, Step, Goto, record, report,
       sockets, TypeInv, Counters, Shape, LeftOK, TaskOK, Resting
  <2> QED
    BY <2>1, <2>2, <2>3, <2>4 DEF TypeInv
<1>3. CASE Attempt
  <2>1. /\ pc = "try" /\ tries' = Upto(tries + 1, MaxAttempts + 1)
        /\ UNCHANGED <<world, gprs, orders, cuts, drops, resumed>>
    BY <1>3 DEF Attempt, Step
  <2>2. Counters'
    BY <2>1, Bounds, Capped DEF TypeInv, Counters
  <2>3. /\ req' \in Request /\ flash' \in {req', flash}
        /\ req'.valid => req'.left > 0
    BY <1>3, <2>1, OneLess DEF Attempt, Counted, Save, TypeInv, Shape, LeftOK
  <2>4. Shape' /\ LeftOK' /\ TaskOK'
    BY <1>3, <2>1, <2>3 DEF Attempt, Goto, TypeInv, Shape, LeftOK, TaskOK,
       Resting, device, sockets, report
  <2> QED
    BY <2>2, <2>4 DEF TypeInv
<1>4. CASE GprsReady
  BY <1>4, Bounds, Requests, Capped DEF GprsReady, Step, Goto, record,
     session, device, sockets, report, TypeInv, Counters, Shape, LeftOK,
     TaskOK, Resting
<1>5. CASE GprsTimeout
  BY <1>5, Bounds, Requests, Capped DEF GprsTimeout, Step, Abort, record,
     report, sockets, Goto, TypeInv, Counters, Shape, LeftOK, TaskOK,
     Resting
<1>6. CASE Login
  BY <1>6, Bounds, Requests, Capped DEF Login, Step, Goto, record, device,
     sockets, TypeInv, Counters, Shape, LeftOK, TaskOK, Resting
<1>7. CASE LoginFails
  BY <1>7, Bounds, Requests, Capped DEF LoginFails, Step, Abort, Goto,
     record, sockets, TypeInv, Counters, Shape, LeftOK, TaskOK, Resting
<1>8. CASE GetSize
  BY <1>8, Bounds, Requests, Capped DEF GetSize, Step, Goto, record, device,
     sockets, TypeInv, Counters, Shape, LeftOK, TaskOK, Resting
<1>9. CASE NoSize
  BY <1>9, Bounds, Requests, Capped DEF NoSize, Step, DownloadFails, record,
     sockets, CloseSession, Abort, Goto, Reports, TypeInv, Counters, Shape,
     LeftOK, TaskOK, Resting
<1>10. CASE Get
  BY <1>10, Bounds, Requests, Capped DEF Get, Step, Goto, record, device,
     sockets, TypeInv, Counters, Shape, LeftOK, TaskOK, Resting
<1>11. CASE GetFails
  BY <1>11, Bounds, Requests, Capped DEF GetFails, Step, CloseSession, Goto,
     record, device, sockets, Reports, TypeInv, Counters, Shape, LeftOK,
     TaskOK, Resting
<1>12. CASE WaitError
  BY <1>12, Bounds, Requests, Capped DEF WaitError, Step, DownloadFails,
     record, report, sockets, CloseSession, Abort, Goto, Reports, TypeInv,
     Counters, Shape, LeftOK, TaskOK, Resting
<1>13. CASE WaitTimeout
  BY <1>13, Bounds, Requests, Capped DEF WaitTimeout, Step, DownloadFails,
     record, sockets, CloseSession, Abort, Goto, Reports, TypeInv, Counters,
     Shape, LeftOK, TaskOK, Resting
<1>14. CASE WaitDone
  BY <1>14, Bounds, Requests, Capped DEF WaitDone, Step, CloseSession, Goto,
     record, device, report, sockets, Reports, TypeInv, Counters, Shape,
     LeftOK, TaskOK, Resting
<1>15. CASE WrongSize
  BY <1>15, Bounds, Requests, Capped DEF WrongSize, Step, DownloadFails,
     record, report, sockets, CloseSession, Abort, Goto, Reports, TypeInv,
     Counters, Shape, LeftOK, TaskOK, Resting
<1>16. CASE NotVerified
  BY <1>16, Bounds, Requests, Capped DEF NotVerified, Step, FileIsGood,
     DownloadFails, record, report, sockets, CloseSession, Abort, Goto,
     Reports, TypeInv, Counters, Shape, LeftOK, TaskOK, Resting
<1>17. CASE Downloaded
  BY <1>17, Bounds, Requests, Capped, Off DEF Downloaded, Step, FileIsGood,
     TakenOff, Goto, device, report, sockets, Save, TypeInv, Counters,
     Shape, LeftOK, TaskOK, Resting
<1>18. CASE Inject
  BY <1>18, Bounds, Requests, Capped DEF Inject, Step, FileIsGood, Goto,
     record, device, report, sockets, TypeInv, Counters, Shape, LeftOK,
     TaskOK, Resting
<1>19. CASE InstallFails
  BY <1>19, Bounds, Requests, Capped DEF InstallFails, Step, Finish, record,
     report, sockets, Goto, TypeInv, Counters, Shape, LeftOK, TaskOK,
     Resting
<1>20. CASE InstallReady
  BY <1>20, Bounds, Requests, Capped DEF InstallReady, Step, Goto, record,
     report, TypeInv, Counters, Shape, LeftOK, TaskOK, Resting
<1>21. CASE UpdateRefused
  BY <1>21, Bounds, Requests, Capped DEF UpdateRefused, Step, Finish,
     record, report, Goto, TypeInv, Counters, Shape, LeftOK, TaskOK, Resting
<1>22. CASE UpdateStarts
  BY <1>22, Bounds, Requests, Capped DEF UpdateStarts, Step, Finish, record,
     session, report, Goto, TypeInv, Counters, Shape, LeftOK, TaskOK,
     Resting
<1>23. CASE InstallMcu
  BY <1>23, Bounds, Requests, Capped DEF InstallMcu, Step, Finish, record,
     session, sockets, report, Goto, TypeInv, Counters, Shape, LeftOK,
     TaskOK, Resting
<1>24. CASE Boot
  <2>1. /\ pc = "boot" /\ UNCHANGED <<world, gprs, orders, cuts, drops, tries>>
        /\ resumed' \in {resumed, Upto(resumed + 1, 2)}
    BY <1>24 DEF Boot, Step
  <2>2. Counters'
    BY <2>1, Capped DEF TypeInv, Counters
  <2>3. /\ req' = flash /\ flash' \in Request
        /\ flash' = flash \/ ~ flash'.valid
        /\ pc' = "idle" /\ pending' = flash.valid
    BY <1>24, <2>1, Off DEF Boot, Goto, Save, TypeInv, Shape
  <2>4. Shape'
    BY <1>24, <2>1, <2>3, Requests DEF Boot, TypeInv, Shape, session, report,
       device, sockets
  <2>5. LeftOK' /\ TaskOK'
    BY <1>24, <2>1, <2>3 DEF Boot, TypeInv, LeftOK, TaskOK, Resting
  <2> QED
    BY <2>2, <2>4, <2>5 DEF TypeInv
<1>25. CASE Order
  <2>1. /\ pc = "idle" /\ orders' = orders + 1 /\ tries' = 0 /\ resumed' = 0
        /\ UNCHANGED <<session, device, world, pending, gprs, cuts, drops>>
    BY <1>25 DEF Order
  <2>2. Counters'
    BY <2>1 DEF TypeInv, Counters
  <2>3. Shape' /\ LeftOK' /\ TaskOK'
    BY <1>25, <2>1, Ordered, Bounds DEF TypeInv, Shape, LeftOK, TaskOK, Resting,
       session, report, device, sockets
  <2> QED
    BY <2>2, <2>3 DEF TypeInv
<1>26. CASE BadOrder
  BY <1>26, Bounds, Requests, Capped DEF BadOrder, Step, session, device,
     sockets, report, TypeInv, Counters, Shape, LeftOK, TaskOK, Resting
<1>27. CASE Epo
  BY <1>27, Bounds, Requests, Capped DEF Epo, Step, Goto, record, session,
     device, sockets, report, TypeInv, Counters, Shape, LeftOK, TaskOK,
     Resting
<1>28. CASE FileGrows
  BY <1>28, Bounds, Requests, Capped DEF FileGrows, Modem, report, record,
     device, sockets, TypeInv, Counters, Shape, LeftOK, TaskOK, Resting
<1>29. CASE JobEnds
  <2>1. Counters'
    BY <1>29, Bounds, Requests, Capped DEF JobEnds, Reports, Callback,
       Modem, record, device, sockets, report, TypeInv, Counters, Shape,
       LeftOK, TaskOK, Resting
  <2>2. Shape'
    BY <1>29, Bounds, Requests, Capped DEF JobEnds, Reports, Callback,
       Modem, record, device, sockets, report, TypeInv, Counters, Shape,
       LeftOK, TaskOK, Resting
  <2>3. LeftOK'
    BY <1>29, Bounds, Requests, Capped DEF JobEnds, Reports, Callback,
       Modem, record, device, sockets, report, TypeInv, Counters, Shape,
       LeftOK, TaskOK, Resting
  <2>4. TaskOK'
    BY <1>29, Bounds, Requests, Capped DEF JobEnds, Reports, Callback,
       Modem, record, device, sockets, report, TypeInv, Counters, Shape,
       LeftOK, TaskOK, Resting
  <2> QED
    BY <2>1, <2>2, <2>3, <2>4 DEF TypeInv
<1>30. CASE LateReport
  <2>1. Counters'
    BY <1>30, Bounds, Requests, Capped DEF LateReport, Callback, Modem,
       record, device, sockets, report, TypeInv, Counters, Shape, LeftOK,
       TaskOK, Resting
  <2>2. Shape'
    BY <1>30, Bounds, Requests, Capped DEF LateReport, Callback, Modem,
       record, device, sockets, report, TypeInv, Counters, Shape, LeftOK,
       TaskOK, Resting
  <2>3. LeftOK'
    BY <1>30, Bounds, Requests, Capped DEF LateReport, Callback, Modem,
       record, device, sockets, report, TypeInv, Counters, Shape, LeftOK,
       TaskOK, Resting
  <2>4. TaskOK'
    BY <1>30, Bounds, Requests, Capped DEF LateReport, Callback, Modem,
       record, device, sockets, report, TypeInv, Counters, Shape, LeftOK,
       TaskOK, Resting
  <2> QED
    BY <2>1, <2>2, <2>3, <2>4 DEF TypeInv
<1>31. CASE GprsDrops
  <2>1. Counters'
    BY <1>31, Bounds, Requests, Capped DEF GprsDrops, Modem, session,
       report, record, device, sockets, TypeInv, Counters, Shape, LeftOK,
       TaskOK, Resting
  <2>2. Shape'
    BY <1>31, Bounds, Requests, Capped DEF GprsDrops, Modem, session,
       report, record, device, sockets, TypeInv, Counters, Shape, LeftOK,
       TaskOK, Resting
  <2>3. LeftOK'
    BY <1>31, Bounds, Requests, Capped DEF GprsDrops, Modem, session,
       report, record, device, sockets, TypeInv, Counters, Shape, LeftOK,
       TaskOK, Resting
  <2>4. TaskOK'
    BY <1>31, Bounds, Requests, Capped DEF GprsDrops, Modem, session,
       report, record, device, sockets, TypeInv, Counters, Shape, LeftOK,
       TaskOK, Resting
  <2> QED
    BY <2>1, <2>2, <2>3, <2>4 DEF TypeInv
<1>32. CASE GprsReturns
  <2>1. Counters'
    BY <1>32, Bounds, Requests, Capped DEF GprsReturns, Modem, session,
       report, record, device, sockets, TypeInv, Counters, Shape, LeftOK,
       TaskOK, Resting
  <2>2. Shape'
    BY <1>32, Bounds, Requests, Capped DEF GprsReturns, Modem, session,
       report, record, device, sockets, TypeInv, Counters, Shape, LeftOK,
       TaskOK, Resting
  <2>3. LeftOK'
    BY <1>32, Bounds, Requests, Capped DEF GprsReturns, Modem, session,
       report, record, device, sockets, TypeInv, Counters, Shape, LeftOK,
       TaskOK, Resting
  <2>4. TaskOK'
    BY <1>32, Bounds, Requests, Capped DEF GprsReturns, Modem, session,
       report, record, device, sockets, TypeInv, Counters, Shape, LeftOK,
       TaskOK, Resting
  <2> QED
    BY <2>1, <2>2, <2>3, <2>4 DEF TypeInv
<1>33. CASE SwitchProfile
  <2>1. Counters'
    BY <1>33, Bounds, Requests, Capped DEF SwitchProfile, Modem, session,
       report, record, device, sockets, TypeInv, Counters, Shape, LeftOK,
       TaskOK, Resting
  <2>2. Shape'
    BY <1>33, Bounds, Requests, Capped DEF SwitchProfile, Modem, session,
       report, record, device, sockets, TypeInv, Counters, Shape, LeftOK,
       TaskOK, Resting
  <2>3. LeftOK'
    BY <1>33, Bounds, Requests, Capped DEF SwitchProfile, Modem, session,
       report, record, device, sockets, TypeInv, Counters, Shape, LeftOK,
       TaskOK, Resting
  <2>4. TaskOK'
    BY <1>33, Bounds, Requests, Capped DEF SwitchProfile, Modem, session,
       report, record, device, sockets, TypeInv, Counters, Shape, LeftOK,
       TaskOK, Resting
  <2> QED
    BY <2>1, <2>2, <2>3, <2>4 DEF TypeInv
<1>34. CASE PowerCut
  <2>1. Counters'
    BY <1>34, Bounds, Requests, Capped DEF PowerCut, Saving, Restart, Goto,
       TypeInv, Counters, Shape, LeftOK, TaskOK, Resting
  <2>2. Shape'
    BY <1>34, Bounds, Requests, Capped DEF PowerCut, Saving, Restart, Goto,
       TypeInv, Counters, Shape, LeftOK, TaskOK, Resting
  <2>3. LeftOK'
    BY <1>34, Bounds, Requests, Capped DEF PowerCut, Saving, Restart, Goto,
       TypeInv, Counters, Shape, LeftOK, TaskOK, Resting
  <2>4. TaskOK'
    BY <1>34, Bounds, Requests, Capped DEF PowerCut, Saving, Restart, Goto,
       TypeInv, Counters, Shape, LeftOK, TaskOK, Resting
  <2> QED
    BY <2>1, <2>2, <2>3, <2>4 DEF TypeInv
<1>35. CASE Reboot
  BY <1>35, Bounds, Requests, Capped DEF Reboot, Restart, Goto, TypeInv,
     Counters, Shape, LeftOK, TaskOK, Resting
<1>36. CASE UNCHANGED vars
  BY <1>36 DEF vars, record, session, report, device, sockets, TypeInv,
     Counters, Shape, LeftOK, TaskOK, Resting
<1> QED
  BY <1>1, <1>2, <1>3, <1>4, <1>5, <1>6, <1>7, <1>8, <1>9, <1>10, <1>11,
     <1>12, <1>13, <1>14, <1>15, <1>16, <1>17, <1>18, <1>19, <1>20, <1>21,
     <1>22, <1>23, <1>24, <1>25, <1>26, <1>27, <1>28, <1>29, <1>30, <1>31,
     <1>32, <1>33, <1>34, <1>35, <1>36 DEF Next, Server

(* Every variable has a value its code can give it.                          *)
THEOREM FotaType == Spec => []TypeOK
<1>1. TypeInv => TypeOK
  BY DEF TypeInv, TypeOK, Counters, Shape
<1> QED
  BY <1>1, TypeInit, TypeStep, PTL DEF Spec

-----------------------------------------------------------------------------
LEMMA CountInit == Init => CountInv
BY Bounds, Requests DEF Init, CountInv

LEMMA CountStep == TypeInv /\ CountInv /\ [Next]_vars => CountInv'
<1> SUFFICES ASSUME TypeInv, CountInv, [Next]_vars PROVE CountInv'
  OBVIOUS
<1>0. world' = world
  BY WorldStays
<1>1. CASE HandleRequest
  BY <1>1, <1>0, Bounds, Requests DEF HandleRequest, Step, Start, TypeInv,
     Counters, Shape, LeftOK, CountInv
<1>2. CASE Sweep
  BY <1>2, <1>0, Bounds, Requests DEF Sweep, Step, record, TypeInv,
     Counters, Shape, LeftOK, CountInv
<1>3. CASE Attempt
  <2>1. /\ pc = "try" /\ tries' = Upto(tries + 1, MaxAttempts + 1)
        /\ Counted([req EXCEPT !.left = req.left - 1,
                                !.valid = @ /\ req.left - 1 > 0])
    BY <1>3 DEF Attempt, Step
  <2>2. req'.left = req.left - 1 /\ ("flash" \notin world => flash' = req')
    BY <2>1, OneLess DEF Counted, Save, TypeInv, Shape, LeftOK
  <2>3. tries' <= tries + 1 /\ tries' \in Nat
    BY <2>1, Bounds DEF Upto, TypeInv, Counters
  <2>4. req.left \in Nat /\ tries \in Nat
    BY Requests DEF TypeInv, Shape, Counters
  <2> QED
    BY <1>0, <2>2, <2>3, <2>4, Bounds DEF CountInv
<1>4. CASE GprsReady
  BY <1>4, <1>0, Bounds, Requests DEF GprsReady, Step, record, TypeInv,
     Counters, Shape, LeftOK, CountInv
<1>5. CASE GprsTimeout
  BY <1>5, <1>0, Bounds, Requests DEF GprsTimeout, Step, record, TypeInv,
     Counters, Shape, LeftOK, CountInv
<1>6. CASE Login
  BY <1>6, <1>0, Bounds, Requests DEF Login, Step, record, TypeInv,
     Counters, Shape, LeftOK, CountInv
<1>7. CASE LoginFails
  BY <1>7, <1>0, Bounds, Requests DEF LoginFails, Step, record, TypeInv,
     Counters, Shape, LeftOK, CountInv
<1>8. CASE GetSize
  BY <1>8, <1>0, Bounds, Requests DEF GetSize, Step, record, TypeInv,
     Counters, Shape, LeftOK, CountInv
<1>9. CASE NoSize
  BY <1>9, <1>0, Bounds, Requests DEF NoSize, Step, record, TypeInv,
     Counters, Shape, LeftOK, CountInv
<1>10. CASE Get
  BY <1>10, <1>0, Bounds, Requests DEF Get, Step, record, TypeInv, Counters,
     Shape, LeftOK, CountInv
<1>11. CASE GetFails
  BY <1>11, <1>0, Bounds, Requests DEF GetFails, Step, record, TypeInv,
     Counters, Shape, LeftOK, CountInv
<1>12. CASE WaitError
  BY <1>12, <1>0, Bounds, Requests DEF WaitError, Step, record, TypeInv,
     Counters, Shape, LeftOK, CountInv
<1>13. CASE WaitTimeout
  BY <1>13, <1>0, Bounds, Requests DEF WaitTimeout, Step, record, TypeInv,
     Counters, Shape, LeftOK, CountInv
<1>14. CASE WaitDone
  BY <1>14, <1>0, Bounds, Requests DEF WaitDone, Step, record, TypeInv,
     Counters, Shape, LeftOK, CountInv
<1>15. CASE WrongSize
  BY <1>15, <1>0, Bounds, Requests DEF WrongSize, Step, record, TypeInv,
     Counters, Shape, LeftOK, CountInv
<1>16. CASE NotVerified
  BY <1>16, <1>0, Bounds, Requests DEF NotVerified, Step, record, TypeInv,
     Counters, Shape, LeftOK, CountInv
<1>17. CASE Downloaded
  BY <1>17, <1>0, Bounds, Requests, Off DEF Downloaded, Step, TakenOff,
     Save, TypeInv, Counters, Shape, LeftOK, CountInv
<1>18. CASE Inject
  BY <1>18, <1>0, Bounds, Requests DEF Inject, Step, record, TypeInv,
     Counters, Shape, LeftOK, CountInv
<1>19. CASE InstallFails
  BY <1>19, <1>0, Bounds, Requests DEF InstallFails, Step, record, TypeInv,
     Counters, Shape, LeftOK, CountInv
<1>20. CASE InstallReady
  BY <1>20, <1>0, Bounds, Requests DEF InstallReady, Step, record, TypeInv,
     Counters, Shape, LeftOK, CountInv
<1>21. CASE UpdateRefused
  BY <1>21, <1>0, Bounds, Requests DEF UpdateRefused, Step, record, TypeInv,
     Counters, Shape, LeftOK, CountInv
<1>22. CASE UpdateStarts
  BY <1>22, <1>0, Bounds, Requests DEF UpdateStarts, Step, record, TypeInv,
     Counters, Shape, LeftOK, CountInv
<1>23. CASE InstallMcu
  BY <1>23, <1>0, Bounds, Requests DEF InstallMcu, Step, record, TypeInv,
     Counters, Shape, LeftOK, CountInv
<1>24. CASE Boot
  BY <1>24, <1>0, Bounds, Requests, Off DEF Boot, Step, Save, Upto, TypeInv,
     Counters, Shape, LeftOK, CountInv
<1>25. CASE Order
  <2>1. tries' = 0
    BY <1>25 DEF Order
  <2> QED
    BY <1>25, <1>0, <2>1, Ordered, Bounds DEF CountInv, TypeInv, Shape
<1>26. CASE BadOrder
  BY <1>26, <1>0, Bounds, Requests DEF BadOrder, Step, TypeInv, Counters,
     Shape, LeftOK, CountInv
<1>27. CASE Epo
  BY <1>27, <1>0, Bounds, Requests DEF Epo, Step, record, TypeInv, Counters,
     Shape, LeftOK, CountInv
<1>28. CASE FileGrows
  BY <1>28, <1>0, Bounds, Requests DEF FileGrows, Modem, record, TypeInv,
     Counters, Shape, LeftOK, CountInv
<1>29. CASE JobEnds
  BY <1>29, <1>0, Bounds, Requests DEF JobEnds, Reports, Modem, record,
     TypeInv, Counters, Shape, LeftOK, CountInv
<1>30. CASE LateReport
  BY <1>30, <1>0, Bounds, Requests DEF LateReport, Modem, record, TypeInv,
     Counters, Shape, LeftOK, CountInv
<1>31. CASE GprsDrops
  BY <1>31, <1>0, Bounds, Requests DEF GprsDrops, Modem, record, TypeInv,
     Counters, Shape, LeftOK, CountInv
<1>32. CASE GprsReturns
  BY <1>32, <1>0, Bounds, Requests DEF GprsReturns, Modem, record, TypeInv,
     Counters, Shape, LeftOK, CountInv
<1>33. CASE SwitchProfile
  BY <1>33, <1>0, Bounds, Requests DEF SwitchProfile, Modem, record,
     TypeInv, Counters, Shape, LeftOK, CountInv
<1>34. CASE PowerCut
  BY <1>34, <1>0, Bounds, Requests DEF PowerCut, Saving, Restart, TypeInv,
     Counters, Shape, LeftOK, CountInv
<1>35. CASE Reboot
  BY <1>35, <1>0, Bounds, Requests DEF Reboot, Restart, TypeInv, Counters,
     Shape, LeftOK, CountInv
<1>36. CASE UNCHANGED vars
  BY <1>36 DEF vars, record, session, report, device, sockets, TypeInv,
     Counters, Shape, LeftOK, CountInv
<1> QED
  BY <1>1, <1>2, <1>3, <1>4, <1>5, <1>6, <1>7, <1>8, <1>9, <1>10, <1>11,
     <1>12, <1>13, <1>14, <1>15, <1>16, <1>17, <1>18, <1>19, <1>20, <1>21,
     <1>22, <1>23, <1>24, <1>25, <1>26, <1>27, <1>28, <1>29, <1>30, <1>31,
     <1>32, <1>33, <1>34, <1>35, <1>36 DEF Next, Server

LEMMA HeldInit == Init => HeldInv
BY DEF Init, HeldInv, Resting

LEMMA HeldStep == TypeInv /\ HeldInv /\ [Next]_vars => HeldInv'
<1> SUFFICES ASSUME TypeInv, HeldInv, [Next]_vars PROVE HeldInv'
  OBVIOUS
<1>0. world' = world
  BY WorldStays
<1>1. CASE HandleRequest
  BY <1>1, <1>0 DEF HandleRequest, Step, Start, session, device, sockets,
     report, Goto, TypeInv, TaskOK, HeldInv, Resting
<1>2. CASE Sweep
  BY <1>2, <1>0 DEF Sweep, Step, Goto, record, report, sockets, TypeInv,
     TaskOK, HeldInv, Resting
<1>3. CASE Attempt
  BY <1>3, <1>0 DEF Attempt, Step, Goto, device, report, sockets, TypeInv,
     TaskOK, HeldInv, Resting
<1>4. CASE GprsReady
  BY <1>4, <1>0 DEF GprsReady, Step, Goto, record, session, device, sockets,
     report, TypeInv, TaskOK, HeldInv, Resting
<1>5. CASE GprsTimeout
  BY <1>5, <1>0 DEF GprsTimeout, Step, Abort, record, report, sockets, Goto,
     TypeInv, TaskOK, HeldInv, Resting
<1>6. CASE Login
  BY <1>6, <1>0 DEF Login, Step, Goto, record, device, sockets, TypeInv,
     TaskOK, HeldInv, Resting
<1>7. CASE LoginFails
  BY <1>7, <1>0 DEF LoginFails, Step, Abort, Goto, record, sockets, TypeInv,
     TaskOK, HeldInv, Resting, Shape
<1>8. CASE GetSize
  BY <1>8, <1>0 DEF GetSize, Step, Goto, record, device, sockets, TypeInv,
     TaskOK, HeldInv, Resting
<1>9. CASE NoSize
  BY <1>9, <1>0 DEF NoSize, Step, DownloadFails, record, sockets,
     CloseSession, Abort, Goto, Reports, TypeInv, TaskOK, HeldInv, Resting
<1>10. CASE Get
  BY <1>10, <1>0 DEF Get, Step, Goto, record, device, sockets, TypeInv,
     TaskOK, HeldInv, Resting
<1>11. CASE GetFails
  BY <1>11, <1>0 DEF GetFails, Step, CloseSession, Goto, record, device,
     sockets, Reports, TypeInv, TaskOK, HeldInv, Resting
<1>12. CASE WaitError
  BY <1>12, <1>0 DEF WaitError, Step, DownloadFails, record, report,
     sockets, CloseSession, Abort, Goto, Reports, TypeInv, TaskOK, HeldInv,
     Resting
<1>13. CASE WaitTimeout
  BY <1>13, <1>0 DEF WaitTimeout, Step, DownloadFails, record, sockets,
     CloseSession, Abort, Goto, Reports, TypeInv, TaskOK, HeldInv, Resting
<1>14. CASE WaitDone
  BY <1>14, <1>0 DEF WaitDone, Step, CloseSession, Goto, record, device,
     report, sockets, Reports, TypeInv, TaskOK, HeldInv, Resting
<1>15. CASE WrongSize
  BY <1>15, <1>0 DEF WrongSize, Step, DownloadFails, record, report,
     sockets, CloseSession, Abort, Goto, Reports, TypeInv, TaskOK, HeldInv,
     Resting
<1>16. CASE NotVerified
  BY <1>16, <1>0 DEF NotVerified, Step, FileIsGood, DownloadFails, record,
     report, sockets, CloseSession, Abort, Goto, Reports, TypeInv, TaskOK,
     HeldInv, Resting
<1>17. CASE Downloaded
  BY <1>17, <1>0 DEF Downloaded, Step, FileIsGood, Goto, device, report,
     sockets, TypeInv, TaskOK, HeldInv, Resting
<1>18. CASE Inject
  BY <1>18, <1>0 DEF Inject, Step, FileIsGood, Goto, record, device, report,
     sockets, TypeInv, TaskOK, HeldInv, Resting
<1>19. CASE InstallFails
  BY <1>19, <1>0 DEF InstallFails, Step, Finish, record, report, sockets,
     Goto, TypeInv, TaskOK, HeldInv, Resting
<1>20. CASE InstallReady
  BY <1>20, <1>0 DEF InstallReady, Step, Goto, record, report, TypeInv,
     TaskOK, HeldInv, Resting
<1>21. CASE UpdateRefused
  BY <1>21, <1>0 DEF UpdateRefused, Step, Finish, record, report, Goto,
     TypeInv, TaskOK, HeldInv, Resting
<1>22. CASE UpdateStarts
  BY <1>22, <1>0 DEF UpdateStarts, Step, Finish, record, session, report,
     Goto, TypeInv, TaskOK, HeldInv, Resting
<1>23. CASE InstallMcu
  BY <1>23, <1>0 DEF InstallMcu, Step, Finish, record, session, sockets,
     report, Goto, TypeInv, TaskOK, HeldInv, Resting
<1>24. CASE Boot
  BY <1>24, <1>0 DEF Boot, Step, Goto, session, device, sockets, report,
     TypeInv, TaskOK, HeldInv, Resting
<1>25. CASE Order
  BY <1>25, <1>0 DEF Order, Kinds, Start, session, device, sockets, report,
     Goto, TypeInv, TaskOK, HeldInv, Resting
<1>26. CASE BadOrder
  BY <1>26, <1>0 DEF BadOrder, Step, session, device, sockets, report,
     TypeInv, TaskOK, HeldInv, Resting
<1>27. CASE Epo
  BY <1>27, <1>0 DEF Epo, Step, Goto, record, session, device, sockets,
     report, TypeInv, TaskOK, HeldInv, Resting
<1>28. CASE FileGrows
  BY <1>28, <1>0 DEF FileGrows, Modem, report, record, device, sockets,
     TypeInv, TaskOK, HeldInv, Resting
<1>29. CASE JobEnds
  BY <1>29, <1>0 DEF JobEnds, Reports, Callback, Modem, record, device,
     sockets, report, TypeInv, TaskOK, HeldInv, Resting
<1>30. CASE LateReport
  BY <1>30, <1>0 DEF LateReport, Callback, Modem, record, device, sockets,
     report, TypeInv, TaskOK, HeldInv, Resting
<1>31. CASE GprsDrops
  BY <1>31, <1>0 DEF GprsDrops, Modem, session, report, record, device,
     sockets, TypeInv, TaskOK, HeldInv, Resting
<1>32. CASE GprsReturns
  BY <1>32, <1>0 DEF GprsReturns, Modem, session, report, record, device,
     sockets, TypeInv, TaskOK, HeldInv, Resting
<1>33. CASE SwitchProfile
  BY <1>33, <1>0 DEF SwitchProfile, Modem, session, report, record, device,
     sockets, TypeInv, TaskOK, HeldInv, Resting
<1>34. CASE PowerCut
  BY <1>34, <1>0 DEF PowerCut, Saving, Restart, Goto, TypeInv, TaskOK,
     HeldInv, Resting
<1>35. CASE Reboot
  BY <1>35, <1>0 DEF Reboot, Restart, Goto, TypeInv, TaskOK, HeldInv,
     Resting
<1>36. CASE UNCHANGED vars
  BY <1>36 DEF vars, record, session, report, device, sockets, TypeInv,
     TaskOK, HeldInv, Resting
<1> QED
  BY <1>1, <1>2, <1>3, <1>4, <1>5, <1>6, <1>7, <1>8, <1>9, <1>10, <1>11,
     <1>12, <1>13, <1>14, <1>15, <1>16, <1>17, <1>18, <1>19, <1>20, <1>21,
     <1>22, <1>23, <1>24, <1>25, <1>26, <1>27, <1>28, <1>29, <1>30, <1>31,
     <1>32, <1>33, <1>34, <1>35, <1>36 DEF Next, Server

LEMMA ImageInit == Init => ImageInv
BY DEF Init, ImageInv

LEMMA ImageStep == TypeInv /\ HeldInv /\ ImageInv /\ [Next]_vars => ImageInv'
<1> SUFFICES ASSUME TypeInv, HeldInv, ImageInv, [Next]_vars PROVE ImageInv'
  OBVIOUS
<1>0. world' = world
  BY WorldStays
<1>1. CASE HandleRequest
  BY <1>1, <1>0 DEF HandleRequest, Step, Start, session, device, sockets,
     report, Goto, TypeInv, HeldInv, ImageInv
<1>2. CASE Sweep
  BY <1>2, <1>0 DEF Sweep, Step, Goto, record, report, sockets, TypeInv,
     HeldInv, ImageInv
<1>3. CASE Attempt
  BY <1>3, <1>0 DEF Attempt, Step, Goto, device, report, sockets, TypeInv,
     HeldInv, ImageInv
<1>4. CASE GprsReady
  BY <1>4, <1>0 DEF GprsReady, Step, Goto, record, session, device, sockets,
     report, TypeInv, HeldInv, ImageInv
<1>5. CASE GprsTimeout
  BY <1>5, <1>0 DEF GprsTimeout, Step, Abort, record, report, sockets, Goto,
     TypeInv, HeldInv, ImageInv
<1>6. CASE Login
  BY <1>6, <1>0 DEF Login, Step, Goto, record, device, sockets, TypeInv,
     HeldInv, ImageInv
<1>7. CASE LoginFails
  BY <1>7, <1>0 DEF LoginFails, Step, Abort, Goto, record, sockets, TypeInv,
     HeldInv, ImageInv
<1>8. CASE GetSize
  BY <1>8, <1>0 DEF GetSize, Step, Goto, record, device, sockets, TypeInv,
     HeldInv, ImageInv
<1>9. CASE NoSize
  BY <1>9, <1>0 DEF NoSize, Step, DownloadFails, record, sockets,
     CloseSession, Abort, Goto, Reports, TypeInv, HeldInv, ImageInv
<1>10. CASE Get
  BY <1>10, <1>0 DEF Get, Step, Goto, record, device, sockets, TypeInv,
     HeldInv, ImageInv
<1>11. CASE GetFails
  BY <1>11, <1>0 DEF GetFails, Step, CloseSession, Goto, record, device,
     sockets, Reports, TypeInv, HeldInv, ImageInv
<1>12. CASE WaitError
  BY <1>12, <1>0 DEF WaitError, Step, DownloadFails, record, report,
     sockets, CloseSession, Abort, Goto, Reports, TypeInv, HeldInv, ImageInv
<1>13. CASE WaitTimeout
  BY <1>13, <1>0 DEF WaitTimeout, Step, DownloadFails, record, sockets,
     CloseSession, Abort, Goto, Reports, TypeInv, HeldInv, ImageInv
<1>14. CASE WaitDone
  BY <1>14, <1>0 DEF WaitDone, Step, CloseSession, Goto, record, device,
     report, sockets, Reports, TypeInv, HeldInv, ImageInv
<1>15. CASE WrongSize
  BY <1>15, <1>0 DEF WrongSize, Step, DownloadFails, record, report,
     sockets, CloseSession, Abort, Goto, Reports, TypeInv, HeldInv, ImageInv
<1>16. CASE NotVerified
  BY <1>16, <1>0 DEF NotVerified, Step, FileIsGood, DownloadFails, record,
     report, sockets, CloseSession, Abort, Goto, Reports, TypeInv, HeldInv,
     ImageInv
<1>17. CASE Downloaded
  BY <1>17, <1>0, Off DEF Downloaded, Step, FileIsGood, TakenOff, Goto,
     device, report, sockets, Save, TypeInv, HeldInv, ImageInv, Shape
<1>18. CASE Inject
  BY <1>18, <1>0 DEF Inject, Step, FileIsGood, Goto, record, device, report,
     sockets, TypeInv, HeldInv, ImageInv
<1>19. CASE InstallFails
  BY <1>19, <1>0 DEF InstallFails, Step, Finish, record, report, sockets,
     Goto, TypeInv, HeldInv, ImageInv
<1>20. CASE InstallReady
  BY <1>20, <1>0 DEF InstallReady, Step, Goto, record, report, TypeInv,
     HeldInv, ImageInv
<1>21. CASE UpdateRefused
  BY <1>21, <1>0 DEF UpdateRefused, Step, Finish, record, report, Goto,
     TypeInv, HeldInv, ImageInv
<1>22. CASE UpdateStarts
  BY <1>22, <1>0 DEF UpdateStarts, Step, Finish, record, session, report,
     Goto, TypeInv, HeldInv, ImageInv
<1>23. CASE InstallMcu
  BY <1>23, <1>0 DEF InstallMcu, Step, Finish, record, session, sockets,
     report, Goto, TypeInv, HeldInv, ImageInv
<1>24. CASE Boot
  BY <1>24, <1>0 DEF Boot, Step, Save, Goto, session, device, sockets,
     report, TypeInv, HeldInv, ImageInv
<1>25. CASE Order
  BY <1>25, <1>0 DEF Order, Kinds, Save, Start, session, device, sockets,
     report, Goto, TypeInv, HeldInv, ImageInv
<1>26. CASE BadOrder
  BY <1>26, <1>0 DEF BadOrder, Step, session, device, sockets, report,
     TypeInv, HeldInv, ImageInv
<1>27. CASE Epo
  BY <1>27, <1>0 DEF Epo, Step, Goto, record, session, device, sockets,
     report, TypeInv, HeldInv, ImageInv
<1>28. CASE FileGrows
  BY <1>28, <1>0 DEF FileGrows, Modem, report, record, device, sockets,
     TypeInv, HeldInv, ImageInv
<1>29. CASE JobEnds
  BY <1>29, <1>0 DEF JobEnds, Reports, Callback, Modem, record, device,
     sockets, report, TypeInv, HeldInv, ImageInv
<1>30. CASE LateReport
  BY <1>30, <1>0 DEF LateReport, Callback, Modem, record, device, sockets,
     report, TypeInv, HeldInv, ImageInv
<1>31. CASE GprsDrops
  BY <1>31, <1>0 DEF GprsDrops, Modem, session, report, record, device,
     sockets, TypeInv, HeldInv, ImageInv
<1>32. CASE GprsReturns
  BY <1>32, <1>0 DEF GprsReturns, Modem, session, report, record, device,
     sockets, TypeInv, HeldInv, ImageInv
<1>33. CASE SwitchProfile
  BY <1>33, <1>0 DEF SwitchProfile, Modem, session, report, record, device,
     sockets, TypeInv, HeldInv, ImageInv
<1>34. CASE PowerCut
  BY <1>34, <1>0 DEF PowerCut, Saving, Restart, Goto, TypeInv, HeldInv,
     ImageInv
<1>35. CASE Reboot
  BY <1>35, <1>0 DEF Reboot, Restart, Goto, TypeInv, HeldInv, ImageInv
<1>36. CASE UNCHANGED vars
  BY <1>36 DEF vars, record, session, report, device, sockets, TypeInv,
     HeldInv, ImageInv
<1> QED
  BY <1>1, <1>2, <1>3, <1>4, <1>5, <1>6, <1>7, <1>8, <1>9, <1>10, <1>11,
     <1>12, <1>13, <1>14, <1>15, <1>16, <1>17, <1>18, <1>19, <1>20, <1>21,
     <1>22, <1>23, <1>24, <1>25, <1>26, <1>27, <1>28, <1>29, <1>30, <1>31,
     <1>32, <1>33, <1>34, <1>35, <1>36 DEF Next, Server

FotaInv == TypeInv /\ CountInv /\ HeldInv /\ ImageInv

LEMMA FotaInit == Init => FotaInv
BY TypeInit, CountInit, HeldInit, ImageInit DEF FotaInv

LEMMA FotaStep == FotaInv /\ [Next]_vars => FotaInv'
BY TypeStep, CountStep, HeldStep, ImageStep DEF FotaInv

(* However often the device restarts, an order makes no more attempts than   *)
(* it started with: each is taken off the record before it begins.           *)
THEOREM FotaAttemptsBounded == Spec => []AttemptsBounded
<1>1. FotaInv => AttemptsBounded
  BY Bounds, Requests DEF FotaInv, TypeInv, Counters, Shape, CountInv,
     AttemptsBounded
<1> QED
  BY <1>1, FotaInit, FotaStep, PTL DEF Spec

(* Whatever way a download ends, the sockets are enabled again, the flags    *)
(* clear, the client closed and the modem's transfer ended.                  *)
THEOREM FotaLeavesNothingBehind == Spec => []LeavesNothingBehind
<1>1. FotaInv => LeavesNothingBehind
  BY DEF FotaInv, TypeInv, TaskOK, HeldInv, LeavesNothingBehind, Resting
<1> QED
  BY <1>1, FotaInit, FotaStep, PTL DEF Spec

(* What is installed is a whole file, and an order for an image is off the   *)
(* record by then.                                                           *)
THEOREM FotaInstallsWhole == Spec => InstallsWhole
<1>1. FotaInv /\ [Next]_vars =>
        [Installs => /\ file = "whole"
                     /\ (task = "image" /\ "flash" \notin world)
                            => ~ flash.valid]_vars
  <2> SUFFICES ASSUME FotaInv, Installs
               PROVE  /\ file = "whole"
                      /\ (task = "image" /\ "flash" \notin world)
                             => ~ flash.valid
    OBVIOUS
  <2>1. CASE InstallReady \/ InstallMcu
    BY <2>1 DEF InstallReady, InstallMcu, Step, FotaInv, ImageInv
  <2>2. CASE Inject
    BY <2>2 DEF Inject, Step, FileIsGood
  <2> QED
    BY <2>1, <2>2 DEF Installs
<1> QED
  BY <1>1, FotaInit, FotaStep, PTL DEF Spec, InstallsWhole

-----------------------------------------------------------------------------
(* McuUpdate.                                                                *)

\* The frame on its way to the microcontroller.
StartDown == down # NoFrame /\ down[1] = "FWSTART"
ChunkDown == down # NoFrame /\ down[1] = "FWUPDATE"
EndDown   == down # NoFrame /\ down[1] = "FWEND"

\* The answers on their way to the modem, and the one that has come.
Answered == (up \cup {got}) \ {NoReply}

\* The types, and the bound on the copy that they need.
McuTypeInv == McuTypeOK /\ (mcu = "copy" => size <= LIMIT)

\* A frame on its way is of the image being sent, which is not too large.
FrameInv ==
    /\ Size[image] <= LIMIT
    /\ StartDown => down[2] = Size[image]
    /\ ChunkDown => down[2] < Size[image] /\ down[3] = image
    /\ EndDown => mota \in {"end", "idle"}

\* Where the modem is, by what the microcontroller does: while the modem transfers an
\* image the application runs, and it resets only after the modem has stopped waiting.
TurnInv ==
    /\ mota = "idle" => ~ waits
    /\ mota = "start" => ~ ChunkDown
    /\ mota \in {"start", "chunk"} => mcu = "app"
    /\ mota = "end" => waits /\ mcu \in {"app", "ending"}

\* The microcontroller counts up to the size of the image being sent, unless its start
\* has not come; an answer to the start says that it has.
TotalInv ==
    /\ "begun" \notin mcuWorld \/ mota \in {"chunk", "end"} \/ ChunkDown =>
           total \in {0, Size[image]}
    /\ "serial" \notin mcuWorld /\ mota = "start" /\ <<"SUCCESS">> \in Answered =>
           total = Size[image]

\* The SPI flash holds chunks of the image being sent, and all of them up to the one
\* that is expected.
SpiInv ==
    /\ \A c \in 0..(WRAP - 1) : spi[c] \in {Erased, image}
    /\ expected <= Size[image]
    /\ \A c \in 0..(expected - 1) : spi[c] = image

\* The boot loader is asked for the image being sent, and only when all of it is there.
ReqInv ==
    /\ updateREQ => size = Size[image] /\ Stored(image)
    /\ mcu = "init" => ~ updateREQ
    /\ mcu \in {"app", "ending"} /\ expected = Size[image] => updateREQ

\* What has been acknowledged has been stored, so the modem is never ahead.
AckInv ==
    /\ \A r \in Answered : r[1] = "FWUPDATE" => r[2] < expected /\ ~ StartDown
    /\ StartDown /\ mota \in {"chunk", "end"} => num = 0
    /\ mota \in {"chunk", "end"} => num <= expected
    /\ mota = "end" /\ ok => num = Size[image]

\* The program flash holds an image that can run.
Runnable == \E i \in Images : RunsImage(i)

\* There is always one, or the request for it and the SPI flash to copy it from.
RunInv ==
    /\ mcu \in {"app", "ending", "init"} => Runnable
    /\ mcu = "boot" => updateREQ \/ Runnable
    /\ mcu = "copy" => /\ updateREQ /\ copied <= size
                       /\ \A c \in 0..(copied - 1) : app[c] = image
    /\ mcu # "dead"

\* The inductive invariant.
UpdateInv == FrameInv /\ TurnInv /\ TotalInv /\ SpiInv /\ ReqInv /\ AckInv

BoardInv == Regular => UpdateInv /\ (Without({"badwrite"}) => RunInv)

-----------------------------------------------------------------------------
\* What a frame is, by its function.
LEMMA FrameIs ==
    ASSUME NEW f \in Frames
    PROVE  /\ f[1] \in {"FWSTART", "FWUPDATE", "FWEND"}
           /\ f[1] = "FWSTART" => f[2] \in {Size[i] : i \in Images}
           /\ f[1] = "FWUPDATE" => f[3] \in Images /\ f[2] \in 0..(Size[f[3]] - 1)
<1>1. CASE f \in {<<"FWSTART", Size[i]>> : i \in Images}
  BY <1>1
<1>2. CASE f = <<"FWEND">>
  BY <1>2
<1>3. CASE f \in UNION {{<<"FWUPDATE", c, i>> : c \in 0..(Size[i] - 1)} : i \in Images}
  <2>1. PICK i \in Images : f \in {<<"FWUPDATE", c, i>> : c \in 0..(Size[i] - 1)}
    BY <1>3
  <2>2. PICK c \in 0..(Size[i] - 1) : f = <<"FWUPDATE", c, i>>
    BY <2>1
  <2> QED BY <2>2
<1> QED BY <1>1, <1>2, <1>3 DEF Frames

\* What the numbers of chunks are.
LEMMA Counts ==
    /\ \A i \in Images : Size[i] \in Nat /\ Size[i] > 0
    /\ \A i \in Images : \A c \in 0..Size[i] : c \in ChunkCounts
    /\ ChunkCounts \subseteq Nat
    /\ 0 \in ChunkCounts
<1>1. \A i \in Images : Size[i] \in Nat /\ Size[i] > 0
  BY SizeAssumption
<1>2. \A i \in Images : \A c \in 0..Size[i] : c \in ChunkCounts
  BY <1>1 DEF ChunkCounts
<1>3. ChunkCounts \subseteq Nat
  BY <1>1 DEF ChunkCounts
<1> QED BY <1>1, <1>2, <1>3, ImageAssumption

\* The bounds are numbers, and the largest application fits its 16 bits.
LEMMA McuBounds == /\ RETRIES \in Nat /\ WRAP \in Nat /\ LIMIT \in Nat /\ MAX_ORDERS \in Nat
                /\ LIMIT < WRAP /\ Size[Old] <= LIMIT
  BY SizeAssumption

\* What is sent are frames and answers.
LEMMA Made ==
    /\ \A i \in Images : <<"FWSTART", Size[i]>> \in Frames
    /\ \A i \in Images : \A c \in 0..(Size[i] - 1) :
           <<"FWUPDATE", c, i>> \in Frames /\ <<"FWUPDATE", c>> \in Replies
    /\ <<"FWEND">> \in Frames /\ <<"SUCCESS">> \in Replies /\ <<"ERROR">> \in Replies
  BY DEF Frames, Replies

\* An acknowledged chunk has a successor.
LEMMA ReplyIs ==
    ASSUME NEW c, <<"FWUPDATE", c>> \in Replies
    PROVE  c \in Nat /\ c + 1 \in ChunkCounts
<1>1. PICK i \in Images : <<"FWUPDATE", c>> \in {<<"FWUPDATE", k>> : k \in 0..(Size[i] - 1)}
  BY DEF Replies
<1>2. c \in 0..(Size[i] - 1)
  BY <1>1
<1>3. c + 1 \in 0..Size[i]
  BY <1>2, Counts
<1> QED BY <1>2, <1>3, Counts

\* The number of an acknowledged chunk is one.
LEMMA ReplyNumber ==
    ASSUME NEW r \in Replies, r[1] = "FWUPDATE"
    PROVE  r[2] \in Nat
<1>1. PICK i \in Images : r \in {<<"FWUPDATE", k>> : k \in 0..(Size[i] - 1)}
  BY DEF Replies
<1> QED BY <1>1

\* The types hold at the start.
LEMMA McuTypeInit == McuInit => McuTypeInv
<1> SUFFICES ASSUME McuInit PROVE McuTypeInv
  OBVIOUS
<1> USE DEF McuInit
<1>1. /\ spi \in [0..(WRAP - 1) -> Images \cup {Erased, Mixed}]
      /\ app \in [0..(LIMIT - 1) -> Images \cup {Erased, Mixed}]
  BY ImageAssumption DEF Blank
<1>2. /\ image \in Images /\ num \in ChunkCounts /\ attempt \in 0..RETRIES
      /\ motaOrders \in 0..MAX_ORDERS /\ expected \in ChunkCounts /\ total \in ChunkCounts
      /\ size \in 0..(WRAP - 1) /\ copied \in 0..LIMIT
  BY Counts, ImageAssumption, McuBounds
<1> QED BY <1>1, <1>2 DEF McuTypeInv, McuTypeOK

\* What a send leaves.
LEMMA SendsType ==
    ASSUME McuTypeOK, NEW f \in Frames, Sends(f)
    PROVE  /\ waits' = TRUE /\ IsSent' = TRUE /\ got' = NoReply
           /\ down' \in Frames \cup {NoFrame}
           /\ down' \in {down, f}
  BY DEF Sends, McuTypeOK

\* The modem keeps the types.
LEMMA TransferType == ASSUME McuTypeInv, Transfer PROVE McuTypeInv'
<1> USE DEF McuTypeInv, McuTypeOK, rx, mcuFlash
<1>1. CASE StartAnswered
  <2>1. num' \in ChunkCounts /\ attempt' \in 0..RETRIES
    BY <1>1, Counts, McuBounds DEF StartAnswered
  <2> QED BY <1>1, <2>1 DEF StartAnswered, Returns
<1>2. CASE StartTimesOut
  BY <1>2 DEF StartTimesOut, Returns
<1>3. CASE SendChunk
  <2>1. <<"FWUPDATE", num, image>> \in Frames
    <3>1. num \in 0..(Size[image] - 1)
      BY <1>3, Counts DEF SendChunk
    <3> QED BY <3>1, Made
  <2>2. attempt' \in 0..RETRIES
    BY <1>3, McuBounds DEF SendChunk
  <2> QED BY <1>3, <2>1, <2>2, SendsType DEF SendChunk
<1>4. CASE ChunkAnswered
  <2>1. num' \in ChunkCounts /\ attempt' \in 0..RETRIES
    <3>1. CASE got = <<"FWUPDATE", num>>
      BY <1>4, <3>1, ReplyIs, McuBounds DEF ChunkAnswered
    <3> QED BY <1>4, <3>1 DEF ChunkAnswered
  <2> QED BY <1>4, <2>1 DEF ChunkAnswered, Returns
<1>5. CASE ChunkTimesOut
  BY <1>5 DEF ChunkTimesOut, Returns
<1>6. CASE SendEnd
  BY <1>6, Made, SendsType DEF SendEnd
<1>7. CASE EndAnswered
  BY <1>7 DEF EndAnswered, Returns
<1>8. CASE EndTimesOut
  BY <1>8 DEF EndTimesOut, Returns
<1> QED BY <1>1, <1>2, <1>3, <1>4, <1>5, <1>6, <1>7, <1>8 DEF Transfer

\* The microcontroller's application keeps the types.
LEMMA ApplicationType == ASSUME McuTypeInv, Application PROVE McuTypeInv'
<1> USE DEF McuTypeInv, McuTypeOK, modem, rx, mcuFlash
<1>1. CASE McuStart
  <2>1. total' \in ChunkCounts /\ expected' \in ChunkCounts
    BY <1>1, FrameIs, Counts DEF McuStart, Has
  <2>2. up' \subseteq Replies
    BY <1>1, Made DEF McuStart, Answers
  <2> QED BY <1>1, <2>1, <2>2 DEF McuStart, Has
<1>2. CASE McuChunkRefused
  <2>1. up' \subseteq Replies
    BY <1>2, Made DEF McuChunkRefused, Answers
  <2> QED BY <1>2, <2>1 DEF McuChunkRefused, Has
<1>3. CASE McuChunk
  <2>1. down[3] \in Images /\ expected \in 0..(Size[down[3]] - 1)
    BY <1>3, FrameIs DEF McuChunk, Has
  <2>2. expected' \in ChunkCounts
    BY <1>3, <2>1, Counts DEF McuChunk
  <2>3. up' \subseteq Replies
    BY <1>3, <2>1, Made DEF McuChunk, Answers
  <2>4. spi' \in [0..(WRAP - 1) -> Images \cup {Erased, Mixed}]
    BY <1>3, <2>1 DEF McuChunk, Written
  <2>5. updateREQ' \in BOOLEAN /\ size' \in 0..(WRAP - 1)
    <3>1. total % WRAP \in 0..(WRAP - 1)
      BY Counts, McuBounds
    <3> QED BY <1>3, <3>1 DEF McuChunk, SetUpdateREQ
  <2> QED BY <1>3, <2>2, <2>3, <2>4, <2>5 DEF McuChunk, Has
<1>4. CASE McuEnd
  <2>1. up' \subseteq Replies /\ total' \in ChunkCounts
    BY <1>4, Made, Counts DEF McuEnd, Answers
  <2> QED BY <1>4, <2>1 DEF McuEnd, Has
<1>5. CASE McuResets
  BY <1>5 DEF McuResets
<1>6. CASE AppStarts
  <2>1. /\ spi' \in [0..(WRAP - 1) -> Images \cup {Erased, Mixed}]
        /\ expected' \in ChunkCounts /\ total' \in ChunkCounts
    BY <1>6, Counts DEF AppStarts, Blank
  <2> QED BY <1>6, <2>1 DEF AppStarts, ModemOff
<1> QED BY <1>1, <1>2, <1>3, <1>4, <1>5, <1>6 DEF Application

\* The boot loader keeps the types.
LEMMA BootType == ASSUME McuTypeInv, BootLoader PROVE McuTypeInv'
<1> USE DEF McuTypeInv, McuTypeOK, modem, rx
<1>1. CASE BootNoUpdate
  BY <1>1 DEF BootNoUpdate
<1>2. CASE BootUpdate
  BY <1>2, McuBounds DEF BootUpdate
<1>3. CASE BootCopies
  <2>1. app' \in [0..(LIMIT - 1) -> Images \cup {Erased, Mixed}]
    <3>1. copied \in 0..(LIMIT - 1) /\ copied \in 0..(WRAP - 1)
      BY <1>3, McuBounds DEF BootCopies
    <3>2. spi[copied] \in Images \cup {Erased, Mixed}
      BY <3>1
    <3> QED BY <1>3, <3>1, <3>2 DEF BootCopies
  <2>2. copied' \in 0..LIMIT
    BY <1>3, McuBounds DEF BootCopies
  <2> QED BY <1>3, <2>1, <2>2 DEF BootCopies
<1>4. CASE BootCopied
  BY <1>4 DEF BootCopied
<1> QED BY <1>1, <1>2, <1>3, <1>4 DEF BootLoader

\* Every step keeps the types.
LEMMA McuTypeKept == McuTypeInv /\ [McuNext]_mcuVars => McuTypeInv'
<1> SUFFICES ASSUME McuTypeInv, [McuNext]_mcuVars PROVE McuTypeInv'
  OBVIOUS
<1> USE DEF McuTypeInv, McuTypeOK, modem, rx, mcuFlash
<1>1. ASSUME NEW i \in Images \ {Old}, OrderMota(i) PROVE McuTypeInv'
  <2>1. motaOrders' \in 0..MAX_ORDERS
    BY <1>1, McuBounds DEF OrderMota
  <2> QED BY <1>1, <2>1, Made, SendsType DEF OrderMota
<1>10. CASE OrderFails
  BY <1>10, McuBounds DEF OrderFails
<1>2. CASE Transfer
  BY <1>2, TransferType
<1>3. CASE Receives
  BY <1>3 DEF Receives, Receive
<1>4. CASE OtherSends
  <2>1. down' \in Frames \cup {NoFrame} /\ up' \subseteq Replies
    <3>1. up' = up \/ up' = up \cup {<<"SUCCESS">>}
      BY <1>4 DEF OtherSends
    <3>2. down' = down \/ down' = NoFrame
      BY <1>4 DEF OtherSends
    <3> QED BY <3>1, <3>2, Made
  <2>2. /\ IsSent' = FALSE
        /\ UNCHANGED <<mcuWorld, mota, waits, got, image, num, attempt, ok>>
        /\ UNCHANGED <<motaReport, motaOrders, mcu, rx, mcuFlash>>
    BY <1>4 DEF OtherSends
  <2>3. IsSent' \in BOOLEAN
    BY <2>2
  <2> QED BY <2>1, <2>2, <2>3
<1>5. CASE Application
  BY <1>5, ApplicationType
<1>6. CASE BootLoader
  BY <1>6, BootType
<1>7. CASE PowerFails
  BY <1>7 DEF PowerFails, ModemOff
<1>8. CASE ModemRestarts
  BY <1>8 DEF ModemRestarts, ModemOff
<1>9. CASE UNCHANGED mcuVars
  BY <1>9 DEF mcuVars
<1> QED BY <1>1, <1>2, <1>3, <1>4, <1>5, <1>6, <1>7, <1>8, <1>9, <1>10 DEF McuNext

\* A step of the modem leaves the memories and what is said of them.
LEMMA MemoryKept ==
    ASSUME SpiInv, ReqInv, UNCHANGED <<image, mcu, rx, mcuFlash>>
    PROVE  SpiInv' /\ ReqInv'
  BY DEF SpiInv, ReqInv, Stored, rx, mcuFlash

\* What a send leaves, under the type invariant.
LEMMA SendsFrame ==
    ASSUME McuTypeInv, NEW f \in Frames, Sends(f)
    PROVE  /\ down' \in {down, f} /\ down' \in Frames \cup {NoFrame}
           /\ waits' = TRUE /\ got' = NoReply
  BY SendsType DEF McuTypeInv

\* The answer to a start, or none.
LEMMA StartKeeps ==
    ASSUME McuTypeInv, UpdateInv, Regular, StartAnswered \/ StartTimesOut
    PROVE  UpdateInv'
<1> USE DEF UpdateInv
<1>1. /\ mota = "start" /\ got' = NoReply /\ waits' = FALSE
      /\ UNCHANGED <<mcuWorld, image, down, up, mcu, rx, mcuFlash>>
      /\ \/ got = <<"SUCCESS">> /\ mota' = "chunk" /\ num' = 0
         \/ mota' = "idle"
  BY DEF StartAnswered, StartTimesOut, Returns
<1>2. SpiInv' /\ ReqInv'
  BY <1>1, MemoryKept
<1>3. FrameInv'
  BY <1>1 DEF FrameInv, StartDown, ChunkDown, EndDown
<1>4. TurnInv'
  BY <1>1 DEF TurnInv
<1>5. TotalInv'
  <2>1. got = <<"SUCCESS">> => <<"SUCCESS">> \in Answered
    BY Made, NothingAssumption DEF Answered
  <2>2. got = <<"SUCCESS">> => total \in {0, Size[image]}
    BY <1>1, <2>1 DEF TotalInv, Regular
  <2>3. mota' = "idle" => ~ ChunkDown
    BY <1>1 DEF TurnInv
  <2> QED BY <1>1, <2>2, <2>3 DEF TotalInv, ChunkDown, rx
<1>6. AckInv'
  <2>1. Answered' \subseteq Answered
    BY <1>1 DEF Answered
  <2>2. expected \in Nat
    BY Counts DEF McuTypeInv, McuTypeOK
  <2> QED BY <1>1, <2>1, <2>2 DEF AckInv, StartDown, rx
<1> QED BY <1>2, <1>3, <1>4, <1>5, <1>6

\* A chunk or the end is sent.
LEMMA ChunkKeeps ==
    ASSUME McuTypeInv, UpdateInv, Regular, SendChunk \/ SendEnd
    PROVE  UpdateInv'
<1> USE DEF UpdateInv
<1>1. PICK f \in Frames :
        /\ Sends(f)
        /\ \/ mota' = "chunk" /\ f = <<"FWUPDATE", num, image>> /\ num < Size[image]
           \/ mota' = "end" /\ f = <<"FWEND">> /\ ok' = (num = Size[image])
  <2>1. num < Size[image] => num \in 0..(Size[image] - 1)
    BY Counts DEF McuTypeInv, McuTypeOK
  <2>2. image \in Images
    BY DEF McuTypeInv, McuTypeOK
  <2>3. CASE SendChunk
    BY <2>1, <2>2, <2>3, Made DEF SendChunk
  <2>4. CASE SendEnd
    BY <2>4, Made DEF SendEnd
  <2> QED BY <2>3, <2>4
<1>2. mota = "chunk" /\ UNCHANGED <<mcuWorld, image, num, up, mcu, rx, mcuFlash>>
  BY DEF SendChunk, SendEnd
<1>3. /\ down' \in {down, f} /\ waits' = TRUE /\ got' = NoReply
  BY <1>1, SendsFrame
<1>4. SpiInv' /\ ReqInv'
  BY <1>2, MemoryKept
<1>5. FrameInv'
  BY <1>1, <1>2, <1>3 DEF FrameInv, StartDown, ChunkDown, EndDown
<1>6. TurnInv'
  BY <1>1, <1>2, <1>3 DEF TurnInv
<1>7. TotalInv'
  BY <1>1, <1>2 DEF TotalInv, rx
<1>8. AckInv'
  <2>1. Answered' \subseteq Answered
    BY <1>2, <1>3 DEF Answered
  <2>2. StartDown' => StartDown
    BY <1>1, <1>3 DEF StartDown
  <2> QED BY <1>1, <1>2, <2>1, <2>2 DEF AckInv, rx
<1> QED BY <1>4, <1>5, <1>6, <1>7, <1>8

\* The answer to a chunk, or none.
LEMMA AnswerKeeps ==
    ASSUME McuTypeInv, UpdateInv, ChunkAnswered \/ ChunkTimesOut
    PROVE  UpdateInv'
<1> USE DEF UpdateInv
<1>1. /\ mota = "chunk" /\ got' = NoReply /\ waits' = FALSE
      /\ UNCHANGED <<mcuWorld, mota, image, down, up, mcu, rx, mcuFlash>>
      /\ \/ num' = num
         \/ got = <<"FWUPDATE", num>> /\ got # NoReply /\ num' = num + 1
  BY DEF ChunkAnswered, ChunkTimesOut, Returns
<1>2. SpiInv' /\ ReqInv'
  BY <1>1, MemoryKept
<1>3. FrameInv'
  BY <1>1 DEF FrameInv, StartDown, ChunkDown, EndDown
<1>4. TurnInv'
  BY <1>1 DEF TurnInv, ChunkDown
<1>5. Answered' \subseteq Answered
  BY <1>1 DEF Answered
<1>6. TotalInv'
  BY <1>1, <1>5 DEF TotalInv, ChunkDown, rx
<1>7. AckInv'
  <2>1. StartDown' <=> StartDown
    BY <1>1 DEF StartDown
  <2>2. CASE num' = num
    BY <1>1, <1>5, <2>1, <2>2 DEF AckInv, rx
  <2>3. CASE got = <<"FWUPDATE", num>> /\ got # NoReply /\ num' = num + 1
    <3>1. num < expected /\ ~ StartDown
      BY <2>3 DEF AckInv, Answered
    <3>2. num \in Nat /\ expected \in Nat
      BY Counts DEF McuTypeInv, McuTypeOK
    <3> QED BY <1>1, <1>5, <2>1, <2>3, <3>1, <3>2 DEF AckInv, rx
  <2> QED BY <1>1, <2>2, <2>3
<1> QED BY <1>2, <1>3, <1>4, <1>6, <1>7

\* The answer to the end, or none.
LEMMA EndKeeps ==
    ASSUME McuTypeInv, UpdateInv, EndAnswered \/ EndTimesOut
    PROVE  UpdateInv'
<1> USE DEF UpdateInv
<1>1. /\ mota = "end" /\ mota' = "idle" /\ got' = NoReply /\ waits' = FALSE
      /\ UNCHANGED <<mcuWorld, image, down, up, mcu, rx, mcuFlash>>
  BY DEF EndAnswered, EndTimesOut, Returns
<1>2. SpiInv' /\ ReqInv'
  BY <1>1, MemoryKept
<1>3. FrameInv' /\ TurnInv'
  BY <1>1 DEF FrameInv, TurnInv, StartDown, ChunkDown, EndDown
<1>4. TotalInv'
  BY <1>1 DEF TotalInv, ChunkDown, rx
<1>5. AckInv'
  BY <1>1 DEF AckInv, StartDown, Answered, rx
<1> QED BY <1>2, <1>3, <1>4, <1>5

\* An answer comes.
LEMMA ReceiveKeeps ==
    ASSUME McuTypeInv, UpdateInv, NEW r \in up, Receive(r)
    PROVE  UpdateInv'
<1> USE DEF UpdateInv
<1>1. UNCHANGED <<mcuWorld, mota, waits, image, num, ok, down, mcu, rx, mcuFlash>>
  BY DEF Receive
<1>2. Answered' \subseteq Answered
  BY NothingAssumption DEF Receive, Answered, McuTypeInv, McuTypeOK
<1>3. SpiInv' /\ ReqInv'
  BY <1>1, MemoryKept
<1>4. FrameInv' /\ TurnInv'
  BY <1>1 DEF FrameInv, TurnInv, StartDown, ChunkDown, EndDown
<1>5. TotalInv'
  BY <1>1, <1>2 DEF TotalInv, ChunkDown, rx
<1>6. AckInv'
  BY <1>1, <1>2 DEF AckInv, StartDown, rx
<1> QED BY <1>3, <1>4, <1>5, <1>6

\* Another thread sends.
LEMMA OthersKeep ==
    ASSUME McuTypeInv, UpdateInv, Regular, OtherSends
    PROVE  UpdateInv'
<1> USE DEF UpdateInv
<1>1. /\ UNCHANGED <<mcuWorld, mota, waits, got, image, num, ok, mcu, rx, mcuFlash>>
      /\ down' \in {down, NoFrame}
      /\ "serial" \in mcuWorld /\ "begun" \notin mcuWorld
  BY DEF OtherSends, Regular
<1>2. Answered' \subseteq Answered \cup {<<"SUCCESS">>}
  <2>1. up' = up \/ up' = up \cup {<<"SUCCESS">>}
    BY DEF OtherSends
  <2> QED BY <1>1, <2>1 DEF Answered
<1>3. SpiInv' /\ ReqInv'
  BY <1>1, MemoryKept
<1>4. FrameInv' /\ TurnInv'
  BY <1>1 DEF FrameInv, TurnInv, StartDown, ChunkDown, EndDown
<1>5. TotalInv'
  BY <1>1 DEF TotalInv, rx
<1>6. AckInv'
  BY <1>1, <1>2 DEF AckInv, StartDown, rx
<1> QED BY <1>3, <1>4, <1>5, <1>6

\* The modem goes off.
LEMMA OffKeeps ==
    ASSUME McuTypeInv, UpdateInv, ModemOff, UNCHANGED <<mcuWorld, rx, mcuFlash>>,
           mcu' \in {mcu, "boot"}
    PROVE  UpdateInv'
<1> USE DEF UpdateInv, ModemOff
<1>1. SpiInv' /\ ReqInv'
  BY DEF SpiInv, ReqInv, Stored, rx, mcuFlash
<1>2. FrameInv' /\ TurnInv'
  BY DEF FrameInv, TurnInv, StartDown, ChunkDown, EndDown
<1>3. TotalInv'
  BY DEF TotalInv, ChunkDown, rx
<1>4. AckInv'
  BY DEF AckInv, StartDown, Answered
<1> QED BY <1>1, <1>2, <1>3, <1>4

\* An image is ordered: over chunks of another only if there are none.
LEMMA OrderKeeps ==
    ASSUME McuTypeInv, UpdateInv, Regular, NEW i \in Images, OrderMota(i)
    PROVE  UpdateInv'
<1> USE DEF UpdateInv
<1>1. /\ mota = "idle" /\ mota' = "start" /\ mcu = "app" /\ down = NoFrame /\ up = {}
      /\ image' = i /\ Sends(<<"FWSTART", Size[i]>>)
      /\ UNCHANGED <<mcuWorld, num, ok, up, mcu, rx, mcuFlash>>
      /\ Size[i] <= LIMIT
      /\ "begun" \in mcuWorld \/ total \in {0, Size[i]}
  BY DEF OrderMota, Regular, Without
<1>2. \A c \in 0..(WRAP - 1) : spi[c] \in {Erased, i}
  BY DEF OrderMota, Regular, Without, McuTypeInv, McuTypeOK
<1>3. down' \in {NoFrame, <<"FWSTART", Size[i]>>} /\ waits' = TRUE /\ got' = NoReply
  BY <1>1, SendsFrame, Made
<1>4. /\ image \in Images /\ image # Erased /\ expected \in Nat
      /\ Size[i] \in Nat /\ Size[i] > 0 /\ Size[image] \in Nat /\ Size[image] > 0
      /\ 0 \in 0..(WRAP - 1)
  <2>1. image \in Images /\ expected \in ChunkCounts
    BY DEF McuTypeInv, McuTypeOK
  <2>2. 0 \in 0..(WRAP - 1)
    BY McuBounds
  <2> QED BY <2>1, <2>2, ImageAssumption, Counts
<1>5. expected > 0 \/ updateREQ => i = image
  <2>1. expected > 0 => spi[0] = image
    BY <1>4 DEF SpiInv
  <2>2. updateREQ => spi[0] = image
    BY <1>4 DEF ReqInv, Stored
  <2> QED BY <1>2, <1>4, <2>1, <2>2
<1>6. SpiInv'
  <2>1. CASE expected = 0
    BY <1>1, <1>2, <1>4, <2>1 DEF SpiInv, rx, mcuFlash
  <2>2. CASE i = image
    BY <1>1, <1>2, <2>2 DEF SpiInv, rx, mcuFlash
  <2> QED BY <1>4, <1>5, <2>1, <2>2
<1>7. ReqInv'
  <2>1. CASE i = image
    BY <1>1, <2>1 DEF ReqInv, Stored, rx, mcuFlash
  <2>2. CASE expected = 0 /\ ~ updateREQ
    BY <1>1, <1>4, <2>2 DEF ReqInv, rx, mcuFlash
  <2> QED BY <1>4, <1>5, <2>1, <2>2
<1>8. FrameInv' /\ TurnInv'
  BY <1>1, <1>3 DEF FrameInv, TurnInv, StartDown, ChunkDown, EndDown
<1>9. TotalInv' /\ AckInv'
  BY <1>1, <1>3 DEF TotalInv, AckInv, ChunkDown, StartDown, Answered, rx
<1> QED BY <1>6, <1>7, <1>8, <1>9

\* The microcontroller takes a start.
LEMMA StartsKeeps ==
    ASSUME McuTypeInv, UpdateInv, McuStart
    PROVE  UpdateInv'
<1> USE DEF UpdateInv
<1>1. /\ mcu = "app" /\ StartDown /\ down' = NoFrame /\ expected' = 0 /\ total' = Size[image]
      /\ UNCHANGED <<mcuWorld, modem, mcu, mcuFlash>>
  BY DEF McuStart, Has, StartDown, FrameInv
<1>2. Answered' \subseteq Answered \cup {<<"SUCCESS">>}
  BY DEF McuStart, Answers, Answered, modem
<1>3. Size[image] \in Nat /\ Size[image] > 0
  BY Counts DEF McuTypeInv, McuTypeOK
<1>4. SpiInv' /\ ReqInv'
  BY <1>1, <1>3 DEF SpiInv, ReqInv, Stored, modem, mcuFlash
<1>5. FrameInv' /\ TurnInv'
  BY <1>1 DEF FrameInv, TurnInv, StartDown, ChunkDown, EndDown, modem
<1>6. TotalInv'
  BY <1>1 DEF TotalInv, modem
<1>7. AckInv'
  BY <1>1, <1>2 DEF AckInv, StartDown, modem
<1> QED BY <1>4, <1>5, <1>6, <1>7

\* It refuses a chunk.
LEMMA RefusedKeeps ==
    ASSUME McuTypeInv, UpdateInv, McuChunkRefused
    PROVE  UpdateInv'
<1> USE DEF UpdateInv
<1>1. /\ ChunkDown /\ down' = NoFrame
      /\ UNCHANGED <<mcuWorld, modem, mcu, rx, mcuFlash>>
  BY DEF McuChunkRefused, Has, ChunkDown
<1>2. Answered' \subseteq Answered \cup {<<"ERROR">>}
  BY DEF McuChunkRefused, Answers, Answered, modem
<1>3. SpiInv' /\ ReqInv'
  BY <1>1, MemoryKept DEF modem
<1>4. FrameInv' /\ TurnInv'
  BY <1>1 DEF FrameInv, TurnInv, StartDown, ChunkDown, EndDown, modem
<1>5. TotalInv'
  BY <1>1, <1>2 DEF TotalInv, TurnInv, ChunkDown, modem, rx
<1>6. AckInv'
  BY <1>1, <1>2 DEF AckInv, StartDown, modem, rx
<1> QED BY <1>3, <1>4, <1>5, <1>6

\* It stores a chunk, and asks for the update with the last.
LEMMA ChunkStored ==
    ASSUME McuTypeInv, UpdateInv, Regular, McuChunk
    PROVE  UpdateInv'
<1> USE DEF UpdateInv
<1>1. /\ mcu = "app" /\ ChunkDown /\ down' = NoFrame /\ mota # "start"
      /\ down[2] = expected /\ expected < Size[image] /\ down[3] = image
      /\ total = Size[image] /\ total' = total /\ expected' = expected + 1
      /\ UNCHANGED <<mcuWorld, modem, mcu, app>>
  BY DEF McuChunk, Has, ChunkDown, FrameInv, TurnInv, TotalInv
<1>2. Answered' \subseteq Answered \cup {<<"FWUPDATE", expected>>}
  BY DEF McuChunk, Answers, Answered, modem
<1>3. /\ Size[image] \in Nat /\ Size[image] > 0 /\ expected \in Nat /\ image \in Images
      /\ Size[image] <= LIMIT /\ LIMIT < WRAP /\ LIMIT \in Nat /\ WRAP \in Nat
      /\ num \in Nat
  BY Counts, McuBounds DEF McuTypeInv, McuTypeOK, FrameInv
<1>4. expected \in 0..(WRAP - 1)
  BY <1>1, <1>3
<1>5. spi' = [spi EXCEPT ![expected] = image]
  BY <1>1, <1>4 DEF McuChunk, Written, SpiInv, McuTypeInv, McuTypeOK, Regular, Without
<1>6. \A c \in 0..(WRAP - 1) : spi'[c] = IF c = expected THEN image ELSE spi[c]
  BY <1>5 DEF McuTypeInv, McuTypeOK
<1>7. image' = image
  BY <1>1 DEF modem
<1>8. SpiInv'
  BY <1>1, <1>3, <1>4, <1>6, <1>7 DEF SpiInv
<1>9. ReqInv'
  <2>1. CASE expected + 1 >= total
    <3>1. updateREQ' = TRUE /\ size' = Size[image]
      <4>1. Size[image] % WRAP = Size[image]
        BY <1>3
      <4> QED BY <1>1, <2>1, <4>1 DEF McuChunk, SetUpdateREQ
    <3>2. Stored(image)'
      <4>1. expected + 1 = Size[image]
        BY <1>1, <1>3, <2>1
      <4>2. \A c \in 0..(WRAP - 1) : c \in DOMAIN spi'
        BY <1>5 DEF McuTypeInv, McuTypeOK
      <4>3. \A c \in 0..(Size[image] - 1) :
               c \in 0..(WRAP - 1) /\ (c = expected \/ c \in 0..(expected - 1))
        BY <1>3, <4>1
      <4>4. \A c \in 0..(expected - 1) : spi[c] = image
        BY DEF SpiInv
      <4> QED BY <1>6, <1>7, <4>2, <4>3, <4>4 DEF Stored
    <3> QED BY <1>1, <1>7, <3>1, <3>2 DEF ReqInv
  <2>2. CASE ~ (expected + 1 >= total)
    <3>1. UNCHANGED <<updateREQ, size>>
      BY <2>2 DEF McuChunk
    <3>2. Stored(image) => Stored(image)'
      BY <1>5, <1>6, <1>7, <1>3 DEF Stored, McuTypeInv, McuTypeOK
    <3> QED BY <1>1, <1>3, <1>7, <2>2, <3>1, <3>2 DEF ReqInv
  <2> QED BY <2>1, <2>2
<1>10. FrameInv' /\ TurnInv'
  BY <1>1 DEF FrameInv, TurnInv, StartDown, ChunkDown, EndDown, modem
<1>11. TotalInv'
  BY <1>1 DEF TotalInv, modem
<1>12. AckInv'
  <2>1. \A r \in Answered' : r[1] = "FWUPDATE" => r[2] < expected'
    <3> SUFFICES ASSUME NEW r \in Answered', r[1] = "FWUPDATE" PROVE r[2] < expected + 1
      BY <1>1
    <3>1. CASE r = <<"FWUPDATE", expected>>
      BY <1>3, <3>1
    <3>2. CASE r \in Answered
      <4>1. r[2] \in Nat /\ r[2] < expected
        BY <3>2, ReplyNumber DEF AckInv, Answered, McuTypeInv, McuTypeOK
      <4> QED BY <1>3, <4>1
    <3> QED BY <1>2, <3>1, <3>2
  <2>2. ~ StartDown'
    BY <1>1 DEF StartDown
  <2>3. /\ mota \in {"chunk", "end"} => num <= expected + 1
        /\ mota = "end" /\ ok => num = Size[image]
    BY <1>3 DEF AckInv
  <2> QED BY <1>1, <2>1, <2>2, <2>3 DEF AckInv, modem
<1> QED BY <1>8, <1>9, <1>10, <1>11, <1>12

\* It takes the end.
LEMMA FinishKeeps ==
    ASSUME McuTypeInv, UpdateInv, McuEnd
    PROVE  UpdateInv'
<1> USE DEF UpdateInv
<1>1. /\ mcu = "app" /\ EndDown /\ down' = NoFrame /\ mota \in {"end", "idle"}
      /\ mcu' \in {"app", "ending"} /\ total' \in {total, 0}
      /\ UNCHANGED <<mcuWorld, modem, expected, mcuFlash>>
  BY DEF McuEnd, Has, EndDown, FrameInv
<1>2. Answered' \subseteq Answered \cup {<<"SUCCESS">>, <<"ERROR">>}
  BY DEF McuEnd, Answers, Answered, modem
<1>3. SpiInv' /\ ReqInv'
  BY <1>1 DEF SpiInv, ReqInv, Stored, modem, mcuFlash
<1>4. FrameInv' /\ TurnInv'
  BY <1>1 DEF FrameInv, TurnInv, StartDown, ChunkDown, EndDown, modem
<1>5. TotalInv'
  BY <1>1 DEF TotalInv, ChunkDown, modem
<1>6. AckInv'
  BY <1>1, <1>2 DEF AckInv, StartDown, modem
<1> QED BY <1>3, <1>4, <1>5, <1>6

\* It resets, and its boot loader works.
LEMMA BootsKeeps ==
    ASSUME McuTypeInv, UpdateInv, McuResets \/ BootLoader
    PROVE  UpdateInv'
<1> USE DEF UpdateInv
<1>1. /\ mota = "idle" /\ mcu \in {"ending", "boot", "copy"}
      /\ mcu' \in {"boot", "copy", "init"}
      /\ UNCHANGED <<mcuWorld, modem, down, up, rx, spi, size>>
      /\ updateREQ' = FALSE \/ (updateREQ' = updateREQ /\ mcu' # "init")
  <2>1. CASE McuResets
    <3>1. mota = "idle"
      BY <2>1 DEF McuResets, TurnInv, Timeout, Delay, McuTypeInv, McuTypeOK
    <3> QED BY <2>1, <3>1 DEF McuResets, mcuFlash
  <2>2. CASE BootLoader
    <3>1. mcu \in {"boot", "copy"}
      BY <2>2 DEF BootLoader, BootNoUpdate, BootUpdate, BootCopies, BootCopied
    <3>2. mota = "idle"
      BY <3>1 DEF TurnInv, McuTypeInv, McuTypeOK
    <3> QED BY <2>2, <3>2 DEF BootLoader, BootNoUpdate, BootUpdate, BootCopies, BootCopied
  <2> QED BY <2>1, <2>2, Zenon
<1>2. SpiInv' /\ ReqInv'
  BY <1>1 DEF SpiInv, ReqInv, Stored, modem, rx
<1>3. FrameInv' /\ TurnInv'
  BY <1>1 DEF FrameInv, TurnInv, StartDown, ChunkDown, EndDown, modem
<1>4. TotalInv' /\ AckInv'
  BY <1>1 DEF TotalInv, AckInv, ChunkDown, StartDown, Answered, modem, rx
<1> QED BY <1>2, <1>3, <1>4

\* Its application starts, and erases the SPI flash.
LEMMA StartUpKeeps ==
    ASSUME McuTypeInv, UpdateInv, AppStarts
    PROVE  UpdateInv'
<1> USE DEF UpdateInv
<1>1. /\ mcu = "init" /\ mcu' \in {"app", "dead"} /\ ModemOff
      /\ UNCHANGED <<mcuWorld, updateREQ, size, app, copied>>
      /\ \/ spi' = Blank /\ expected' = 0 /\ total' = 0
         \/ UNCHANGED <<spi, rx>> /\ mcu' = "dead"
  BY DEF AppStarts
<1>2. image \in Images /\ Size[image] \in Nat /\ Size[image] > 0
  BY Counts DEF McuTypeInv, McuTypeOK
<1>3. SpiInv'
  <2>1. image' = image
    BY <1>1 DEF ModemOff
  <2>2. CASE spi' = Blank /\ expected' = 0
    BY <1>2, <2>1, <2>2 DEF SpiInv, Blank
  <2>3. CASE UNCHANGED <<spi, rx>>
    BY <2>1, <2>3 DEF SpiInv, rx
  <2> QED BY <1>1, <2>2, <2>3
<1>4. ReqInv'
  BY <1>1, <1>2 DEF ReqInv, ModemOff, rx
<1>5. FrameInv' /\ TurnInv'
  BY <1>1 DEF FrameInv, TurnInv, StartDown, ChunkDown, EndDown, ModemOff
<1>6. TotalInv' /\ AckInv'
  BY <1>1 DEF TotalInv, AckInv, ChunkDown, StartDown, Answered, ModemOff, rx
<1> QED BY <1>3, <1>4, <1>5, <1>6

\* Every step keeps the invariant.
LEMMA UpdateKept ==
    ASSUME McuTypeInv, UpdateInv, Regular, [McuNext]_mcuVars
    PROVE  UpdateInv'
<1>1. ASSUME NEW i \in Images \ {Old}, OrderMota(i) PROVE UpdateInv'
  BY <1>1, OrderKeeps
<1>10. CASE OrderFails
  BY <1>10 DEF OrderFails, rx, mcuFlash, UpdateInv, FrameInv, TurnInv, TotalInv, SpiInv,
               ReqInv, AckInv, StartDown, ChunkDown, EndDown, Answered, Stored
<1>2. CASE Transfer
  BY <1>2, StartKeeps, ChunkKeeps, AnswerKeeps, EndKeeps DEF Transfer
<1>3. CASE Receives
  BY <1>3, ReceiveKeeps DEF Receives
<1>4. CASE OtherSends
  BY <1>4, OthersKeep
<1>5. CASE Application
  BY <1>5, StartsKeeps, RefusedKeeps, ChunkStored, FinishKeeps, BootsKeeps, StartUpKeeps
     DEF Application
<1>6. CASE BootLoader
  BY <1>6, BootsKeeps
<1>7. CASE PowerFails
  BY <1>7, OffKeeps DEF PowerFails
<1>8. CASE ModemRestarts
  BY <1>8, OffKeeps DEF ModemRestarts
<1>9. CASE UNCHANGED mcuVars
  BY <1>9 DEF mcuVars, modem, rx, mcuFlash, UpdateInv, FrameInv, TurnInv, TotalInv, SpiInv,
              ReqInv, AckInv, StartDown, ChunkDown, EndDown, Answered, Stored
<1> QED BY <1>1, <1>2, <1>3, <1>4, <1>5, <1>6, <1>7, <1>8, <1>9, <1>10 DEF McuNext

\* Every step keeps an application in reach.
LEMMA RunKept ==
    ASSUME McuTypeInv, UpdateInv, Regular, Without({"badwrite"}), RunInv,
           [McuNext]_mcuVars
    PROVE  RunInv'
<1> USE DEF RunInv, Runnable, RunsImage
<1>1. CASE /\ UNCHANGED <<updateREQ, size, app, copied>>
           /\ mcu' = mcu /\ (mcu = "copy" => image' = image)
  BY <1>1
<1>2. CASE McuEnd
  BY <1>2 DEF McuEnd, Has, mcuFlash
<1>3. CASE McuChunk
  BY <1>3 DEF McuChunk, Has
<1>4. CASE McuResets
  BY <1>4 DEF McuResets, mcuFlash
<1>5. CASE AppStarts
  BY <1>5 DEF AppStarts
<1>6. CASE PowerFails
  BY <1>6 DEF PowerFails, mcuFlash, McuTypeInv, McuTypeOK
<1>7. CASE BootNoUpdate
  <2>1. ~ updateREQ
    <3>1. updateREQ => size \in 1..LIMIT
      BY Counts, McuBounds DEF UpdateInv, ReqInv, FrameInv, McuTypeInv, McuTypeOK
    <3>2. "spi" \notin mcuWorld
      BY DEF Regular, Without
    <3> QED BY <1>7, <3>1, <3>2, McuBounds DEF BootNoUpdate, McuTypeInv, McuTypeOK
  <2> QED BY <1>7, <2>1 DEF BootNoUpdate
<1>8. CASE BootUpdate
  BY <1>8 DEF BootUpdate
<1>9. CASE BootCopies
  <2>1. /\ mcu = "copy" /\ copied < size /\ size = Size[image] /\ Stored(image)
        /\ copied \in Nat /\ size \in Nat /\ size <= LIMIT
    BY <1>9, Counts, McuBounds DEF BootCopies, UpdateInv, ReqInv, McuTypeInv, McuTypeOK
  <2>2. spi[copied] = image
    BY <2>1 DEF Stored
  <2>3. app' = [app EXCEPT ![copied] = image] /\ copied' = copied + 1
    BY <1>9, <2>2 DEF BootCopies, Without
  <2>4. copied \in 0..(LIMIT - 1)
    BY <2>1, McuBounds
  <2>5. app'[copied] = image /\ \A c \in 0..(copied - 1) : app'[c] = image
    BY <2>1, <2>3, <2>4 DEF McuTypeInv, McuTypeOK
  <2>6. \A c \in 0..(copied' - 1) : app'[c] = image
    BY <2>1, <2>3, <2>5
  <2>7. copied' <= size
    BY <2>1, <2>3
  <2>8. UNCHANGED <<mcu, image, updateREQ, size>>
    BY <1>9 DEF BootCopies, modem
  <2> QED BY <2>1, <2>6, <2>7, <2>8
<1>10. CASE BootCopied
  <2>1. RunsImage(image)
    BY <1>10, McuBounds, Counts DEF BootCopied, UpdateInv, ReqInv, McuTypeInv, McuTypeOK
  <2>2. image \in Images
    BY DEF McuTypeInv, McuTypeOK
  <2> QED BY <1>10, <2>1, <2>2 DEF BootCopied
<1>11. ASSUME NEW i \in Images, OrderMota(i) PROVE RunInv'
  BY <1>1, <1>11 DEF OrderMota, mcuFlash
<1>18. CASE OrderFails
  BY <1>1, <1>18 DEF OrderFails, mcuFlash
<1>12. CASE Transfer
  BY <1>1, <1>12 DEF Transfer, StartAnswered, StartTimesOut, SendChunk, ChunkAnswered,
     ChunkTimesOut, SendEnd, EndAnswered, EndTimesOut, mcuFlash
<1>13. CASE Receives \/ OtherSends \/ ModemRestarts
  BY <1>1, <1>13 DEF Receives, Receive, OtherSends, ModemRestarts, ModemOff, mcuFlash
<1>14. CASE McuStart \/ McuChunkRefused
  BY <1>1, <1>14 DEF McuStart, McuChunkRefused, modem, mcuFlash
<1>15. CASE UNCHANGED mcuVars
  BY <1>1, <1>15 DEF mcuVars, modem, mcuFlash
<1>16. Application => \/ McuStart \/ McuChunkRefused \/ McuChunk \/ McuEnd \/ McuResets
                      \/ AppStarts
  BY DEF Application
<1>17. BootLoader => BootNoUpdate \/ BootUpdate \/ BootCopies \/ BootCopied
  BY DEF BootLoader
<1> QED BY <1>2, <1>3, <1>4, <1>5, <1>6, <1>7, <1>8, <1>9, <1>10, <1>11, <1>12, <1>13,
           <1>14, <1>15, <1>16, <1>17, <1>18, Zenon DEF McuNext

\* The invariant holds at the start.
LEMMA BoardInit == McuInit => BoardInv
<1> SUFFICES ASSUME McuInit PROVE UpdateInv /\ RunInv
  BY DEF BoardInv
<1> USE DEF McuInit
<1>1. McuTypeInv /\ image = Old /\ Size[Old] \in Nat /\ Size[Old] > 0 /\ Size[Old] <= LIMIT
  BY McuTypeInit, McuBounds, Counts, ImageAssumption
<1>2. FrameInv /\ TurnInv /\ TotalInv /\ AckInv
  BY <1>1 DEF FrameInv, TurnInv, TotalInv, AckInv, StartDown, ChunkDown, EndDown, Answered
<1>3. SpiInv /\ ReqInv
  BY <1>1 DEF SpiInv, ReqInv, Blank
<1>4. RunsImage(Old)
  <2> SUFFICES ASSUME NEW c \in 0..(Size[Old] - 1) PROVE c \in DOMAIN app /\ app[c] = Old
    BY DEF RunsImage
  <2>1. c \in 0..(LIMIT - 1) /\ c < Size[Old]
    BY <1>1, McuBounds
  <2> QED BY <2>1
<1>5. RunInv
  BY <1>4, ImageAssumption DEF RunInv, Runnable
<1> QED BY <1>2, <1>3, <1>5 DEF UpdateInv

\* Every step keeps the invariant, in every world.
LEMMA BoardKept == McuTypeInv /\ BoardInv /\ [McuNext]_mcuVars => BoardInv'
<1> SUFFICES ASSUME McuTypeInv, BoardInv, [McuNext]_mcuVars PROVE BoardInv'
  OBVIOUS
<1>1. mcuWorld' = mcuWorld
  BY DEF McuNext, mcuVars, OrderMota, OrderFails, Transfer, StartAnswered, StartTimesOut, SendChunk,
     ChunkAnswered, ChunkTimesOut, SendEnd, EndAnswered, EndTimesOut, Receives, Receive,
     OtherSends, Application, McuStart, McuChunkRefused, McuChunk, McuEnd, McuResets,
     AppStarts, BootLoader, BootNoUpdate, BootUpdate, BootCopies, BootCopied, PowerFails,
     ModemRestarts
<1> QED BY <1>1, UpdateKept, RunKept DEF BoardInv, Regular, Without

\* Chunk numbers, counters and both flashes stay in range in every world (MOTA.c,
\* MComm.c and the boot loader).
THEOREM McuTypesHold == McuSpec => []McuTypeOK
<1>1. McuTypeInv => McuTypeOK
  BY DEF McuTypeInv
<1> QED BY <1>1, McuTypeInit, McuTypeKept, PTL DEF McuSpec

\* The inductive invariant holds.
THEOREM BoardInvHolds == McuSpec => [](McuTypeInv /\ BoardInv)
  BY McuTypeInit, McuTypeKept, BoardInit, BoardKept, PTL DEF McuSpec

\* The boot loader is asked for whole images only, and the microcontroller always has
\* an application to run, wherever the power fails (SetUpdateREQ, FlashNewApp).
THEOREM BoardStaysSafe == McuSpec => []BoardIsSafe
<1>1. McuTypeInv /\ BoardInv => BoardIsSafe
  BY DEF BoardInv, UpdateInv, ReqInv, RunInv, BoardIsSafe, RequestIsWhole, NeverBricked,
         McuTypeInv, McuTypeOK
<1> QED BY <1>1, BoardInvHolds, PTL

\* When ProcessMCUOTA reports success, the microcontroller holds the whole image and
\* the request for it, whatever was lost or late and whoever else was sending.
THEOREM ReportsAreTrue == McuSpec => ReportIsTrue
<1>1. McuTypeInv /\ BoardInv /\ [McuNext]_mcuVars =>
        [Regular /\ EndAnswered /\ motaReport' = "ok" =>
           Stored(image) /\ updateREQ /\ size = Size[image]]_mcuVars
  <2> SUFFICES ASSUME McuTypeInv, BoardInv, Regular, EndAnswered, motaReport' = "ok"
               PROVE  Stored(image) /\ updateREQ /\ size = Size[image]
    OBVIOUS
  <2>1. mota = "end" /\ ok
    BY DEF EndAnswered
  <2>2. num = Size[image] /\ num <= expected /\ expected <= Size[image]
    BY <2>1 DEF BoardInv, UpdateInv, AckInv, SpiInv
  <2>3. expected = Size[image]
    BY <2>2, Counts DEF McuTypeInv, McuTypeOK
  <2> QED BY <2>1, <2>3 DEF BoardInv, UpdateInv, TurnInv, ReqInv
<1> QED BY <1>1, BoardInvHolds, PTL DEF McuSpec, ReportIsTrue

=============================================================================
