------------------------------ MODULE MCBatch ------------------------------
(* The ring in two parts, of which a behaviour is one: single calls, with     *)
(* faults and power cuts, and the two threads of BatchUpload step by step.   *)
EXTENDS BatchUpload

\* In the part of the calls there is neither thread.
NoStorer   == [IdleStorer EXCEPT !.pc = "none"]
NoUploader == [IdleUploader EXCEPT !.pc = "none"]

CallsInit == /\ Init
             /\ world = {} /\ storer = NoStorer /\ uploader = NoUploader
             /\ foreign = {} /\ owed = {}

(* A packet gets the first name that is free, as one name is as good as       *)
(* another; which slot is deleted does not depend on the types.              *)
CallsNext == /\ storer = NoStorer
             /\ Next
             /\ \A p \in Packets : Unstored(p) /\ ~ Unstored(p)'
                                     => p = CHOOSE q \in NormalPkts : Unstored(q)
             /\ UNCHANGED <<world, storer, uploader, foreign, owed>>

ThreadsNext == storer # NoStorer /\ UNext

\* (Uploading says nothing of the calls: its actions are those of the threads.)
BatchSpec == /\ CallsInit \/ UInit
             /\ [][CallsNext \/ ThreadsNext]_uvars
             /\ Uploading

=============================================================================
