---------------------------- MODULE OfflineStack ----------------------------
(***************************************************************************)
(* What a store for undelivered packets promises: packets are kept in the   *)
(* order they came and the newest is uploaded first.  A full store gives up *)
(* its oldest packet for a new one, or refuses the new one.                 *)
(***************************************************************************)
EXTENDS Naturals, Sequences

CONSTANTS Packets,  \* what can be stored
          Capacity, \* how many packets fit
          Rollover  \* whether a full store gives up its oldest packet

VARIABLE stack      \* oldest packet first

Init == stack = <<>>

Push(p) ==
    \/ Len(stack) < Capacity /\ stack' = Append(stack, p)
    \/ Len(stack) = Capacity /\ Rollover /\ stack' = Append(Tail(stack), p)
    \/ Len(stack) = Capacity /\ ~ Rollover /\ UNCHANGED stack

Pop == stack # <<>> /\ stack' = SubSeq(stack, 1, Len(stack) - 1)

Wipe == stack' = <<>>

Next == (\E p \in Packets : Push(p)) \/ Pop \/ Wipe

Spec == Init /\ [][Next]_stack

=============================================================================
