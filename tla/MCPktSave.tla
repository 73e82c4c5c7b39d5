------------------------------ MODULE MCPktSave ------------------------------
(* PktSave with room for a few packets.                                      *)
EXTENDS PktSave, TLC

(* Nothing fails and the power stays; the power goes anywhere but while the   *)
(* count is rewritten; it goes anywhere, and packets are saved before the     *)
(* count was read; file operations fail besides.                             *)
CalmWorlds == {{}}

MCWorlds ==
    CalmWorlds \cup {Steps \ {"open", "write"}, Steps \cup {"unread"}, Events}

Symm == Permutations(Packets)

=============================================================================
