---------------------------- MODULE MCTcpSocket ----------------------------
(* TcpSocket with the conditions the run is to meet.                         *)
EXTENDS TcpSocket

MCWorlds == {{}, {"latedns"}, {"hidden", "preempt"}, {"stale"}, {"shared", "slowack"}}
=============================================================================
