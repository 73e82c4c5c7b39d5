----------------------------- MODULE MCOgServer -----------------------------
(* OgServer with the button and the commands apart and together.             *)
EXTENDS OgServer

MCWorlds ==
    {{"button", "drops", "emergency", "notamper"}, {"button", "clear", "notamper"},
     {"button", "offline", "emergency", "fails"}, {"amd3", "second", "offline"},
     {"button", "disable", "notamper", "preempt"},
     {"clear", "amd3", "drops", "emergency"},
     {"amd3", "vreset", "second", "drops", "fails"},
     {"amd3", "vreset", "second", "busy"}, {"amd3", "vreset", "third"}}

=============================================================================
