----------------------------- MODULE MCProfiles -----------------------------
(* Profiles for two and three operators.                                     *)
EXTENDS Profiles

(* Profiles all alike, and each kind with the others in one order or another. *)
MCNets ==
    {<<"denied", "denied", "denied">>, <<"rejects", "rejects", "rejects">>,
     <<"denied", "missing", "good">>, <<"rejects", "denied", "missing">>,
     <<"rejects", "denied", "denied">>,
     <<"good", "denied", "rejects">>, <<"missing", "rejects", "good">>}

MCWorlds ==
    {{"stk", "order", "timer"}, {"drop", "hang", "late", "order", "radio", "timer"},
     {"fota", "sim", "timer", "order"},
     {"cut", "fresh", "imsi", "order", "stk"}}

=============================================================================
