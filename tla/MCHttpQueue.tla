----------------------------- MODULE MCHttpQueue -----------------------------
(* HttpQueue with a queue of a few items.                                    *)
EXTENDS HttpQueue

(* The calm queue, with a watchdog that takes slow posts for stuck ones; one  *)
(* that is replaced in; one that overflows besides; one whose posts are       *)
(* aborted too; one whose locks time out; all at once.                        *)
MCWorlds ==
    {{"batch", "emergency", "watchdog"}, {"batch", "emergency", "replace", "watchdog"},
     {"batch", "emergency", "full", "replace", "watchdog"},
     {"abort", "batch", "emergency", "full", "replace"},
     {"batch", "emergency", "full", "locktimeout"},
     {"abort", "batch", "emergency", "full", "locktimeout", "preempt", "replace",
      "watchdog"}}

(* A queue that is replaced in or that overflows, and nothing else.           *)
ReplaceWorlds == {{"batch", "replace"}, {"batch", "full"}}

=============================================================================
