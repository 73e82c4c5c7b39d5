--------------------------- MODULE MCHttpTransport ---------------------------
(* HttpTransport has no sets to choose: its instances differ in the events.  *)
EXTENDS HttpTransport, TLC

=============================================================================
