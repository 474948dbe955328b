------------------------- MODULE MCTimingTransport --------------------------
(* HTTP/2: a synchronised request without a body, whose header block stays  *)
(* open until the final gate, then a body that exceeds the window.          *)
EXTENDS TimingTransport
MCRequests ==
  << [headers |-> 2, body |-> 0, strict |-> TRUE, last |-> TRUE],
     [headers |-> 1, body |-> 3, strict |-> FALSE, last |-> FALSE] >>
=============================================================================
