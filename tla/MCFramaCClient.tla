---------------------------- MODULE MCFramaCClient ----------------------------
(* Model values for FramaCClient: two handlers that share one connection.  *)
(* Of the Codec below it, binary digits: one, two and four of them.        *)
EXTENDS FramaCClient

CONSTANTS c1, c2

Two == {c1, c2}

MCDigits == <<1, 2, 4>>
=============================================================================
