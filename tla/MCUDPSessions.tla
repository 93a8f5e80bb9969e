--------------------------- MODULE MCUDPSessions ---------------------------
(* Two accepted sources and a refused one; every session is dialed once, so  *)
(* that a source can lose its session and get another.                       *)
EXTENDS UDPSessions, TLC
=============================================================================
