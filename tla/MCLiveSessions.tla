--------------------------- MODULE MCLiveSessions ---------------------------
(* A small instance of LiveSessions for TLC.                               *)
EXTENDS LiveSessions
=============================================================================
