--------------------------- MODULE MCClientSession ---------------------------
(* Two sessions, each a login or a local game.                             *)
EXTENDS ClientSession
=============================================================================
