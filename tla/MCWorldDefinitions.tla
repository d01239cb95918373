------------------------- MODULE MCWorldDefinitions -------------------------
(* Up to MaxCalls calls of scripts in all: a graph of so many fields, or   *)
(* definitions made before and after a restart.                            *)
EXTENDS WorldDefinitions

MCOps == {"constant", "x", "y", "origin_y", "step", "local_index", "abs", "add", "select",
          "random", "noise2", "noise3"}
MCOrigins == [x : {0}, y : {0, 1}]
MCNumbers == {-1}
MCBuiltin == "builtin:plains"
=============================================================================
