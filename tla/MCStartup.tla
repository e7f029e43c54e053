----------------------------- MODULE MCStartup -----------------------------
(* A small instance of Startup for TLC. *)
EXTENDS Startup, TLC

\* A configuration file may hold any number of minutes.
Minutes == {-1, 0, 1, 5}

\* Tags 1 and 2 are v9 and v10: the later release is the smaller string.
AsStrings == <<2, 1>> @@ (0 :> 0)
=============================================================================
