-------------------------------- MODULE MCServer --------------------------------
(***************************************************************************)
(* Three commands: one that creates the campaign and two that compete for  *)
(* its first version.                                                      *)
(***************************************************************************)
EXTENDS Server

Commands == {"create", "change", "rival"}
ExpectedVersions == [k \in Commands |-> IF k = "create" THEN 0 ELSE 1]
=================================================================================
