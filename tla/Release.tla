-------------------------------- MODULE Release --------------------------------
(***************************************************************************)
(* What the service promises to whoever relies on a release credential,    *)
(* without plan, rounds, reviews or versions: the dossier of a room is     *)
(* worked on while it is open, it is sealed once, only when nothing in it  *)
(* is unresolved, it never changes after that, and the credential is       *)
(* issued once, for exactly what was sealed.                               *)
(*                                                                         *)
(* Campaign implements this module (see Campaign!Promise).                 *)
(***************************************************************************)
VARIABLES
    phase,       \* "open", "sealed", "released"
    dossier,     \* the evidence and the decisions about it
    unresolved,  \* what still speaks against releasing the room
    seal,        \* {} or the dossier that was sealed
    credential   \* {} or the dossier the credential certifies

vars == <<phase, dossier, unresolved, seal, credential>>

Init ==
    /\ phase = "open"
    /\ seal = {}
    /\ credential = {}

\* Evidence and decisions change in any way the people involved see fit.
Work ==
    /\ phase = "open" /\ phase' = "open"
    /\ UNCHANGED <<seal, credential>>

Seal ==
    /\ phase = "open" /\ phase' = "sealed"
    /\ unresolved = {}
    /\ seal' = {dossier}
    /\ UNCHANGED <<dossier, unresolved, credential>>

Certify ==
    /\ phase = "sealed" /\ phase' = "released"
    /\ credential' = {dossier}
    /\ UNCHANGED <<dossier, unresolved, seal>>

Next == Work \/ Seal \/ Certify

Spec == Init /\ [][Next]_vars
================================================================================
