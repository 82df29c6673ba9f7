-------------------------------- MODULE Ledger --------------------------------
(***************************************************************************)
(* What the repository promises to its clients: a ledger of applied        *)
(* commands.  A command is applied once, under its idempotency key, to one *)
(* campaign, in the version its client had seen, and advances that version *)
(* by one; what the client is told is the campaign right after that.       *)
(* Crashes, timeouts and repeated requests are invisible here.  Store      *)
(* implements this module (Store!Promise).                                 *)
(***************************************************************************)
EXTENDS Naturals

VARIABLES
    entries,    \* the applied commands: [key, request, response]
    campaigns   \* for each campaign id, {} or the campaign

vars == <<entries, campaigns>>

Init ==
    /\ entries = {}
    /\ \A id \in DOMAIN campaigns : campaigns[id] = {}

VersionOf(stored) == IF stored = {} THEN 0 ELSE (CHOOSE c \in stored : TRUE).version

Apply ==
    \E entry \in entries' :
      LET id == entry.request.campaign
      IN /\ \A e \in entries : e.key # entry.key
         /\ entries' = entries \cup {entry}
         /\ entry.request.expected = VersionOf(campaigns[id])
         /\ entry.response.version = VersionOf(campaigns[id]) + 1
         /\ campaigns' = [campaigns EXCEPT ![id] = {entry.response}]

Spec == Init /\ [][Apply]_vars
===============================================================================
