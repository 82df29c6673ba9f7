--------------------------------- MODULE Clock ---------------------------------
(***************************************************************************)
(* The times of one campaign.  The service reads the clock when it accepts *)
(* a command (src/internal/application/service.go), before the command     *)
(* waits for the connection; the version it makes is stamped with that     *)
(* time (touch), and the integrity rules refuse a version stamped before   *)
(* the campaign's creation.  Commands reach the connection in any order.   *)
(* The clock may be set back.                                              *)
(***************************************************************************)
EXTENDS Naturals, Sequences

CONSTANTS
    Requests,
    MaxTime,      \* bound of the clock
    MaxVersions,  \* bound of the campaign's versions
    MaxSetbacks   \* bound: how often the clock is set back

ASSUME ClockAssumption ==
    /\ MaxTime \in Nat /\ MaxVersions \in Nat /\ MaxSetbacks \in Nat

VARIABLES
    now, setbacks,
    stamps,    \* the time of each version: stamps[1] is CreatedAt, the last one UpdatedAt
    request    \* per request: [state, expected, at]

vars == <<now, setbacks, stamps, request>>

Version == Len(stamps)

Init ==
    /\ now = 0 /\ setbacks = 0
    /\ stamps = << >>
    /\ request = [r \in Requests |-> [state |-> "idle", expected |-> 0, at |-> 0]]

-------------------------------------------------------------------------------
(* The clock *)

Tick ==
    /\ now < MaxTime
    /\ now' = now + 1
    /\ UNCHANGED <<setbacks, stamps, request>>

SetBack ==
    /\ setbacks < MaxSetbacks
    /\ setbacks' = setbacks + 1
    /\ now' \in {t \in 0 .. MaxTime : t < now}
    /\ UNCHANGED <<stamps, request>>

-------------------------------------------------------------------------------
(* Commands *)

\* The service admits a command and reads the clock.  Version 0 stands for the creation,
\* which expects that there is no campaign; else a client names the version it has been
\* told of.
Send(r) ==
    /\ request[r].state # "sent"
    /\ Version < MaxVersions
    /\ request' = [request EXCEPT ![r] = [state |-> "sent", expected |-> Version, at |-> now]]
    /\ UNCHANGED <<now, setbacks, stamps>>

\* The same command again, after an internal error.
Repeat(r) ==
    /\ request[r].state = "untimely"
    /\ request' = [request EXCEPT ![r].state = "sent", ![r].at = now]
    /\ UNCHANGED <<now, setbacks, stamps>>

TimeIntact_Strict(at) == Version > 0 => at > stamps[1]

\* ValidateIntegrity: no update before the creation.
TimeIntact(at) == Version > 0 => at >= stamps[1]

Expected_CreationOnly(r) == request[r].expected > 0 \/ Version = 0

\* A creation finds no campaign, another command finds the version it expects.
Expected(r) == request[r].expected = Version

Accept(r) ==
    /\ request[r].state = "sent"
    /\ Expected(r) /\ TimeIntact(request[r].at)
    /\ stamps' = Append(stamps, request[r].at)
    /\ request' = [request EXCEPT ![r].state = "accepted"]
    /\ UNCHANGED <<now, setbacks>>

\* A version conflict, 409, or a broken integrity rule, 500.
Refuse(r) ==
    /\ request[r].state = "sent"
    /\ \/ ~Expected(r) /\ request' = [request EXCEPT ![r].state = "conflict"]
       \/ /\ Expected(r) /\ ~TimeIntact(request[r].at)
          /\ request' = [request EXCEPT ![r].state = "untimely"]
    /\ UNCHANGED <<now, setbacks, stamps>>

Next ==
    \/ Tick \/ SetBack
    \/ \E r \in Requests : Send(r) \/ Repeat(r) \/ Accept(r) \/ Refuse(r)

\* The clock goes on, admitted commands get the connection, and a client that was told
\* of an internal error asks again.
Fairness ==
    /\ WF_vars(Tick)
    /\ \A r \in Requests :
         /\ WF_vars(Accept(r) \/ Refuse(r))
         /\ WF_vars(Repeat(r))

Spec == Init /\ [][Next]_vars

FairSpec == Spec /\ Fairness

-------------------------------------------------------------------------------
(* Properties *)

\* While the clock is never set back, the versions of a campaign (and its audit events)
\* are stamped in order, although commands overtake each other on their way to the
\* connection.
StampsInOrder ==
    setbacks = 0 => \A i, j \in DOMAIN stamps : i < j => stamps[i] <= stamps[j]

\* A campaign whose clock was set back is not lost: who is refused for the time and asks
\* again comes through in the end, or is overtaken by another command.
TimelyAgain ==
    \A r \in Requests :
      request[r].state = "untimely" ~> request[r].state \in {"accepted", "conflict"}
================================================================================
