--------------------------------- MODULE Server --------------------------------
(***************************************************************************)
(* The life of a request in the process (src/internal/transport/httpapi,   *)
(* src/cmd/server/run.go, and the way query.go and repository.go use the   *)
(* pool): the body arrives, is decoded and admitted, waits for the one     *)
(* connection, as often as it has queries, and its answer is written, at   *)
(* the client's pace; its deadline may pass, its handler may panic, the    *)
(* process may be shut down.                                               *)
(*                                                                         *)
(* What a command does to a campaign is in Campaign and Store.  Here it is *)
(* the next version, with the command's idempotency key.                   *)
(***************************************************************************)
EXTENDS Naturals, Sequences, SequencesExt

CONSTANTS
    Requests,
    Keys, Expects,   \* idempotency keys; the version each one's command expects, 0 to create
    Queries,         \* bound: queries of a read (Get has seven)
    MaxStarts        \* bound: starts of the process

ASSUME ServerAssumption ==
    /\ Expects \in [Keys -> Nat]
    /\ Queries \in Nat \ {0}
    /\ MaxStarts \in Nat \ {0}

VARIABLES
    stored,   \* the keys of the applied commands, one per version; survives the process
    conn,     \* {} or the request that holds the connection
    request,  \* per request: [state, work, query, status, made]: made is
              \* the number of versions that this attempt made
    process,  \* "serving", "draining", "finished" (cleanly) or "dead"
    starts

vars == <<stored, conn, request, process, starts>>

\* What is asked: a command, by its key, the campaign's view, or the timeline.
Works == Keys \cup {"read", "timeline"}

IsCommand(r) == request[r].work \in Keys

NoStatus == 0

Idle == [state |-> "idle", work |-> "read", query |-> 0, status |-> NoStatus, made |-> 0]

UnderWay == {"receiving", "received", "waiting", "holding", "answering"}

Init ==
    /\ stored = << >>
    /\ conn = {}
    /\ request = [r \in Requests |-> Idle]
    /\ process = "serving" /\ starts = 1

-------------------------------------------------------------------------------
(* Before the database *)

\* The headers of a request are in; for a command its body is still to come.
Arrive(r) ==
    /\ process = "serving"
    /\ request[r].state \in {"idle", "answered", "cut"}
    /\ \E w \in Works :
         request' = [request EXCEPT ![r] =
           [Idle EXCEPT !.state = IF w \in Keys THEN "receiving" ELSE "received", !.work = w]]
    /\ UNCHANGED <<stored, conn, process, starts>>

\* The body comes, if the client sends it: nothing but the client limits that.
BodyArrives(r) ==
    /\ request[r].state = "receiving"
    /\ request' = [request EXCEPT ![r] = [@ EXCEPT !.state = "received"]]
    /\ UNCHANGED <<stored, conn, process, starts>>

\* An error is what there is to answer.
Failed(r, status) ==
    [request EXCEPT ![r] = [@ EXCEPT !.state = "answering", !.status = status]]

\* What refuses a request before anything is read, with its status: decodeStrict,
\* validateMeta (and the rules about arguments), requireRole, and a freeze of another
\* version than its candidate; a read only for its arguments.
DecodeStatus == 400
MetaStatus == 400
RoleStatus == 403
CandidateStatus == 409

Reject(r) ==
    /\ request[r].state = "received"
    /\ \E status \in IF IsCommand(r) THEN {DecodeStatus, MetaStatus, RoleStatus, CandidateStatus}
                     ELSE {MetaStatus} :
         request' = Failed(r, status)
    /\ UNCHANGED <<stored, conn, process, starts>>

Admit(r) ==
    /\ request[r].state = "received"
    /\ request' = [request EXCEPT ![r] = [@ EXCEPT !.state = "waiting", !.query = 1]]
    /\ UNCHANGED <<stored, conn, process, starts>>

-------------------------------------------------------------------------------
(* At the database *)

\* The pool has one connection; who waits gets it in no particular order.
Acquire(r) ==
    /\ request[r].state = "waiting"
    /\ conn = {}
    /\ conn' = {r}
    /\ request' = [request EXCEPT ![r] = [@ EXCEPT !.state = "holding"]]
    /\ UNCHANGED <<stored, process, starts>>

Holds(r) == request[r].state = "holding" /\ conn = {r}

Executed(r, status, made) ==
    request' = [request EXCEPT ![r] =
                  [@ EXCEPT !.state = "answering", !.status = status, !.made = made]]

Replayable(r) == Contains(stored, request[r].work)

\* Run: a recorded key is replayed, or refused if it was another request's; or the command
\* is refused (404, 409, 422); or it is applied and the transaction commits.
RunCommand(r) ==
    /\ Holds(r) /\ IsCommand(r)
    /\ conn' = {}
    /\ LET key == request[r].work
           exists == stored # << >>
       IN \/ /\ Replayable(r) /\ UNCHANGED stored
             /\ Executed(r, 200, 0) \/ Executed(r, 409, 0)
          \/ /\ ~Replayable(r) /\ UNCHANGED stored
             /\ \/ Expects[key] > 0 /\ ~exists /\ Executed(r, 404, 0)
                \/ exists /\ Expects[key] # Len(stored) /\ Executed(r, 409, 0)
                \/ Expects[key] = Len(stored) /\ Executed(r, 422, 0)
          \/ /\ ~Replayable(r) /\ Expects[key] = Len(stored)
             /\ stored' = Append(stored, key)
             /\ Executed(r, IF Expects[key] = 0 THEN 201 ELSE 200, 1)
    /\ UNCHANGED <<process, starts>>

\* A query of Get, the first of which finds the campaign or not.  Its rows are closed
\* before the next query asks for the connection.  A preflight then compares versions.
RunQuery(r) ==
    /\ Holds(r) /\ request[r].work = "read"
    /\ conn' = {}
    /\ IF request[r].query = 1 /\ stored = << >> THEN Executed(r, 404, 0)
       ELSE IF request[r].query = Queries
              THEN \E status \in {200, CandidateStatus} : Executed(r, status, 0)
       ELSE request' = [request EXCEPT ![r] = [@ EXCEPT !.state = "waiting", !.query = request[r].query + 1]]
    /\ UNCHANGED <<stored, process, starts>>

RunTimeline_RowsOpen(r) ==
    /\ Holds(r) /\ request[r].work = "timeline"
    /\ IF stored # << >> THEN conn' = {} /\ Executed(r, 200, 0)
       ELSE conn' = conn /\ request' = [request EXCEPT ![r] = [@ EXCEPT !.state = "waiting", !.work = "read"]]
    /\ UNCHANGED <<stored, process, starts>>

\* The timeline's query; without events it goes on as Get, to tell an unknown campaign.
\* The rows close by themselves after the last one, the deferred Close comes too late
\* to give the connection back to Get.
RunTimeline(r) ==
    /\ Holds(r) /\ request[r].work = "timeline"
    /\ conn' = {}
    /\ IF stored # << >> THEN Executed(r, 200, 0)
       ELSE request' = [request EXCEPT ![r] = [@ EXCEPT !.state = "waiting", !.work = "read"]]
    /\ UNCHANGED <<stored, process, starts>>

\* The answer is written and the handler returns, if the client reads it or goes away:
\* the deadline has no say any more, and the server sets no limit to writing.
Respond(r) ==
    /\ request[r].state = "answering"
    /\ request' = [request EXCEPT ![r] = [@ EXCEPT !.state = "answered"]]
    /\ UNCHANGED <<stored, conn, process, starts>>

Expire_AfterCommit(r) ==
    /\ request[r].state \in {"waiting", "holding", "answering"}
    /\ conn' = conn \ {r}
    /\ request' = Failed(r, 500)
    /\ UNCHANGED <<stored, process, starts>>

Expire_HolderOnly(r) ==
    /\ Holds(r)
    /\ conn' = {}
    /\ request' = Failed(r, 500)
    /\ UNCHANGED <<stored, process, starts>>

\* The context ends, after 15 seconds or with the client's connection: the pool or the
\* driver gives up, the transaction is rolled back, and the answer is 500.
Expire(r) ==
    /\ request[r].state \in {"waiting", "holding"}
    /\ conn' = conn \ {r}
    /\ request' = Failed(r, 500)
    /\ UNCHANGED <<stored, process, starts>>

\* recoverPanics, or a failing statement: the deferred Rollback gives the connection back.
Break(r) ==
    /\ Holds(r)
    /\ conn' = {}
    /\ request' = Failed(r, 500)
    /\ UNCHANGED <<stored, process, starts>>

-------------------------------------------------------------------------------
(* The process *)

Signal ==
    /\ process = "serving"
    /\ process' = "draining"
    /\ UNCHANGED <<stored, conn, request, starts>>

\* Shutdown returns when no request is under way ...
Drained ==
    /\ process = "draining"
    /\ \A r \in Requests : request[r].state \notin UnderWay
    /\ process' = "finished"
    /\ UNCHANGED <<stored, conn, request, starts>>

Cut ==
    /\ process' = "dead"
    /\ conn' = {}
    /\ request' = [r \in Requests |->
                     IF request[r].state \in UnderWay
                       THEN [request[r] EXCEPT !.state = "cut"] ELSE request[r]]
    /\ UNCHANGED <<stored, starts>>

DrainTimeout_Patient ==
    /\ process = "draining"
    /\ \A r \in Requests : request[r].state # "receiving"
    /\ Cut

\* ... or after 5 seconds; the repository is closed under the requests left over.
DrainTimeout == process = "draining" /\ Cut

\* The listener fails (run returns at once), or the process is killed.
Die == process = "serving" /\ Cut

Restart ==
    /\ process \in {"finished", "dead"} /\ starts < MaxStarts
    /\ starts' = starts + 1
    /\ process' = "serving"
    /\ UNCHANGED <<stored, conn, request>>

Handle(r) ==
    \/ Reject(r) \/ Admit(r) \/ Acquire(r)
    \/ RunCommand(r) \/ RunQuery(r) \/ RunTimeline(r) \/ Break(r)

Next ==
    \/ \E r \in Requests :
         Arrive(r) \/ BodyArrives(r) \/ Handle(r) \/ Expire(r) \/ Respond(r)
    \/ Signal \/ Drained \/ DrainTimeout \/ Die \/ Restart

\* Every handler is scheduled, every timer goes off.  Nothing is assumed of clients (they
\* need not send a body, nor read an answer), of the order in which the connection is
\* handed out, or of signals.
Fairness ==
    /\ \A r \in Requests : WF_vars(Handle(r)) /\ WF_vars(Expire(r))
    /\ WF_vars(Drained \/ DrainTimeout)

Spec == Init /\ [][Next]_vars /\ Fairness

-------------------------------------------------------------------------------
(* Properties *)

\* The answer tells what the request did: 201 means that this very attempt made the
\* version, every other status but 200 that it made none, the 500 of a deadline included.
\* (A 200 says in its body whether it is a replay.)
AnswerTellsEffect ==
    \A r \in Requests : request[r].state = "answered" /\ request[r].status # 200 =>
      (request[r].made = 1 <=> request[r].status = 201)

\* Who holds the one connection is at work with it: it has not been answered, cut or
\* forgotten, and it does not wait for a second connection, which there is not.
HolderWorks == \A r \in conn : request[r].state = "holding"

\* The work on a request that was received ends: there is an answer to write, or the
\* request is cut with its process, however many others compete for the connection and
\* whether or not their clients ever read.
WorkEnds ==
    \A r \in Requests :
      request[r].state \in {"received", "waiting", "holding"}
        ~> request[r].state \in {"answering", "answered", "cut"}

\* A process that was told to stop does, also while a client withholds its body or does
\* not read its answer.
ShutdownEnds == (process = "draining") ~> (process \in {"finished", "dead"})
================================================================================
