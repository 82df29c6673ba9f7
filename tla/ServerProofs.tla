------------------------------ MODULE ServerProofs -----------------------------
(***************************************************************************)
(* That an answer tells what the request did, and that who holds the       *)
(* connection works with it, for any number of requests, commands, queries *)
(* and starts.                                                             *)
(*                                                                         *)
(* Neither is inductive alone.  A deadline answers 500 and says nothing of *)
(* what was applied: it is right because nothing is before the work is     *)
(* done, and a request whose answer is written has no deadline any more.  The   *)
(* holder is known to be held to by the request's own state only.          *)
(***************************************************************************)
EXTENDS Server, TLAPS

States == {"idle", "receiving", "received", "waiting", "holding", "answering", "answered", "cut"}

RequestType == [state : States, work : Works, query : Nat, status : Nat, made : {0, 1}]

ServerType ==
    /\ stored \in Seq(Keys)
    /\ request \in [Requests -> RequestType]
    /\ conn \subseteq Requests

\* A request that is answered, or that an answer is being written to.
Done(x) == x.state \in {"answering", "answered"}

\* Nothing is applied before the work is done, and then the status tells.
Told(x) ==
    /\ x.state \notin {"answering", "answered", "cut"} => x.made = 0
    /\ Done(x) /\ x.status # 200 => (x.made = 1 <=> x.status = 201)

ServerInv ==
    /\ ServerType
    /\ HolderWorks
    /\ \A r \in Requests : Told(request[r])

-------------------------------------------------------------------------------
(* What may become of a request's record *)

Ended(y, status) == [y EXCEPT !.state = "answering", !.status = status]
Worked(y, status, made) == [y EXCEPT !.state = "answering", !.status = status, !.made = made]

LEMMA Proceeds ==
  ASSUME NEW y \in RequestType, y.made = 0,
         NEW state \in {"received", "waiting", "holding", "cut"},
         NEW query \in Nat, NEW work \in Works
  PROVE  /\ [y EXCEPT !.state = state] \in RequestType
         /\ Told([y EXCEPT !.state = state])
         /\ [y EXCEPT !.state = state].state = state
         /\ [y EXCEPT !.state = state, !.query = query] \in RequestType
         /\ Told([y EXCEPT !.state = state, !.query = query])
         /\ [y EXCEPT !.state = state, !.work = work] \in RequestType
         /\ Told([y EXCEPT !.state = state, !.work = work])
  BY DEF RequestType, States, Told, Done

LEMMA EndsWithout ==
  ASSUME NEW y \in RequestType, y.made = 0, NEW status \in Nat, status # 201
  PROVE  Ended(y, status) \in RequestType /\ Told(Ended(y, status))
<1> DEFINE x == Ended(y, status)
<1>1. x \in RequestType
  BY DEF Ended, RequestType, States
<1>2. x.state = "answering" /\ x.status = status /\ x.made = 0
  BY DEF Ended, RequestType
<1>3. Told(x)
  BY <1>2 DEF Told, Done
<1> QED BY <1>1, <1>3

LEMMA DoesItsWork ==
  ASSUME NEW y \in RequestType, NEW status \in Nat, NEW made \in {0, 1},
         status # 200 => (made = 1 <=> status = 201)
  PROVE  Worked(y, status, made) \in RequestType /\ Told(Worked(y, status, made))
<1> DEFINE x == Worked(y, status, made)
<1>1. x \in RequestType
  BY DEF Worked, RequestType, States
<1>2. x.state = "answering" /\ x.status = status /\ x.made = made
  BY DEF Worked, RequestType
<1>3. Told(x)
  BY <1>2 DEF Told, Done
<1> QED BY <1>1, <1>3

LEMMA SaysSo ==
  ASSUME NEW y \in RequestType, Told(y), y.state = "answering"
  PROVE  /\ [y EXCEPT !.state = "answered"] \in RequestType
         /\ Told([y EXCEPT !.state = "answered"])
  BY DEF RequestType, States, Told, Done

LEMMA IsCut ==
  ASSUME NEW y \in RequestType
  PROVE  /\ [y EXCEPT !.state = "cut"] \in RequestType
         /\ Told([y EXCEPT !.state = "cut"])
  BY DEF RequestType, States, Told, Done

LEMMA NothingYet ==
  ASSUME NEW y \in RequestType, Told(y), y.state \notin {"answering", "answered", "cut"}
  PROVE  y.made = 0
  BY DEF Told

-------------------------------------------------------------------------------

LEMMA InitServer == Init => ServerInv
  BY DEF Init, Idle, NoStatus, Works, ServerInv, ServerType, RequestType, States,
         HolderWorks, Told, Done

\* A step of one request that leaves a well formed, truthful request, and gives the
\* connection to nobody but itself, and only if it works with it.
LEMMA OneRequest ==
  ASSUME ServerInv, NEW r \in Requests, NEW x \in RequestType, Told(x),
         request' = [request EXCEPT ![r] = x],
         stored' \in Seq(Keys),
         conn' \subseteq Requests,
         \A s \in conn' : s # r => s \in conn,
         r \in conn' => x.state = "holding"
  PROVE  ServerInv'
<1>1. request' \in [Requests -> RequestType]
  BY DEF ServerInv, ServerType
<1>2. \A s \in Requests : request'[s] = IF s = r THEN x ELSE request[s]
  BY DEF ServerInv, ServerType
<1>3. ServerType'
  BY <1>1 DEF ServerType
<1>4. HolderWorks'
  BY <1>2 DEF ServerInv, ServerType, HolderWorks
<1>5. \A s \in Requests : Told(request'[s])
  BY <1>2 DEF ServerInv
<1> QED BY <1>3, <1>4, <1>5 DEF ServerInv

\* The request that holds, if it is not the one that steps, goes on holding.
LEMMA StepServer == ServerInv /\ [Next]_vars => ServerInv'
<1> SUFFICES ASSUME ServerInv, [Next]_vars PROVE ServerInv'
  OBVIOUS
<1>t. /\ stored \in Seq(Keys) /\ conn \subseteq Requests
      /\ request \in [Requests -> RequestType]
      /\ \A r \in Requests : request[r] \in RequestType /\ Told(request[r])
      /\ \A r \in conn : request[r].state = "holding"
  BY DEF ServerInv, ServerType, HolderWorks
<1>1. ASSUME NEW r \in Requests, Arrive(r) PROVE ServerInv'
  <2>1. PICK w \in Works : request' = [request EXCEPT ![r] =
           [Idle EXCEPT !.state = IF w \in Keys THEN "receiving" ELSE "received", !.work = w]]
    BY <1>1 DEF Arrive
  <2> DEFINE x == [Idle EXCEPT !.state = IF w \in Keys THEN "receiving" ELSE "received", !.work = w]
  <2>2. x \in RequestType /\ Told(x)
    BY DEF Idle, NoStatus, RequestType, States, Told, Done
  <2> QED BY <1>1, <1>t, <2>1, <2>2, OneRequest DEF Arrive
<1>2. ASSUME NEW r \in Requests, BodyArrives(r) PROVE ServerInv'
  <2> DEFINE x == [request[r] EXCEPT !.state = "received"]
  <2>1. request' = [request EXCEPT ![r] = x]
    BY <1>2 DEF BodyArrives
  <2>2. x \in RequestType /\ Told(x)
    BY <1>2, <1>t, NothingYet, Proceeds DEF BodyArrives, Works
  <2> QED BY <1>2, <1>t, <2>1, <2>2, OneRequest DEF BodyArrives
<1>3. ASSUME NEW r \in Requests, Reject(r) PROVE ServerInv'
  <2>1. PICK status \in {400, 403, 409} : request' = Failed(r, status)
    BY <1>3 DEF Reject, DecodeStatus, MetaStatus, RoleStatus, CandidateStatus
  <2> DEFINE x == Ended(request[r], status)
  <2>2. request' = [request EXCEPT ![r] = x]
    BY <2>1 DEF Failed, Ended
  <2>3. x \in RequestType /\ Told(x)
    <3>1. request[r] \in RequestType /\ request[r].made = 0
      BY <1>3, <1>t, NothingYet DEF Reject
    <3>2. status \in Nat /\ status # 201
      OBVIOUS
    <3> QED BY <3>1, <3>2, EndsWithout
  <2>4. stored' = stored /\ conn' = conn /\ r \notin conn
    BY <1>3, <1>t DEF Reject
  <2> HIDE DEF x
  <2> QED BY <1>t, <2>2, <2>3, <2>4, OneRequest
<1>4. ASSUME NEW r \in Requests, Admit(r) PROVE ServerInv'
  <2> DEFINE x == [request[r] EXCEPT !.state = "waiting", !.query = 1]
  <2>1. request' = [request EXCEPT ![r] = x]
    BY <1>4 DEF Admit
  <2>2. x \in RequestType /\ Told(x)
    BY <1>4, <1>t, NothingYet, Proceeds DEF Admit, Works
  <2> QED BY <1>4, <1>t, <2>1, <2>2, OneRequest DEF Admit
<1>5. ASSUME NEW r \in Requests, Acquire(r) PROVE ServerInv'
  <2> DEFINE x == [request[r] EXCEPT !.state = "holding"]
  <2>1. request' = [request EXCEPT ![r] = x]
    BY <1>5 DEF Acquire
  <2>2. x \in RequestType /\ Told(x) /\ x.state = "holding"
    BY <1>5, <1>t, NothingYet, Proceeds DEF Acquire, Works
  <2> QED BY <1>5, <1>t, <2>1, <2>2, OneRequest DEF Acquire
<1>6. ASSUME NEW r \in Requests, RunCommand(r) PROVE ServerInv'
  <2>1. conn' = {} /\ Holds(r)
    BY <1>6 DEF RunCommand
  <2>2. PICK status \in {200, 201, 404, 409, 422}, made \in {0, 1} :
          /\ Executed(r, status, made)
          /\ status # 200 => (made = 1 <=> status = 201)
    BY <1>6 DEF RunCommand
  <2> DEFINE x == Worked(request[r], status, made)
  <2>3. request' = [request EXCEPT ![r] = x]
    BY <2>2 DEF Executed, Worked
  <2>4. x \in RequestType /\ Told(x)
    <3>1. status \in Nat
      OBVIOUS
    <3> QED BY <1>t, <2>2, <3>1, DoesItsWork
  <2>5. request[r].work \in Keys
    BY <1>6 DEF RunCommand, IsCommand
  <2>6. stored' = stored \/ stored' = Append(stored, request[r].work)
    BY <1>6 DEF RunCommand
  <2>7. stored' \in Seq(Keys)
    BY <2>5, <2>6, <1>t
  <2> QED BY <2>1, <2>3, <2>4, <2>7, OneRequest
<1>7. ASSUME NEW r \in Requests, RunQuery(r) PROVE ServerInv'
  <2>1. conn' = {} /\ Holds(r) /\ stored' = stored
    BY <1>7 DEF RunQuery
  <2>2. CASE \E status \in {200, 404, CandidateStatus} : Executed(r, status, 0)
    <3>1. PICK status \in {200, 404, 409} : Executed(r, status, 0)
      BY <2>2 DEF CandidateStatus
    <3> DEFINE x == Worked(request[r], status, 0)
    <3>2. request' = [request EXCEPT ![r] = x]
      BY <3>1 DEF Executed, Worked
    <3>3. x \in RequestType /\ Told(x)
      <4>1. status \in Nat /\ 0 \in {0, 1} /\ (status # 200 => (0 = 1 <=> status = 201))
        OBVIOUS
      <4> QED BY <1>t, <4>1, DoesItsWork
    <3> HIDE DEF x
    <3> QED BY <1>t, <2>1, <3>2, <3>3, OneRequest
  <2>3. CASE request' = [request EXCEPT ![r] = [@ EXCEPT !.state = "waiting", !.query = request[r].query + 1]]
    <3> DEFINE x == [request[r] EXCEPT !.state = "waiting", !.query = request[r].query + 1]
    <3>1. request' = [request EXCEPT ![r] = x]
      BY <2>3
    <3>2. x \in RequestType /\ Told(x)
      <4>1. request[r].made = 0 /\ request[r].query + 1 \in Nat
        BY <1>t, <2>1, NothingYet DEF Holds, RequestType
      <4> QED BY <1>t, <4>1, Proceeds DEF Works
    <3> QED BY <1>t, <2>1, <3>1, <3>2, OneRequest
  <2> QED BY <1>7, <2>2, <2>3 DEF RunQuery
<1>8. ASSUME NEW r \in Requests, RunTimeline(r) PROVE ServerInv'
  <2>1. conn' = {} /\ Holds(r) /\ stored' = stored
    BY <1>8 DEF RunTimeline
  <2>2. CASE Executed(r, 200, 0)
    <3> DEFINE x == Worked(request[r], 200, 0)
    <3>1. request' = [request EXCEPT ![r] = x]
      BY <2>2 DEF Executed, Worked
    <3>2. x \in RequestType /\ Told(x)
      <4>1. 200 \in Nat /\ 0 \in {0, 1}
        OBVIOUS
      <4> QED BY <1>t, <4>1, DoesItsWork
    <3> QED BY <1>t, <2>1, <3>1, <3>2, OneRequest
  <2>3. CASE request' = [request EXCEPT ![r] = [@ EXCEPT !.state = "waiting", !.work = "read"]]
    <3> DEFINE x == [request[r] EXCEPT !.state = "waiting", !.work = "read"]
    <3>1. request' = [request EXCEPT ![r] = x]
      BY <2>3
    <3>2. x \in RequestType /\ Told(x)
      <4>1. request[r].made = 0
        BY <1>t, <2>1, NothingYet DEF Holds
      <4> QED BY <1>t, <4>1, Proceeds DEF Works
    <3> QED BY <1>t, <2>1, <3>1, <3>2, OneRequest
  <2> QED BY <1>8, <2>2, <2>3 DEF RunTimeline
<1>9. ASSUME NEW r \in Requests, Respond(r) PROVE ServerInv'
  <2> DEFINE x == [request[r] EXCEPT !.state = "answered"]
  <2>1. request' = [request EXCEPT ![r] = x]
    BY <1>9 DEF Respond
  <2>2. x \in RequestType /\ Told(x)
    BY <1>9, <1>t, SaysSo DEF Respond
  <2> QED BY <1>9, <1>t, <2>1, <2>2, OneRequest DEF Respond
<1>10. ASSUME NEW r \in Requests, Expire(r) \/ Break(r) PROVE ServerInv'
  <2>1. /\ request[r].state \in {"waiting", "holding"}
        /\ request' = Failed(r, 500)
        /\ stored' = stored
        /\ conn' = conn \ {r} \/ conn' = {}
    BY <1>10 DEF Expire, Break, Holds
  <2> DEFINE x == Ended(request[r], 500)
  <2>2. request' = [request EXCEPT ![r] = x]
    BY <2>1 DEF Failed, Ended
  <2>3. x \in RequestType /\ Told(x)
    <3>1. request[r] \in RequestType /\ request[r].made = 0
      BY <1>t, <2>1, NothingYet
    <3>2. 500 \in Nat /\ 500 # 201
      OBVIOUS
    <3> QED BY <3>1, <3>2, EndsWithout
  <2> QED BY <1>t, <2>1, <2>2, <2>3, OneRequest
<1>11. CASE Cut
  <2>1. conn' = {} /\ stored' = stored
    BY <1>11 DEF Cut
  <2>2. \A r \in Requests :
          request'[r] = IF request[r].state \in UnderWay
                          THEN [request[r] EXCEPT !.state = "cut"] ELSE request[r]
    BY <1>11 DEF Cut
  <2>3. ASSUME NEW r \in Requests PROVE request'[r] \in RequestType /\ Told(request'[r])
    <3>1. CASE request[r].state \in UnderWay
      BY <1>t, <2>2, <3>1, IsCut
    <3>2. CASE request[r].state \notin UnderWay
      BY <1>t, <2>2, <3>2
    <3> QED BY <3>1, <3>2
  <2>4. request' \in [Requests -> RequestType]
    BY <1>11, <2>3 DEF Cut
  <2> QED BY <1>t, <2>1, <2>3, <2>4 DEF ServerInv, ServerType, HolderWorks
<1>12. CASE UNCHANGED <<stored, conn, request>>
  BY <1>t, <1>12 DEF ServerInv, ServerType, HolderWorks
<1>13. CASE Signal \/ Drained \/ DrainTimeout \/ Die \/ Restart
  BY <1>11, <1>12, <1>13 DEF Signal, Drained, DrainTimeout, Die, Restart
<1>14. CASE UNCHANGED vars
  BY <1>12, <1>14 DEF vars
<1> QED
  BY <1>1, <1>2, <1>3, <1>4, <1>5, <1>6, <1>7, <1>8, <1>9, <1>10, <1>13, <1>14
  DEF Next, Handle

-------------------------------------------------------------------------------

\* Whatever an answer but 200 says of the command, it is true: 201 that this attempt made
\* the version, every other status that it made none.
THEOREM AnswersAreTrue == Spec => []AnswerTellsEffect
<1>1. ServerInv => AnswerTellsEffect
  BY DEF ServerInv, Told, Done, AnswerTellsEffect
<1> QED BY InitServer, StepServer, <1>1, PTL DEF Spec

\* The connection is only ever held by a request that works with it.
THEOREM HoldersWork == Spec => []HolderWorks
<1>1. ServerInv => HolderWorks
  BY DEF ServerInv
<1> QED BY InitServer, StepServer, <1>1, PTL DEF Spec
================================================================================
