------------------------------ MODULE ClockProofs ------------------------------
(***************************************************************************)
(* That the time stamps of a campaign are in order while the clock is      *)
(* steady, for any number of requests, versions and clock values.          *)
(*                                                                         *)
(* The order alone is not inductive: a command that overtakes an earlier   *)
(* one could be stamped too late.  What saves it is the version check: a   *)
(* command that can still be accepted was sent when the campaign had its   *)
(* present version already, and so at a time no stamp is later than.       *)
(***************************************************************************)
EXTENDS Clock, TLAPS

States == {"idle", "sent", "accepted", "conflict", "untimely"}

ClockType ==
    /\ now \in Nat /\ setbacks \in Nat
    /\ stamps \in Seq(Nat)
    /\ request \in [Requests -> [state : States, expected : Nat, at : Nat]]

\* Nobody expects a version that is still to come.
NoneAhead == \A r \in Requests : request[r].expected <= Version

\* Nothing is sent or stamped later than now, nor stamped later than a command that can
\* still be accepted.
StampsPast ==
    /\ \A i \in DOMAIN stamps : stamps[i] <= now
    /\ \A r \in Requests : request[r].at <= now
    /\ \A r \in Requests :
         request[r].state = "sent" /\ request[r].expected = Version =>
           \A i \in DOMAIN stamps : stamps[i] <= request[r].at

Ordered == \A i, j \in DOMAIN stamps : i < j => stamps[i] <= stamps[j]

SteadyInv ==
    /\ ClockType
    /\ NoneAhead
    /\ setbacks = 0 => StampsPast /\ Ordered

USE DEF Version

LEMMA InitSteady == Init => SteadyInv
  BY DEF Init, SteadyInv, ClockType, NoneAhead, StampsPast, Ordered, States

\* A command changes its own request only, and leaves the rest of the invariant be.
LEMMA StepSteady == SteadyInv /\ [Next]_vars => SteadyInv'
<1> SUFFICES ASSUME SteadyInv, [Next]_vars PROVE SteadyInv'
  OBVIOUS
<1> USE ClockAssumption DEF SteadyInv
<1>1. CASE Tick
  BY <1>1 DEF Tick, ClockType, NoneAhead, StampsPast, Ordered
<1>2. CASE SetBack
  <2>1. setbacks' # 0
    BY <1>2 DEF SetBack, ClockType
  <2>2. ClockType' /\ NoneAhead'
    BY <1>2 DEF SetBack, ClockType, NoneAhead
  <2> QED BY <2>1, <2>2
<1>3. ASSUME NEW r \in Requests, Send(r) PROVE SteadyInv'
  <2>1. ClockType' /\ NoneAhead'
    BY <1>3 DEF Send, ClockType, NoneAhead, States
  <2>2. setbacks = 0 => StampsPast' /\ Ordered'
    BY <1>3 DEF Send, ClockType, StampsPast, Ordered
  <2> QED BY <1>3, <2>1, <2>2 DEF Send
<1>4. ASSUME NEW r \in Requests, Repeat(r) PROVE SteadyInv'
  <2>1. ClockType' /\ NoneAhead'
    BY <1>4 DEF Repeat, ClockType, NoneAhead, States
  <2>2. setbacks = 0 => StampsPast' /\ Ordered'
    BY <1>4 DEF Repeat, ClockType, StampsPast, Ordered
  <2> QED BY <1>4, <2>1, <2>2 DEF Repeat
<1>5. ASSUME NEW r \in Requests, Accept(r) PROVE SteadyInv'
  <2> DEFINE at == request[r].at
  <2>1. /\ at \in Nat /\ stamps \in Seq(Nat)
        /\ request[r].state = "sent" /\ request[r].expected = Len(stamps)
        /\ stamps' = Append(stamps, at)
        /\ now' = now /\ setbacks' = setbacks
    BY <1>5 DEF Accept, Expected, ClockType
  <2>2. /\ stamps' \in Seq(Nat)
        /\ Len(stamps') = Len(stamps) + 1
        /\ DOMAIN stamps' = 1 .. (Len(stamps) + 1)
        /\ stamps'[Len(stamps) + 1] = at
        /\ \A i \in DOMAIN stamps : stamps'[i] = stamps[i]
        /\ DOMAIN stamps = 1 .. Len(stamps)
        /\ Len(stamps) \in Nat
    BY <2>1
  <2>3. /\ request' \in [Requests -> [state : States, expected : Nat, at : Nat]]
        /\ \A s \in Requests : request'[s].expected = request[s].expected
        /\ \A s \in Requests : s # r => request'[s] = request[s]
        /\ request'[r].state = "accepted"
    BY <1>5 DEF Accept, ClockType, States
  <2>4. ClockType'
    BY <2>1, <2>2, <2>3 DEF ClockType
  <2>5. \A s \in Requests : request'[s].expected < Len(stamps')
    BY <2>2, <2>3 DEF NoneAhead, ClockType
  <2>6. NoneAhead'
    BY <2>2, <2>3, <2>5 DEF NoneAhead
  <2>7. ASSUME setbacks = 0 PROVE StampsPast' /\ Ordered'
    <3>1. /\ now \in Nat /\ at <= now
          /\ \A i \in DOMAIN stamps : stamps[i] \in Nat /\ stamps[i] <= at /\ stamps[i] <= now
          /\ \A i, j \in DOMAIN stamps : i < j => stamps[i] <= stamps[j]
      BY <2>1, <2>2, <2>7 DEF ClockType, StampsPast, Ordered
    <3>2. \A i \in DOMAIN stamps' : stamps'[i] <= now'
      BY <2>1, <2>2, <3>1
    <3>3. \A s \in Requests : request'[s].at <= now'
      BY <1>5, <2>1, <2>7 DEF Accept, StampsPast, ClockType
    <3>4. StampsPast'
      BY <2>5, <2>3, <3>2, <3>3 DEF StampsPast, ClockType
    <3>5. Ordered'
      BY <2>1, <2>2, <3>1 DEF Ordered
    <3> QED BY <3>4, <3>5
  <2> QED BY <2>1, <2>4, <2>6, <2>7
<1>6. ASSUME NEW r \in Requests, Refuse(r) PROVE SteadyInv'
  <2>1. ClockType' /\ NoneAhead'
    BY <1>6 DEF Refuse, ClockType, NoneAhead, States
  <2>2. setbacks = 0 => StampsPast' /\ Ordered'
    BY <1>6 DEF Refuse, ClockType, StampsPast, Ordered
  <2> QED BY <1>6, <2>1, <2>2 DEF Refuse
<1>7. CASE UNCHANGED vars
  BY <1>7 DEF vars, ClockType, NoneAhead, StampsPast, Ordered
<1> QED BY <1>1, <1>2, <1>3, <1>4, <1>5, <1>6, <1>7 DEF Next

\* While the clock is steady, versions are stamped in order.
THEOREM StampsOrdered == Spec => []StampsInOrder
<1>1. SteadyInv => StampsInOrder
  BY DEF SteadyInv, Ordered, StampsInOrder
<1> QED BY InitSteady, StepSteady, <1>1, PTL DEF Spec
================================================================================
