-------------------------- MODULE ClientLoopProofs --------------------------
(***************************************************************************)
(* Theorems about the client of module ClientLoop, for any number of       *)
(* servers, replies and commands and any capacity of the result channel.   *)
(***************************************************************************)
EXTENDS ClientLoop, TLAPS

\* Every turn of the loop starts with a timer that Stop can be called on, and whose
\* value, if Stop comes too late, is still in the channel.
TimerSet == at = "select" => timer \in {"running", "fired"}

Inv == TypeOK /\ TimerSet /\ CommandsFollowReplies

LEMMA InvInit == Init => Inv
  BY ClientAssumption
  DEF Init, Inv, TypeOK, TimerSet, CommandsFollowReplies, Server, TimerState

\* Issuing a command sets the timer and uses up one of the replies received.
LEMMA NextCommandStep ==
  ASSUME TypeOK, NextCommand
  PROVE  /\ at' \in {"select", "ended"} /\ timer' \in {"running", "idle"}
         /\ at' = "select" => timer' = "running"
         /\ issued' \in Nat /\ issued' <= issued + 1
  BY DEF TypeOK, NextCommand

LEMMA TakeResultStep ==
  ASSUME Inv, TakeResult
  PROVE  Inv' /\ at' # "blocked"
  <1>1. /\ resultChannel' = resultChannel - 1 /\ resultChannel > 0
        /\ UNCHANGED <<serverClient, up, received>> /\ Drains(timer)
    BY DEF TakeResult, DrainThenCommand, Drains, envVars, Inv, TimerSet
  <1>2. /\ at' \in {"select", "ended"} /\ timer' \in {"running", "idle"}
        /\ at' = "select" => timer' = "running"
        /\ issued' \in Nat /\ issued' <= issued + 1
    <2>1. CASE NextCommand
      BY <2>1, NextCommandStep DEF Inv
    <2>2. CASE at' = "ended" /\ timer' = "idle" /\ UNCHANGED issued
      BY <2>2 DEF Inv, TypeOK
    <2> QED BY <1>1, <2>1, <2>2 DEF TakeResult, DrainThenCommand
  <1>3. TypeOK' /\ TimerSet'
    BY <1>1, <1>2, ClientAssumption DEF Inv, TypeOK, TimerSet, TimerState, Server
  <1>4. CommandsFollowReplies'
    <2>1. /\ issued \in Int /\ resultChannel \in Int /\ received \in Int
          /\ received' = received /\ issued + resultChannel <= received
      BY <1>1, ClientAssumption DEF Inv, TypeOK, CommandsFollowReplies
    <2>2. /\ resultChannel' = resultChannel - 1
          /\ issued' \in Int /\ issued' <= issued + 1
      BY <1>1, <1>2
    <2>3. ASSUME NEW i \in Int, NEW j \in Int, NEW c \in Int, NEW r \in Int,
                 i <= j + 1, j + c <= r
          PROVE  i + (c - 1) <= r
      BY <2>3
    <2> QED BY <2>1, <2>2, <2>3 DEF CommandsFollowReplies
  <1> QED BY <1>2, <1>3, <1>4 DEF Inv

\* One step per action.  A time-out leaves the timer idle, which is never drained.
LEMMA InvStep == Inv /\ [Next]_vars => Inv'
  <1> SUFFICES ASSUME Inv, [Next]_vars
               PROVE  Inv'
    OBVIOUS
  <1> USE DEF Inv, TypeOK, TimerSet, CommandsFollowReplies, TimerState, envVars
  <1>1. CASE Bootstrap
    BY <1>1, ClientAssumption DEF Bootstrap
  <1>2. CASE Listen
    BY <1>2 DEF Listen
  <1>3. CASE TimeOut
    BY <1>3 DEF TimeOut, DrainThenCommand, Drains
  <1>4. CASE TakeResult
    BY <1>4, TakeResultStep
  <1>5. CASE Fire
    BY <1>5 DEF Fire
  <1>6. CASE ReceiveReply
    BY <1>6, ClientAssumption DEF ReceiveReply, HasRoom
  <1>7. CASE \E s \in Server : ServerStops(s)
    BY <1>7 DEF ServerStops
  <1>8. CASE UNCHANGED vars
    BY <1>8 DEF vars
  <1> QED BY <1>1, <1>2, <1>3, <1>4, <1>5, <1>6, <1>7, <1>8 DEF Next, Loop

\* The client's variables keep their types; the result channel never holds more than
\* its capacity.
THEOREM ClientTypeCorrect == Spec => []TypeOK
  <1>1. Inv => TypeOK
    BY DEF Inv
  <1> QED BY <1>1, InvInit, InvStep, PTL DEF Spec

\* Each command answers a reply: a time-out never issues one.
THEOREM CommandsCorrect == Spec => []CommandsFollowReplies
  <1>1. Inv => CommandsFollowReplies
    BY DEF Inv
  <1> QED BY <1>1, InvInit, InvStep, PTL DEF Spec

\* No reply blocks the client, whether the timer fires before or after it is taken.
THEOREM LateRepliesCorrect == Spec => LateReplyIsHarmless
  <1>1. Inv /\ [Next]_vars =>
          [resultChannel' < resultChannel => at' # "blocked"]_vars
    <2> SUFFICES ASSUME Inv, Next, resultChannel' < resultChannel
                 PROVE  at' # "blocked"
      OBVIOUS
    <2>1. CASE TakeResult
      BY <2>1, TakeResultStep
    <2>2. CASE ReceiveReply
      BY <2>2 DEF ReceiveReply, Inv, TypeOK
    <2>3. CASE \/ Bootstrap \/ Listen \/ TimeOut \/ Fire
               \/ \E s \in Server : ServerStops(s)
      BY <2>3 DEF Bootstrap, Listen, TimeOut, Fire, ServerStops, Inv, TypeOK
    <2> QED BY <2>1, <2>2, <2>3 DEF Next, Loop
  <1> QED BY <1>1, InvInit, InvStep, PTL DEF Spec, LateReplyIsHarmless
=============================================================================
