----------------------------- MODULE ClientLoop -----------------------------
(***************************************************************************)
(* The client of client.go: runClient calls Make on every server, then     *)
(* waits for a reply or for its timer, and issues a command after either;  *)
(* ReceiveReply runs in a goroutine for each reply.  What the servers do   *)
(* with a command is left open: any number of replies up to a bound, at    *)
(* any time.                                                               *)
(***************************************************************************)
EXTENDS Integers, GoTimer

CONSTANTS
  N,                  \* the length of servers (4)
  ResultCap,          \* capacity of resultChannel (1000)
  OldReplies,         \* bound: replies to commands of an earlier client process
  RepliesPerCommand,  \* bound: replies to one command, from all servers
  MaxIssued           \* bound: commands issued

Server == 0 .. (N - 1)

ASSUME ClientAssumption ==
  /\ N \in Nat \ {0} /\ ResultCap \in Nat
  /\ OldReplies \in Nat /\ RepliesPerCommand \in Nat /\ MaxIssued \in Nat

VARIABLES
  at,             \* where runClient is
  serverClient,   \* servers dialled, and called for Make, so far
  up,             \* servers that are running
  timer,
  resultChannel,  \* replies in the channel
  received,       \* replies that ReceiveReply has put there
  issued          \* commands issued

envVars == <<up, received>>
vars == <<at, serverClient, timer, resultChannel, issued, envVars>>

Init ==
  /\ at = "bootstrap"
  /\ serverClient = 0
  /\ up = Server
  /\ timer = "zero"
  /\ resultChannel = 0
  /\ received = 0
  /\ issued = 0

-----------------------------------------------------------------------------
\* The next server is dialled, and Make is called and waited for: its answer,
\* an error or the end of the connection, and which of them is not looked at.
Bootstrap ==
  /\ at = "bootstrap" /\ serverClient < N
  /\ IF serverClient \in up
     THEN serverClient' = serverClient + 1 /\ UNCHANGED at
     ELSE at' = "ended" /\ UNCHANGED serverClient
  /\ UNCHANGED <<timer, resultChannel, issued, envVars>>

\* The client listens, makes the timer and opens the file of results; listening
\* and opening may fail, which is a log.Fatal.
Listen ==
  /\ at = "bootstrap" /\ serverClient = N
  /\ \/ at' = "select" /\ timer' = "running"
     \/ at' = "ended" /\ UNCHANGED timer
  /\ UNCHANGED <<serverClient, resultChannel, issued, envVars>>

\* callCommand(0) and the Reset after it.  A dial that fails ends the client.
\* Mutant: the timer is not set again.
NextCommand_noReset ==
  IF 0 \in up
  THEN at' = "select" /\ timer' = "idle" /\ issued' = issued + 1
  ELSE at' = "ended" /\ timer' = "idle" /\ UNCHANGED issued
NextCommand ==
  IF 0 \in up
  THEN at' = "select" /\ timer' = "running" /\ issued' = issued + 1
  ELSE at' = "ended" /\ timer' = "idle" /\ UNCHANGED issued

\* What follows the receive of a case, with the timer as the receive left it.
DrainThenCommand(t) ==
  IF Drains(t)
  THEN NextCommand
  ELSE at' = "blocked" /\ timer' = t /\ UNCHANGED issued

TimeOut ==
  /\ at = "select" /\ timer = "fired"
  /\ issued < MaxIssued
  /\ DrainThenCommand("idle")
  /\ UNCHANGED <<serverClient, resultChannel, envVars>>

\* The duration is written to the file of results, which may fail.
TakeResult ==
  /\ at = "select" /\ resultChannel > 0
  /\ issued < MaxIssued
  /\ resultChannel' = resultChannel - 1
  /\ \/ DrainThenCommand(timer)
     \/ Drains(timer) /\ at' = "ended" /\ timer' = "idle" /\ UNCHANGED issued
  /\ UNCHANGED <<serverClient, envVars>>

\* A call that finds the channel full waits, as if it came later.  Mutant: one
\* place too many.
HasRoom_extra(channel) == channel <= ResultCap
HasRoom(channel) == channel < ResultCap

ReceiveReply ==
  /\ at \in {"select", "blocked"}
  /\ received < OldReplies + RepliesPerCommand * issued
  /\ HasRoom(resultChannel)
  /\ received' = received + 1
  /\ resultChannel' = resultChannel + 1
  /\ UNCHANGED <<at, serverClient, up, timer, issued>>

Fire ==
  /\ timer = "running"
  /\ timer' = "fired"
  /\ UNCHANGED <<at, serverClient, resultChannel, issued, envVars>>

ServerStops(s) ==
  /\ s \in up
  /\ up' = up \ {s}
  /\ UNCHANGED <<at, serverClient, timer, resultChannel, issued, received>>

Loop == Bootstrap \/ Listen \/ TimeOut \/ TakeResult

Next == Loop \/ Fire \/ ReceiveReply \/ (\E s \in Server : ServerStops(s))

Spec == Init /\ [][Next]_vars

\* The Go scheduler runs runClient while it can go on, and time passes.
FairSpec == Spec /\ WF_vars(Loop) /\ WF_vars(Fire)

-----------------------------------------------------------------------------
TypeOK ==
  /\ at \in {"bootstrap", "select", "blocked", "ended"}
  /\ serverClient \in 0 .. N /\ up \subseteq Server
  /\ timer \in TimerState
  /\ resultChannel \in 0 .. ResultCap /\ received \in Nat /\ issued \in Nat

\* A reply never stops the client, however late it is: if the timer fires between
\* the receive from resultChannel and Stop, its value is there to be drained,
\* because every turn of the loop starts with a timer set.
LateReplyIsHarmless ==
  [][resultChannel' < resultChannel => at' # "blocked"]_vars

\* A time-out issues no command: each one answers a reply the client got, of this
\* process' commands or of an earlier one's.  So nobody issues "the first command to the
\* servers", which client.go:125 means the timer to do.
CommandsFollowReplies == issued + resultChannel <= received

\* A client that waits while no further reply comes ends up blocked, for good, where
\* it meant to issue its next command.
QuietClientBlocks ==
  \A r \in 0 .. (OldReplies + RepliesPerCommand * MaxIssued) :
    (at = "select" /\ resultChannel = 0 /\ issued < MaxIssued /\ received = r)
      ~> (at = "blocked" \/ received > r)
=============================================================================
