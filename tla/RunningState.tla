---------------------------- MODULE RunningState ----------------------------
(***************************************************************************)
(* One server process, with the loop runningState running as if Make had   *)
(* started it: the loop, the handlers that report to it over channels, the *)
(* mutex around pbft.state, which changeState unlocks without having       *)
(* locked it, and serverLock, which the handlers hold while they push.     *)
(* What the handlers decide is left open; module PBFT has it.              *)
(***************************************************************************)
EXTENDS Integers, FiniteSets, GoTimer

CONSTANTS
  PrePrepares, Commits,  \* calls of the handlers that call isChangingView.  What a
                         \* prepare or a checkpoint does here, any call may do.
  ViewChanges,   \* calls of HandleViewChangeRPC
  ChanCap,       \* capacity of the channels (10)
  InitialTimer   \* the timer the loop starts with: "zero" for &time.Timer{}, as
                 \* written; "running" for one that time.NewTimer made

Reader == PrePrepares \cup Commits
Call == Reader \cup ViewChanges

ASSUME CallAssumption ==
  /\ IsFiniteSet(Call) /\ ViewChanges \cap Reader = {}
  /\ PrePrepares \cap Commits = {}
ASSUME ChannelAssumption == ChanCap \in Nat /\ InitialTimer \subseteq TimerState

VARIABLES
  running,           \* is the process alive
  leads,             \* is this server the leader
  state,             \* pbft.state
  serverStateLock, serverLock,   \* is the mutex locked
  pc,                \* where each call is
  at, writes,        \* where the loop is, and the state it is about to write
  timer, uncommittedCommands,
  newValidCommad, commandRecieved, commandExecuted,   \* channel fill levels
  logged,            \* history: commands HandlePrePrepareRPC has logged
  rests              \* history: how often the loop has gone back to IDLE

loopVars == <<at, writes, timer, uncommittedCommands, rests>>
chanVars == <<newValidCommad, commandRecieved, commandExecuted>>
vars == <<running, leads, state, serverStateLock, serverLock, pc, loopVars,
          chanVars, logged>>

Init ==
  /\ running = TRUE
  /\ leads \in BOOLEAN
  /\ state = "IDLE"
  /\ serverStateLock = FALSE /\ serverLock = FALSE
  /\ pc = [c \in Call |-> "start"]
  /\ at = "select" /\ writes = "IDLE"
  /\ timer \in InitialTimer
  /\ uncommittedCommands = 0
  /\ newValidCommad = 0 /\ commandRecieved = 0 /\ commandExecuted = 0
  /\ logged = 0 /\ rests = 0

Goto(c, place) == pc' = [pc EXCEPT ![c] = place]

\* The process ends; its memory no longer matters.
Exit ==
  /\ running' = FALSE
  /\ UNCHANGED <<leads, state, serverStateLock, serverLock, pc, loopVars, chanVars,
                 logged>>

\* Unlock of serverStateLock, whoever locked it.  An unlocked mutex is a fatal
\* error of the Go runtime.
Unlock ==
  /\ serverStateLock
  /\ serverStateLock' = FALSE

-----------------------------------------------------------------------------
(* isChangingView: lock, read, unlock.                                      *)

isChangingView_Lock(c) ==
  /\ running /\ pc[c] = "start"
  /\ ~serverStateLock
  /\ serverStateLock' = TRUE
  /\ Goto(c, "locked")
  /\ UNCHANGED <<running, leads, state, serverLock, loopVars, chanVars, logged>>

isChangingView_Read(c) ==
  /\ running /\ pc[c] = "locked"
  /\ Goto(c, IF state = "CHANGING_VIEW" THEN "changing" ELSE "unchanged")
  /\ UNCHANGED <<running, leads, state, serverStateLock, serverLock, loopVars,
                 chanVars, logged>>

\* The handler returns if the view is changing.  HandleCheckPointRPC is done with
\* what is modelled here in either case.
isChangingView_Unlock(c) ==
  /\ running /\ pc[c] \in {"changing", "unchanged"}
  /\ \/ /\ Unlock
        /\ \/ Goto(c, "done")
           \/ pc[c] = "unchanged" /\ Goto(c, "push")
        /\ UNCHANGED <<running, leads, state, serverLock, loopVars, chanVars, logged>>
     \/ ~serverStateLock /\ Exit

-----------------------------------------------------------------------------
(* changeState, as HandleViewChangeRPC calls it: unlock, write, unlock.     *)

\* Mutant: the mutex is locked first.
FirstUnlock_lock == ~serverStateLock /\ serverStateLock' = TRUE
FirstUnlock == Unlock

changeState_Unlock(c) ==
  /\ running /\ pc[c] \in {"start", "written"}
  /\ \/ /\ pc[c] = "start" /\ FirstUnlock
        /\ Goto(c, "unlocked")
        /\ UNCHANGED <<running, leads, state, serverLock, loopVars, chanVars, logged>>
     \/ /\ pc[c] = "written" /\ Unlock
        /\ Goto(c, "done")
        /\ UNCHANGED <<running, leads, state, serverLock, loopVars, chanVars, logged>>
     \/ ~serverStateLock /\ Exit

changeState_Write(c) ==
  /\ running /\ pc[c] = "unlocked"
  /\ state' = "CHANGING_VIEW"
  /\ Goto(c, "written")
  /\ UNCHANGED <<running, leads, serverStateLock, serverLock, loopVars, chanVars,
                 logged>>

-----------------------------------------------------------------------------
(* The handlers of the three phases.  A push waits while its channel is full. *)

PushReceived(c) ==
  /\ running /\ pc[c] = "push" /\ commandRecieved < ChanCap
  /\ commandRecieved' = commandRecieved + 1
  /\ Goto(c, "waiting")
  /\ UNCHANGED <<running, leads, state, serverStateLock, serverLock, loopVars,
                 newValidCommad, commandExecuted, logged>>

\* Under serverLock the handler accepts the message or returns, as HandlePrepareRPC
\* always does as far as the loop can tell.  It accepts a
\* commit only for a slot that is logged: at the leader by Start, which pushes
\* nothing, elsewhere by a pre-prepare.
Handle(c) ==
  /\ running /\ pc[c] = "waiting" /\ ~serverLock
  /\ \/ /\ c \in PrePrepares /\ ~leads
        /\ logged' = logged + 1
        /\ serverLock' = TRUE /\ Goto(c, "accepted")
     \/ /\ c \in Commits /\ (leads \/ logged > 0)
        /\ serverLock' = TRUE /\ Goto(c, "accepted")
        /\ UNCHANGED logged
     \/ Goto(c, "done") /\ UNCHANGED <<serverLock, logged>>
  /\ UNCHANGED <<running, leads, state, serverStateLock, loopVars, chanVars>>

PushAccepted(c) ==
  /\ running /\ pc[c] = "accepted"
  /\ \/ /\ c \in PrePrepares /\ newValidCommad < ChanCap
        /\ newValidCommad' = newValidCommad + 1
        /\ UNCHANGED commandExecuted
     \/ /\ c \in Commits /\ commandExecuted < ChanCap
        /\ commandExecuted' = commandExecuted + 1
        /\ UNCHANGED newValidCommad
  /\ serverLock' = FALSE
  /\ Goto(c, "done")
  /\ UNCHANGED <<running, leads, state, serverStateLock, loopVars, commandRecieved,
                 logged>>

-----------------------------------------------------------------------------
(* The loop.  It reads state without the mutex, and writes it under it.     *)

\* Stop, drain, and go on with the timer as it is then.
StopAndDrain(place, newTimer) ==
  /\ running' = ~Panics(timer)
  /\ at' = IF Drains(timer) THEN place ELSE "blocked"
  /\ timer' = IF Drains(timer) THEN newTimer ELSE timer

\* A case of the select that can be taken.  Mutant: serverLock is taken first.
Receives_locked(channel) ==
  running /\ at = "select" /\ channel > 0 /\ ~serverLock
Receives(channel) == running /\ at = "select" /\ channel > 0

\* The value is received, so Stop finds the timer idle.
TimeOut ==
  /\ running /\ at = "select" /\ timer = "fired"
  /\ timer' = "idle"
  /\ at' = IF ~Drains("idle") THEN "blocked"
           ELSE IF state = "PROCESSING_COMMAND" THEN "lock" ELSE "select"
  /\ writes' = IF Drains("idle") THEN "CHANGING_VIEW" ELSE writes
  /\ UNCHANGED <<running, leads, state, serverStateLock, serverLock, pc, logged,
                 uncommittedCommands, rests, chanVars>>

\* Mutant: whatever the state is that no command is processed in.
StartsProcessing_any == state # "PROCESSING_COMMAND"
StartsProcessing == state = "IDLE"

TakeNewValid ==
  /\ Receives(newValidCommad)
  /\ newValidCommad' = newValidCommad - 1
  /\ uncommittedCommands' = uncommittedCommands + 1
  /\ IF StartsProcessing
     THEN at' = "lock" /\ writes' = "PROCESSING_COMMAND"
     ELSE UNCHANGED <<at, writes>>
  /\ UNCHANGED <<running, leads, state, serverStateLock, serverLock, pc, logged, timer,
                 rests, commandRecieved, commandExecuted>>

TakeReceived ==
  /\ Receives(commandRecieved)
  /\ commandRecieved' = commandRecieved - 1
  /\ StopAndDrain("select", "running")
  /\ UNCHANGED <<leads, state, serverStateLock, serverLock, pc, logged, writes,
                 uncommittedCommands, rests, newValidCommad, commandExecuted>>

\* What follows the count: to IDLE when no command is left, otherwise the timer is
\* set again.
AfterExecuted(count) ==
  IF count = 0
  THEN StopAndDrain("lock", "idle") /\ writes' = "IDLE"
  ELSE StopAndDrain("select", "running") /\ UNCHANGED writes

\* Mutant: off by one.
CountPanics_below(count) == count < -1
CountPanics(count) == count < 0

TakeExecuted ==
  LET count == uncommittedCommands - 1
  IN /\ Receives(commandExecuted)
     /\ \/ /\ ~CountPanics(count)
           /\ commandExecuted' = commandExecuted - 1
           /\ uncommittedCommands' = count
           /\ IF state = "PROCESSING_COMMAND"
              THEN AfterExecuted(count)
              ELSE UNCHANGED <<running, at, writes, timer>>
           /\ UNCHANGED <<leads, state, serverStateLock, serverLock, pc, logged, rests,
                          newValidCommad, commandRecieved>>
        \/ CountPanics(count) /\ Exit

\* The loop takes serverStateLock to write state, and in startViewChange serverLock,
\* which it gives back at once: to make the message, and in sendRPCs, which ends the
\* process when the next leader cannot be dialled.
Loop_Lock ==
  /\ running /\ at \in {"lock", "startViewChange", "sendRPCs"}
  /\ ~(IF at = "lock" THEN serverStateLock ELSE serverLock)
  /\ IF at = "lock" THEN serverStateLock' = TRUE ELSE UNCHANGED serverStateLock
  /\ at' = [lock |-> "write", startViewChange |-> "sendRPCs", sendRPCs |-> "select"][at]
  /\ running' \in IF at = "sendRPCs" THEN BOOLEAN ELSE {TRUE}
  /\ UNCHANGED <<leads, state, serverLock, pc, logged, writes, timer,
                 uncommittedCommands, rests, chanVars>>

Loop_Write ==
  /\ running /\ at = "write"
  /\ state' = writes
  /\ at' = "unlock"
  /\ rests' = IF writes = "IDLE" THEN rests + 1 ELSE rests
  /\ UNCHANGED <<running, leads, serverStateLock, serverLock, pc, logged, writes, timer,
                 uncommittedCommands, chanVars>>

\* After IDLE the loop is done, and after CHANGING_VIEW it calls startViewChange.
Loop_Unlock ==
  /\ running /\ at = "unlock"
  /\ \/ /\ Unlock
        /\ IF writes = "PROCESSING_COMMAND"
           THEN StopAndDrain("select", "running")
           ELSE /\ at' = IF writes = "CHANGING_VIEW" THEN "startViewChange" ELSE "select"
                /\ UNCHANGED <<running, timer>>
        /\ UNCHANGED <<leads, state, serverLock, pc, logged, writes,
                       uncommittedCommands, rests, chanVars>>
     \/ ~serverStateLock /\ Exit

Fire ==
  /\ running /\ timer = "running"
  /\ timer' = "fired"
  /\ UNCHANGED <<running, leads, state, serverStateLock, serverLock, pc, logged, at,
                 writes, uncommittedCommands, rests, chanVars>>

-----------------------------------------------------------------------------
Handler(c) ==
  \/ isChangingView_Lock(c) \/ isChangingView_Read(c) \/ isChangingView_Unlock(c)
  \/ PushReceived(c) \/ Handle(c) \/ PushAccepted(c)

changeState(c) == changeState_Unlock(c) \/ changeState_Write(c)

Loop ==
  \/ TimeOut \/ TakeNewValid \/ TakeReceived \/ TakeExecuted
  \/ Loop_Lock \/ Loop_Write \/ Loop_Unlock

Next ==
  \/ \E c \in Reader : Handler(c)
  \/ \E c \in ViewChanges : changeState(c)
  \/ Loop
  \/ Fire

Spec == Init /\ [][Next]_vars

\* Calls are made or not, but one that has begun goes on, as does the loop.
FairSpec ==
  /\ Spec
  /\ \A c \in Reader : WF_vars(pc[c] # "start" /\ Handler(c))
  /\ \A c \in ViewChanges : WF_vars(pc[c] # "start" /\ changeState(c))
  /\ WF_vars(Loop)

-----------------------------------------------------------------------------
TypeOK ==
  /\ running \in BOOLEAN /\ leads \in BOOLEAN
  /\ state \in {"IDLE", "PROCESSING_COMMAND", "CHANGING_VIEW"}
  /\ serverStateLock \in BOOLEAN /\ serverLock \in BOOLEAN
  /\ \A c \in Reader :
       pc[c] \in {"start", "locked", "changing", "unchanged", "push", "waiting",
                  "accepted", "done"}
  /\ \A c \in ViewChanges : pc[c] \in {"start", "unlocked", "written", "done"}
  /\ DOMAIN pc = Call
  /\ at \in {"select", "blocked", "lock", "write", "unlock", "startViewChange", "sendRPCs"}
  /\ writes \in {"IDLE", "PROCESSING_COMMAND", "CHANGING_VIEW"}
  /\ timer \in TimerState
  /\ uncommittedCommands \in Nat /\ logged \in Nat /\ rests \in Nat
  /\ newValidCommad \in 0 .. ChanCap /\ commandRecieved \in 0 .. ChanCap
  /\ commandExecuted \in 0 .. ChanCap

\* Those between a Lock of serverStateLock and their own Unlock.
Inside == {c \in Reader : pc[c] \in {"locked", "changing", "unchanged"}}
LoopInside == IF at \in {"write", "unlock"} THEN 1 ELSE 0

\* Nobody is between Lock and Unlock twice: each changeState that has begun has
\* taken away one Unlock that somebody inside still has to make, and each that is
\* done two.  So a server survives a changeState only while two others are inside,
\* and it owes them the fatal error.
LockDebt ==
  running =>
    Cardinality(Inside) + LoopInside =
      (IF serverStateLock THEN 1 ELSE 0)
      + Cardinality({c \in ViewChanges : pc[c] \in {"unlocked", "written", "done"}})
      + Cardinality({c \in ViewChanges : pc[c] = "done"})

\* The loop never starts a view change, although constants.go:29 has a "time for
\* initiating view change": a time-out that it receives is the one it then waits for.
NeverStartsViewChange == writes # "CHANGING_VIEW"

\* The loop goes back to IDLE at most once: it stops the timer then, and every way
\* out of IDLE waits for a stopped timer.
RestsOnce == rests <= 1

\* The loop may undo a view change: it reads state without the mutex, and what it has
\* then decided to write it writes over a CHANGING_VIEW that changeState has put there
\* meanwhile.  Only so: a change that finds the loop past its decision stands for ever.
ChangeStays ==
  [](state = "CHANGING_VIEW" /\ at \notin {"lock", "write"}
       => [](state = "CHANGING_VIEW"))

\* Can the call that holds serverLock push, or the loop make room for it?
CanPush(channel) == channel < ChanCap \/ Receives(channel)

\* No circle of waits through serverLock: it is locked by exactly one handler, the
\* one that pushes under it, and while that handler waits for room the loop is about
\* to take from its channel, or is between a Lock and an Unlock, or waits for a mutex
\* that is free or that another handler is inside of and unlocks without waiting.
\* Only the timer can keep the loop from it: the same timer keeps it from
\* startViewChange, where it would wait for the handler that waits for it.
NoCircularWait ==
  running =>
    /\ serverLock <=> \E c \in Reader : pc[c] = "accepted"
    /\ \A c, d \in Reader : pc[c] = "accepted" /\ pc[d] = "accepted" => c = d
    /\ \A c \in Reader : pc[c] = "accepted" =>
         \/ c \in PrePrepares /\ CanPush(newValidCommad)
         \/ c \in Commits /\ CanPush(commandExecuted)
         \/ at \in {"blocked", "write", "unlock"}
         \/ at = "lock" /\ (serverStateLock => Inside # {})

\* A changeState that got past its first Unlock is the end of the server, once
\* nobody calls any more.
ChangeEndsServer ==
  \A c \in ViewChanges : pc[c] = "unlocked" ~> ~running

\* A handler that waits for room in a channel while it holds serverLock gets it,
\* unless the loop waits for its timer: nothing else keeps it from emptying the
\* channel.
LockedPushEnds ==
  \A c \in Reader : pc[c] = "accepted" ~> (pc[c] = "done" \/ ~running \/ at = "blocked")
=============================================================================
