------------------------- MODULE RunningStateProofs -------------------------
(***************************************************************************)
(* Theorems about the timer loop and the lock of module RunningState, for  *)
(* any number of calls, any capacity of the channels and any timer.        *)
(***************************************************************************)
EXTENDS RunningState, FiniteSetTheorems, TLAPS

-----------------------------------------------------------------------------
(* Types.                                                                   *)

LEMMA TypeInit == Init => TypeOK
  <1> SUFFICES ASSUME Init
               PROVE  TypeOK
    OBVIOUS
  <1>1. pc = [c \in Call |-> "start"] /\ Reader \subseteq Call /\ ViewChanges \subseteq Call
    BY DEF Init, Call
  <1>2. timer \in TimerState /\ 0 \in 0 .. ChanCap
    BY ChannelAssumption DEF Init
  <1> QED BY <1>1, <1>2 DEF Init, TypeOK

\* A call moves to a place of its own handler.
PcOK ==
  /\ \A c \in Reader :
       pc[c] \in {"start", "locked", "changing", "unchanged", "push", "waiting",
                  "accepted", "done"}
  /\ \A c \in ViewChanges : pc[c] \in {"start", "unlocked", "written", "done"}
  /\ DOMAIN pc = Call

LEMMA ReaderMoves ==
  ASSUME TypeOK, NEW c \in Reader, NEW place, Goto(c, place),
         place \in {"start", "locked", "changing", "unchanged", "push", "waiting",
                    "accepted", "done"}
  PROVE  PcOK'
  <1>1. c \in Call /\ c \notin ViewChanges
    BY CallAssumption DEF Call
  <1> QED BY <1>1 DEF TypeOK, PcOK, Goto

LEMMA ViewChangeMoves ==
  ASSUME TypeOK, NEW c \in ViewChanges, NEW place, Goto(c, place),
         place \in {"start", "unlocked", "written", "done"}
  PROVE  PcOK'
  <1>1. c \in Call /\ c \notin Reader
    BY CallAssumption DEF Call
  <1> QED BY <1>1 DEF TypeOK, PcOK, Goto

LEMMA HandlerType ==
  ASSUME TypeOK, NEW c \in Reader, Handler(c)
  PROVE  TypeOK'
  <1>1. CASE isChangingView_Lock(c)
    BY <1>1, ReaderMoves
    DEF isChangingView_Lock, TypeOK, PcOK, loopVars, chanVars
  <1>2. CASE isChangingView_Read(c)
    BY <1>2, ReaderMoves
    DEF isChangingView_Read, TypeOK, PcOK, loopVars, chanVars
  <1>3. CASE isChangingView_Unlock(c)
    <2>1. CASE Exit
      BY <2>1 DEF Exit, TypeOK, loopVars, chanVars
    <2>2. CASE Unlock /\ ~Exit
      BY <1>3, <2>2, ReaderMoves
      DEF isChangingView_Unlock, Unlock, TypeOK, PcOK, loopVars, chanVars
    <2> QED BY <1>3, <2>1, <2>2 DEF isChangingView_Unlock
  <1>4. CASE PushReceived(c)
    BY <1>4, ChannelAssumption, ReaderMoves DEF PushReceived, TypeOK, PcOK, loopVars
  <1>5. CASE Handle(c)
    <2>1. PcOK'
      BY <1>5, ReaderMoves DEF Handle
    <2>2. logged' \in {logged, logged + 1} /\ serverLock' \in {TRUE, serverLock}
      BY <1>5 DEF Handle
    <2>3. logged' \in Nat
      BY <2>2 DEF TypeOK
    <2>4. serverLock' \in BOOLEAN
      BY <2>2, Zenon DEF TypeOK
    <2>5. UNCHANGED <<running, leads, state, serverStateLock, loopVars, chanVars>>
      BY <1>5 DEF Handle
    <2> QED BY <2>1, <2>3, <2>4, <2>5 DEF TypeOK, PcOK, loopVars, chanVars
  <1>6. CASE PushAccepted(c)
    <2>1. PcOK'
      BY <1>6, ReaderMoves DEF PushAccepted
    <2>2. newValidCommad' \in 0 .. ChanCap /\ commandExecuted' \in 0 .. ChanCap
      BY <1>6, ChannelAssumption DEF PushAccepted, TypeOK
    <2> QED BY <1>6, <2>1, <2>2 DEF PushAccepted, TypeOK, PcOK, loopVars
  <1> QED BY <1>1, <1>2, <1>3, <1>4, <1>5, <1>6 DEF Handler

LEMMA ChangeType ==
  ASSUME TypeOK, NEW c \in ViewChanges, changeState(c)
  PROVE  TypeOK'
  <1>1. CASE Exit
    BY <1>1 DEF Exit, TypeOK, loopVars, chanVars
  <1>2. CASE changeState_Unlock(c) /\ ~Exit
    <2>1. PcOK'
      BY <1>2, ViewChangeMoves DEF changeState_Unlock
    <2>2. serverStateLock' \in BOOLEAN
      BY <1>2 DEF changeState_Unlock, FirstUnlock, Unlock
    <2> QED BY <1>2, <2>1, <2>2
            DEF changeState_Unlock, TypeOK, PcOK, loopVars, chanVars
  <1>3. CASE changeState_Write(c)
    BY <1>3, ViewChangeMoves DEF changeState_Write, TypeOK, PcOK, loopVars, chanVars
  <1> QED BY <1>1, <1>2, <1>3 DEF changeState

LEMMA LoopType ==
  ASSUME TypeOK, Loop \/ Fire
  PROVE  TypeOK'
  <1> USE DEF TypeOK, TimerState
  <1>1. CASE TimeOut
    BY <1>1 DEF TimeOut, chanVars
  <1>2. CASE TakeNewValid
    BY <1>2, ChannelAssumption DEF TakeNewValid, Receives, StartsProcessing
  <1>3. CASE TakeReceived
    BY <1>3, ChannelAssumption
    DEF TakeReceived, Receives, StopAndDrain, Panics
  <1>4. CASE TakeExecuted
    <2> DEFINE count == uncommittedCommands - 1
    <2>1. CASE /\ ~CountPanics(count)
               /\ commandExecuted' = commandExecuted - 1
               /\ uncommittedCommands' = count
               /\ IF state = "PROCESSING_COMMAND"
                  THEN AfterExecuted(count)
                  ELSE UNCHANGED <<running, at, writes, timer>>
               /\ UNCHANGED <<leads, state, serverStateLock, serverLock, pc, logged,
                              rests, newValidCommad, commandRecieved>>
      <3>1. /\ running' \in BOOLEAN /\ writes' \in {"IDLE", "PROCESSING_COMMAND", "CHANGING_VIEW"}
            /\ at' \in {"select", "blocked", "lock", "write", "unlock", "startViewChange",
                       "sendRPCs"}
            /\ timer' \in {"zero", "running", "fired", "idle"}
        BY <2>1 DEF AfterExecuted, StopAndDrain, Panics
      <3>2. uncommittedCommands' \in Nat /\ commandExecuted' \in 0 .. ChanCap
        BY <2>1, <1>4, ChannelAssumption DEF CountPanics, TakeExecuted, Receives
      <3> QED BY <2>1, <3>1, <3>2
    <2>2. CASE CountPanics(count) /\ Exit
      BY <2>2 DEF Exit, loopVars, chanVars
    <2> QED BY <1>4, <2>1, <2>2 DEF TakeExecuted
  <1>5. CASE Loop_Lock
    <2>1. /\ at' \in {"write", "sendRPCs", "select"}
          /\ UNCHANGED <<leads, state, serverLock, pc, logged, writes, timer,
                         uncommittedCommands, rests, chanVars>>
      BY <1>5 DEF Loop_Lock
    <2>2. serverStateLock' \in BOOLEAN
      BY <1>5, Zenon DEF Loop_Lock
    <2>3. running' \in BOOLEAN
      BY <1>5, Zenon DEF Loop_Lock
    <2> QED BY <2>1, <2>2, <2>3 DEF chanVars
  <1>6. CASE Loop_Write
    BY <1>6 DEF Loop_Write, chanVars
  <1>7. CASE Loop_Unlock
    BY <1>7 DEF Loop_Unlock, StopAndDrain, Panics, Unlock, Exit, chanVars, loopVars
  <1>8. CASE Fire
    BY <1>8 DEF Fire, chanVars
  <1> QED BY <1>1, <1>2, <1>3, <1>4, <1>5, <1>6, <1>7, <1>8 DEF Loop

LEMMA TypeStep == TypeOK /\ [Next]_vars => TypeOK'
  <1> SUFFICES ASSUME TypeOK, [Next]_vars
               PROVE  TypeOK'
    OBVIOUS
  <1>1. CASE UNCHANGED vars
    BY <1>1 DEF vars, loopVars, chanVars, TypeOK
  <1> QED BY <1>1, HandlerType, ChangeType, LoopType DEF Next

\* The variables of the server keep their types, its channels never hold more than
\* their capacity and it never counts fewer than no commands.
THEOREM ServerTypeCorrect == Spec => []TypeOK
  BY TypeInit, TypeStep, PTL DEF Spec

-----------------------------------------------------------------------------
(* The loop and its timer.                                                  *)

\* A timer that was stopped for a rest is never set again, and what would call
\* startViewChange is never written.
LoopInv ==
  /\ NeverStartsViewChange /\ RestsOnce
  /\ at \notin {"startViewChange", "sendRPCs"}
  /\ rests >= 1 => timer = "idle"
  /\ at \in {"lock", "write"} /\ writes = "IDLE" => timer = "idle" /\ rests = 0

LEMMA LoopInit == Init => LoopInv
  BY DEF Init, LoopInv, NeverStartsViewChange, RestsOnce

\* No call writes a variable of the loop; changeState moves state away from IDLE.
LEMMA CallFrame ==
  ASSUME \/ \E c \in Reader : Handler(c)
         \/ \E c \in ViewChanges : changeState(c)
  PROVE  /\ UNCHANGED <<at, writes, timer, uncommittedCommands, rests>>
         /\ state' \in {state, "CHANGING_VIEW"}
  <1>1. ASSUME NEW c \in Reader, Handler(c)
        PROVE  UNCHANGED <<at, writes, timer, uncommittedCommands, rests>>
               /\ state' = state
    BY <1>1 DEF Handler, isChangingView_Lock, isChangingView_Read,
                isChangingView_Unlock, PushReceived, Handle, PushAccepted, Exit,
                loopVars
  <1>2. ASSUME NEW c \in ViewChanges, changeState(c)
        PROVE  UNCHANGED <<at, writes, timer, uncommittedCommands, rests>>
               /\ state' \in {state, "CHANGING_VIEW"}
    BY <1>2 DEF changeState, changeState_Unlock, changeState_Write, Exit, loopVars
  <1> QED BY <1>1, <1>2

\* A received command counts down to zero before the loop rests, and a loop that has
\* rested waits for its timer instead.
LEMMA ExecutedStep ==
  ASSUME TypeOK, LoopInv, TakeExecuted
  PROVE  LoopInv'
  <1> USE DEF LoopInv, NeverStartsViewChange, RestsOnce
  <1> DEFINE count == uncommittedCommands - 1
  <1>0. at = "select" /\ uncommittedCommands \in Nat
    BY DEF TakeExecuted, Receives, TypeOK
  <1>1. CASE CountPanics(count) /\ Exit
    BY <1>1 DEF Exit, loopVars
  <1>2. CASE /\ ~CountPanics(count) /\ uncommittedCommands' = count
             /\ UNCHANGED <<state, rests>>
             /\ IF state = "PROCESSING_COMMAND"
                THEN AfterExecuted(count)
                ELSE UNCHANGED <<running, at, writes, timer>>
    <2>1. CASE state # "PROCESSING_COMMAND"
      BY <1>0, <1>2, <2>1 DEF CountPanics
    <2>2. CASE state = "PROCESSING_COMMAND" /\ count = 0
      BY <1>0, <1>2, <2>2, 0 = 0 DEF AfterExecuted, StopAndDrain, Drains, TypeOK
    <2>3. CASE state = "PROCESSING_COMMAND" /\ count # 0
      BY <1>0, <1>2, <2>3 DEF AfterExecuted, StopAndDrain, Drains
    <2> QED BY <2>1, <2>2, <2>3
  <1> QED BY <1>1, <1>2 DEF TakeExecuted

LEMMA LoopStep == TypeOK /\ LoopInv /\ [Next]_vars => LoopInv'
  <1> SUFFICES ASSUME TypeOK, LoopInv, [Next]_vars
               PROVE  LoopInv'
    OBVIOUS
  <1> USE DEF LoopInv, NeverStartsViewChange, RestsOnce
  <1>1. CASE \/ \E c \in Reader : Handler(c)
             \/ \E c \in ViewChanges : changeState(c)
    BY <1>1, CallFrame
  <1>2. CASE TimeOut
    BY <1>2 DEF TimeOut, Drains
  <1>3. CASE TakeNewValid
    BY <1>3 DEF TakeNewValid, Receives, StartsProcessing
  <1>4. CASE TakeReceived
    BY <1>4 DEF TakeReceived, Receives, StopAndDrain, Drains
  <1>5. CASE TakeExecuted
    BY <1>5, ExecutedStep
  <1>6. CASE Loop_Lock
    BY <1>6 DEF Loop_Lock
  <1>7. CASE Loop_Write
    BY <1>7 DEF Loop_Write, TypeOK
  <1>8. CASE Loop_Unlock
    BY <1>8 DEF Loop_Unlock, StopAndDrain, Drains, Exit, loopVars
  <1>9. CASE Fire
    BY <1>9 DEF Fire
  <1>10. CASE UNCHANGED vars
    BY <1>10 DEF vars, loopVars
  <1> QED BY <1>1, <1>2, <1>3, <1>4, <1>5, <1>6, <1>7, <1>8, <1>9, <1>10 DEF Next, Loop

\* A time-out that the loop receives never makes it start a view change: it waits for
\* a second value of the timer, and none comes.
THEOREM NoViewChangeStarted == Spec => []NeverStartsViewChange
  <1>1. LoopInv => NeverStartsViewChange
    BY DEF LoopInv
  <1> QED BY <1>1, TypeInit, TypeStep, LoopInit, LoopStep, PTL DEF Spec

\* The loop returns to IDLE at most once in the life of a process.
THEOREM RestsOnceCorrect == Spec => []RestsOnce
  <1>1. LoopInv => RestsOnce
    BY DEF LoopInv
  <1> QED BY <1>1, TypeInit, TypeStep, LoopInit, LoopStep, PTL DEF Spec

\* A view change that finds the loop past its decision stands: from there on every
\* branch of the loop reads CHANGING_VIEW before it writes.
ChangeSeen == state = "CHANGING_VIEW" /\ at \notin {"lock", "write"}

LEMMA SeenStep == LoopInv /\ ChangeSeen /\ [Next]_vars => ChangeSeen'
  <1> SUFFICES ASSUME LoopInv, ChangeSeen, [Next]_vars
               PROVE  ChangeSeen'
    OBVIOUS
  <1> USE DEF ChangeSeen
  <1>1. CASE \/ \E c \in Reader : Handler(c)
             \/ \E c \in ViewChanges : changeState(c)
    BY <1>1, CallFrame
  <1>2. CASE TimeOut
    BY <1>2 DEF TimeOut, Drains
  <1>3. CASE TakeNewValid
    BY <1>3 DEF TakeNewValid, StartsProcessing
  <1>4. CASE TakeReceived
    BY <1>4 DEF TakeReceived, StopAndDrain
  <1>5. CASE TakeExecuted
    BY <1>5 DEF TakeExecuted, Exit, loopVars
  <1>6. CASE Loop_Lock
    BY <1>6 DEF Loop_Lock, LoopInv
  <1>7. CASE Loop_Write
    BY <1>7 DEF Loop_Write
  <1>8. CASE Loop_Unlock
    BY <1>8 DEF Loop_Unlock, StopAndDrain, Exit, loopVars
  <1>9. CASE Fire \/ UNCHANGED vars
    BY <1>9 DEF Fire, vars, loopVars
  <1> QED BY <1>1, <1>2, <1>3, <1>4, <1>5, <1>6, <1>7, <1>8, <1>9 DEF Next, Loop

\* What changeState wrote is only ever undone by a write the loop had decided before.
THEOREM ChangeStaysCorrect == Spec => ChangeStays
  <1>1. ChangeSeen => state = "CHANGING_VIEW"
    BY DEF ChangeSeen
  <1>2. ChangeStays <=> [](ChangeSeen => [](state = "CHANGING_VIEW"))
    BY PTL DEF ChangeStays, ChangeSeen
  <1> QED BY <1>1, <1>2, TypeInit, TypeStep, LoopInit, LoopStep, SeenStep, PTL DEF Spec

-----------------------------------------------------------------------------
(* The mutex around state: who is between Lock and Unlock, and how often    *)
(* that has been undone by a changeState.                                   *)

InsidePlaces == {"locked", "changing", "unchanged"}
BegunPlaces == {"unlocked", "written", "done"}
Count(S, places, f) == Cardinality({c \in S : f[c] \in places})
One(x, places) == IF x \in places THEN 1 ELSE 0

\* One call that moves changes a count by whether it enters and whether it leaves.
Moved(S, places, f, g, c) ==
  /\ Count(S, places, f) \in Nat /\ Count(S, places, g) \in Nat
  /\ Count(S, places, g) =
       Count(S, places, f) + One(g[c], places) - One(f[c], places)

LEMMA CountMove ==
  ASSUME NEW S, IsFiniteSet(S), NEW places, NEW f, NEW g, NEW c \in S,
         \A x \in S \ {c} : g[x] = f[x]
  PROVE  Moved(S, places, f, g, c)
  <1> DEFINE O == {x \in S \ {c} : f[x] \in places}
  <1>1. IsFiniteSet(O) /\ c \notin O
    BY FS_Subset
  <1>2. /\ Cardinality(O) \in Nat
        /\ Cardinality(O \cup {c}) = Cardinality(O) + 1
    BY <1>1, FS_AddElement, FS_CardinalityType
  <1>3. ASSUME NEW h, \A x \in S \ {c} : h[x] = f[x]
        PROVE  Count(S, places, h) = Cardinality(O) + One(h[c], places)
    <2>1. CASE h[c] \in places
      <3>1. {x \in S : h[x] \in places} = O \cup {c}
        BY <1>3, <2>1
      <3> HIDE DEF O
      <3> QED BY <1>2, <2>1, <3>1 DEF Count, One
    <2>2. CASE h[c] \notin places
      <3>1. {x \in S : h[x] \in places} = O
        BY <1>3, <2>2
      <3> HIDE DEF O
      <3> QED BY <1>2, <2>2, <3>1 DEF Count, One
    <2> QED BY <2>1, <2>2
  <1>4. One(f[c], places) \in {0, 1} /\ One(g[c], places) \in {0, 1}
    BY DEF One
  <1> HIDE DEF O
  <1>5. /\ Count(S, places, f) = Cardinality(O) + One(f[c], places)
        /\ Count(S, places, g) = Cardinality(O) + One(g[c], places)
    BY <1>3
  <1> QED BY <1>2, <1>4, <1>5 DEF Moved

\* The numbers that LockDebt relates, and the sum.
nInside == Count(Reader, InsidePlaces, pc)
nBegun == Count(ViewChanges, BegunPlaces, pc)
nDone == Count(ViewChanges, {"done"}, pc)
lockHeld == IF serverStateLock THEN 1 ELSE 0
Debt == nInside + LoopInside = lockHeld + nBegun + nDone

LEMMA DebtMeans ==
  /\ TypeOK => (LockDebt <=> (running => Debt))
  /\ TypeOK' => (LockDebt' <=> (running' => Debt'))
  <1>1. ASSUME NEW f
        PROVE  {c \in ViewChanges : f[c] \in {"done"}} =
                 {c \in ViewChanges : f[c] = "done"}
    OBVIOUS
  <1>2. TypeOK => (LockDebt <=> (running => Debt))
    BY <1>1 DEF LockDebt, Debt, nInside, nBegun, nDone, lockHeld, Count, Inside,
                InsidePlaces, BegunPlaces, TypeOK
  <1>3. TypeOK' => (LockDebt' <=> (running' => Debt'))
    BY <1>1 DEF LockDebt, Debt, nInside, nBegun, nDone, lockHeld, Count, Inside,
                InsidePlaces, BegunPlaces, TypeOK
  <1> QED BY <1>2, <1>3

LEMMA ReaderCounts ==
  ASSUME TypeOK, NEW c \in Reader, NEW place, Goto(c, place)
  PROVE  /\ nInside \in Nat /\ nInside' \in Nat
         /\ nInside' = nInside + One(place, InsidePlaces) - One(pc[c], InsidePlaces)
         /\ nBegun' = nBegun /\ nDone' = nDone
  <1>1. /\ IsFiniteSet(Reader) /\ DOMAIN pc = Call /\ Reader \subseteq Call
        /\ ViewChanges \subseteq Call /\ pc' = [pc EXCEPT ![c] = place]
        /\ c \notin ViewChanges /\ Reader \subseteq DOMAIN pc
    BY CallAssumption, FS_Subset DEF Call, TypeOK, Goto
  <1>2. pc'[c] = place /\ \A x \in Reader \ {c} : pc'[x] = pc[x]
    BY <1>1
  <1>3. Moved(Reader, InsidePlaces, pc, pc', c)
    BY <1>1, <1>2, CountMove
  <1>4. \A x \in ViewChanges : pc'[x] = pc[x]
    BY <1>1
  <1>5. /\ {x \in ViewChanges : pc'[x] \in BegunPlaces} =
             {x \in ViewChanges : pc[x] \in BegunPlaces}
        /\ {x \in ViewChanges : pc'[x] \in {"done"}} =
             {x \in ViewChanges : pc[x] \in {"done"}}
    BY <1>4
  <1> QED BY <1>2, <1>3, <1>5 DEF Moved, nInside, nBegun, nDone, Count

LEMMA ViewChangeCounts ==
  ASSUME TypeOK, NEW c \in ViewChanges, NEW place, Goto(c, place)
  PROVE  /\ nBegun \in Nat /\ nBegun' \in Nat /\ nDone \in Nat /\ nDone' \in Nat
         /\ nBegun' = nBegun + One(place, BegunPlaces) - One(pc[c], BegunPlaces)
         /\ nDone' = nDone + One(place, {"done"}) - One(pc[c], {"done"})
         /\ nInside' = nInside
  <1>1. /\ IsFiniteSet(ViewChanges) /\ DOMAIN pc = Call /\ ViewChanges \subseteq Call
        /\ Reader \subseteq Call /\ pc' = [pc EXCEPT ![c] = place] /\ c \notin Reader
        /\ ViewChanges \subseteq DOMAIN pc
    BY CallAssumption, FS_Subset DEF Call, TypeOK, Goto
  <1>2. pc'[c] = place /\ \A x \in ViewChanges \ {c} : pc'[x] = pc[x]
    BY <1>1
  <1>3. /\ Moved(ViewChanges, BegunPlaces, pc, pc', c)
        /\ Moved(ViewChanges, {"done"}, pc, pc', c)
    BY <1>1, <1>2, CountMove
  <1>4. {x \in Reader : pc'[x] \in InsidePlaces} = {x \in Reader : pc[x] \in InsidePlaces}
    BY <1>1
  <1> QED BY <1>2, <1>3, <1>4 DEF Moved, nInside, nBegun, nDone, Count

LEMMA CountTypes ==
  /\ LoopInside \in Nat /\ LoopInside' \in Nat
  /\ nInside \in Nat /\ nBegun \in Nat /\ nDone \in Nat
  /\ nInside' \in Nat /\ nBegun' \in Nat /\ nDone' \in Nat
  <1>1. IsFiniteSet(Reader) /\ IsFiniteSet(ViewChanges)
    BY CallAssumption, FS_Subset DEF Call
  <1>2. ASSUME NEW S, IsFiniteSet(S), NEW places, NEW f
        PROVE  Count(S, places, f) \in Nat
    <2>1. IsFiniteSet({x \in S : f[x] \in places})
      BY <1>2, FS_Subset
    <2> QED BY <2>1, FS_CardinalityType DEF Count
  <1>3. LoopInside \in Nat /\ LoopInside' \in Nat
    BY DEF LoopInside
  <1> QED BY <1>1, <1>2, <1>3 DEF nInside, nBegun, nDone

LEMMA DebtInit == Init => LockDebt
  <1> SUFFICES ASSUME Init
               PROVE  LockDebt
    OBVIOUS
  <1>1. Inside = {} /\ LoopInside = 0 /\ ~serverStateLock
    BY DEF Init, Inside, LoopInside, Call
  <1>2. /\ {c \in ViewChanges : pc[c] \in {"unlocked", "written", "done"}} = {}
        /\ {c \in ViewChanges : pc[c] = "done"} = {}
    BY DEF Init, Call
  <1> QED BY <1>1, <1>2, FS_EmptySet DEF LockDebt

\* isChangingView adds one that is inside and takes it away again, with the lock.
LEMMA ReaderDebt ==
  ASSUME TypeOK, TypeOK', Debt, running', NEW c \in Reader, Handler(c)
  PROVE  Debt'
  <1> USE DEF InsidePlaces, One
  <1>1. CASE isChangingView_Lock(c)
    <2>1. Goto(c, "locked") /\ pc[c] = "start" /\ ~serverStateLock /\ serverStateLock'
          /\ LoopInside' = LoopInside
      BY <1>1 DEF isChangingView_Lock, loopVars, LoopInside
    <2>2. nInside' = nInside + 1 /\ nBegun' = nBegun /\ nDone' = nDone
      BY <2>1, ReaderCounts
    <2>3. lockHeld = 0 /\ lockHeld' = 1
      BY <2>1 DEF lockHeld
    <2> QED BY <2>1, <2>2, <2>3, CountTypes DEF Debt
  <1>2. CASE isChangingView_Unlock(c)
    <2>1. /\ serverStateLock /\ ~serverStateLock' /\ LoopInside' = LoopInside
          /\ pc[c] \in {"changing", "unchanged"}
          /\ Goto(c, "done") \/ Goto(c, "push")
      BY <1>2 DEF isChangingView_Unlock, Unlock, Exit, loopVars, LoopInside
    <2>2. nInside' = nInside - 1 /\ nBegun' = nBegun /\ nDone' = nDone
      BY <2>1, ReaderCounts, CountTypes
    <2>3. lockHeld = 1 /\ lockHeld' = 0
      BY <2>1 DEF lockHeld
    <2> QED BY <2>1, <2>2, <2>3, CountTypes DEF Debt
  <1>3. CASE \/ isChangingView_Read(c) \/ PushReceived(c) \/ Handle(c)
             \/ PushAccepted(c)
    <2>1. /\ UNCHANGED serverStateLock /\ LoopInside' = LoopInside
          /\ \E place \in {"changing", "unchanged", "waiting", "accepted", "done"} :
               /\ Goto(c, place)
               /\ place \in InsidePlaces <=> pc[c] \in InsidePlaces
      BY <1>3 DEF isChangingView_Read, PushReceived, Handle, PushAccepted, loopVars,
                  LoopInside
    <2>2. nInside' = nInside /\ nBegun' = nBegun /\ nDone' = nDone
      BY <2>1, ReaderCounts, CountTypes
    <2>3. lockHeld' = lockHeld
      BY <2>1 DEF lockHeld
    <2> QED BY <2>1, <2>2, <2>3, CountTypes DEF Debt
  <1> QED BY <1>1, <1>2, <1>3 DEF Handler

\* Each Unlock of changeState takes the lock away from somebody who is inside.
LEMMA ChangeDebt ==
  ASSUME TypeOK, TypeOK', Debt, running', NEW c \in ViewChanges, changeState(c)
  PROVE  Debt'
  <1> USE DEF BegunPlaces, One
  <1>1. CASE changeState_Unlock(c)
    <2>1. /\ serverStateLock /\ ~serverStateLock' /\ LoopInside' = LoopInside
          /\ \/ pc[c] = "start" /\ Goto(c, "unlocked")
             \/ pc[c] = "written" /\ Goto(c, "done")
      BY <1>1 DEF changeState_Unlock, FirstUnlock, Unlock, Exit, loopVars, LoopInside
    <2>2. nInside' = nInside
      BY <2>1, ViewChangeCounts
    <2>3. \/ nBegun' = nBegun + 1 /\ nDone' = nDone
          \/ nBegun' = nBegun /\ nDone' = nDone + 1
      <3>1. CASE pc[c] = "start" /\ Goto(c, "unlocked")
        BY <3>1, ViewChangeCounts, CountTypes
      <3>2. CASE pc[c] = "written" /\ Goto(c, "done")
        BY <3>2, ViewChangeCounts, CountTypes
      <3> QED BY <2>1, <3>1, <3>2
    <2>4. lockHeld = 1 /\ lockHeld' = 0
      BY <2>1 DEF lockHeld
    <2>5. CASE nBegun' = nBegun + 1 /\ nDone' = nDone
      BY <2>1, <2>2, <2>4, <2>5, CountTypes DEF Debt
    <2>6. CASE nBegun' = nBegun /\ nDone' = nDone + 1
      BY <2>1, <2>2, <2>4, <2>6, CountTypes DEF Debt
    <2> QED BY <2>3, <2>5, <2>6
  <1>2. CASE changeState_Write(c)
    <2>1. /\ UNCHANGED serverStateLock /\ LoopInside' = LoopInside
          /\ pc[c] = "unlocked" /\ Goto(c, "written")
      BY <1>2 DEF changeState_Write, loopVars, LoopInside
    <2>2. nInside' = nInside /\ nBegun' = nBegun /\ nDone' = nDone
      BY <2>1, ViewChangeCounts, CountTypes
    <2>3. lockHeld' = lockHeld
      BY <2>1 DEF lockHeld
    <2> QED BY <2>1, <2>2, <2>3, CountTypes DEF Debt
  <1> QED BY <1>1, <1>2 DEF changeState

\* The loop locks and unlocks around its own write.
LEMMA LoopDebt ==
  ASSUME TypeOK, TypeOK', Debt, running', Loop \/ Fire
  PROVE  Debt'
  <1>1. UNCHANGED pc
    BY DEF Loop, Fire, TimeOut, TakeNewValid, TakeReceived, TakeExecuted, Loop_Lock,
           Loop_Write, Loop_Unlock, Exit
  <1>2. nInside' = nInside /\ nBegun' = nBegun /\ nDone' = nDone
    BY <1>1 DEF nInside, nBegun, nDone
  <1>3. CASE Loop_Lock
    <2>1. CASE at = "lock"
      <3>1. LoopInside = 0 /\ LoopInside' = 1 /\ lockHeld = 0 /\ lockHeld' = 1
        BY <1>3, <2>1 DEF Loop_Lock, LoopInside, lockHeld
      <3> QED BY <1>2, <3>1, CountTypes DEF Debt
    <2>2. CASE at # "lock"
      <3>1. LoopInside = 0 /\ LoopInside' = 0 /\ UNCHANGED serverStateLock
        BY <1>3, <2>2 DEF Loop_Lock, LoopInside
      <3>2. lockHeld' = lockHeld
        BY <3>1 DEF lockHeld
      <3> QED BY <1>2, <3>1, <3>2, CountTypes DEF Debt
    <2> QED BY <2>1, <2>2
  <1>4. CASE Loop_Unlock
    <2>1. LoopInside = 1 /\ LoopInside' = 0 /\ lockHeld = 1 /\ lockHeld' = 0
      BY <1>4 DEF Loop_Unlock, Unlock, Exit, StopAndDrain, LoopInside, lockHeld
    <2> QED BY <1>2, <2>1, CountTypes DEF Debt
  <1>5. CASE Loop_Write \/ Fire \/ TimeOut \/ TakeNewValid \/ TakeReceived \/ TakeExecuted
    <2>1. UNCHANGED serverStateLock
      BY <1>5 DEF Loop_Write, Fire, TimeOut, TakeNewValid, TakeReceived, TakeExecuted,
                  Exit
    <2>2. CASE Loop_Write
      BY <1>2, <2>1, <2>2 DEF Loop_Write, LoopInside, lockHeld, Debt
    <2>3. CASE Fire
      BY <1>2, <2>1, <2>3 DEF Fire, LoopInside, lockHeld, Debt
    <2>4. CASE TimeOut \/ TakeNewValid \/ TakeReceived \/ TakeExecuted
      <3>1. at = "select"
        BY <2>4 DEF TimeOut, TakeNewValid, TakeReceived, TakeExecuted, Receives
      <3>2. ASSUME TakeExecuted
            PROVE  at' \in {"select", "blocked", "lock"}
        BY <3>1, <3>2 DEF TakeExecuted, Exit, loopVars, AfterExecuted, StopAndDrain
      <3>3. ASSUME TimeOut \/ TakeNewValid \/ TakeReceived
            PROVE  at' \in {"select", "blocked", "lock"}
        BY <3>1, <3>3 DEF TimeOut, TakeNewValid, TakeReceived, StopAndDrain
      <3>4. at' \in {"select", "blocked", "lock"}
        BY <2>4, <3>2, <3>3
      <3> QED BY <1>2, <2>1, <3>1, <3>4 DEF LoopInside, lockHeld, Debt
    <2> QED BY <1>5, <2>2, <2>3, <2>4
  <1> QED BY <1>3, <1>4, <1>5 DEF Loop

LEMMA DebtStep == TypeOK /\ LockDebt /\ [Next]_vars => LockDebt'
  <1> SUFFICES ASSUME TypeOK, LockDebt, Next, running'
               PROVE  LockDebt'
    <2>1. CASE UNCHANGED vars
      BY <2>1 DEF vars, loopVars, LockDebt, Inside, LoopInside
    <2> QED BY <2>1 DEF LockDebt
  <1>1. TypeOK'
    BY TypeStep
  <1>2. running
    BY DEF Next, Handler, isChangingView_Lock, isChangingView_Read,
           isChangingView_Unlock, PushReceived, Handle, PushAccepted, changeState,
           changeState_Unlock, changeState_Write, Loop, TimeOut, TakeNewValid,
           TakeReceived, TakeExecuted, Receives, Loop_Lock, Loop_Write, Loop_Unlock,
           Fire
  <1>3. Debt
    BY <1>2, DebtMeans
  <1>4. Debt'
    BY <1>1, <1>3, ReaderDebt, ChangeDebt, LoopDebt DEF Next
  <1> QED BY <1>1, <1>4, DebtMeans

\* While a server runs, each changeState that has begun is still owed the Unlock of
\* somebody who is inside: the next Unlock but one is the fatal error of the runtime.
THEOREM LockDebtCorrect == Spec => []LockDebt
  BY TypeInit, TypeStep, DebtInit, DebtStep, PTL DEF Spec

-----------------------------------------------------------------------------
(* serverLock: who holds it, and what the push under it waits for.          *)

\* Handle takes the lock only when it is free and lets go of it or goes on to push; a
\* call gets there by a push that found room in a channel.
LockInv ==
  /\ serverLock <=> \E c \in Reader : pc[c] = "accepted"
  /\ \A c, d \in Reader : pc[c] = "accepted" /\ pc[d] = "accepted" => c = d
  /\ \A c \in Reader : pc[c] \in {"waiting", "accepted"} => ChanCap > 0

LEMMA LockInit == Init => LockInv
  BY DEF Init, LockInv, Call

\* A step that leaves the lock alone and brings nobody under it.
LEMMA LockFrame ==
  ASSUME LockInv, UNCHANGED serverLock,
         \A c \in Reader :
           \/ pc'[c] = pc[c]
           \/ /\ pc[c] # "accepted" /\ pc'[c] # "accepted"
              /\ pc'[c] = "waiting" => ChanCap > 0
  PROVE  LockInv'
  <1>1. \A c \in Reader : pc'[c] = "accepted" <=> pc[c] = "accepted"
    OBVIOUS
  <1>2. \A c \in Reader : pc'[c] \in {"waiting", "accepted"} => ChanCap > 0
    BY DEF LockInv
  <1> QED BY <1>1, <1>2 DEF LockInv

\* Where a call is after a Goto, and the others.
LEMMA GotoMoves ==
  ASSUME TypeOK, NEW c \in Reader, NEW place, Goto(c, place)
  PROVE  pc'[c] = place /\ \A d \in Reader \ {c} : pc'[d] = pc[d]
  <1>1. DOMAIN pc = Call /\ Reader \subseteq Call
    BY DEF TypeOK, Call
  <1> QED BY <1>1 DEF Goto

LEMMA ReaderLock ==
  ASSUME TypeOK, LockInv, NEW c \in Reader, Handler(c)
  PROVE  LockInv'
  <1>1. CASE isChangingView_Lock(c) \/ isChangingView_Read(c) \/ isChangingView_Unlock(c)
    <2>1. UNCHANGED pc \/ \E place \in {"locked", "changing", "unchanged", "push", "done"} :
                            Goto(c, place)
      BY <1>1 DEF isChangingView_Lock, isChangingView_Read, isChangingView_Unlock, Exit
    <2>2. UNCHANGED serverLock /\ pc[c] # "accepted"
      BY <1>1 DEF isChangingView_Lock, isChangingView_Read, isChangingView_Unlock, Exit
    <2> QED BY <2>1, <2>2, GotoMoves, LockFrame
  <1>2. CASE PushReceived(c)
    <2>1. Goto(c, "waiting") /\ pc[c] = "push" /\ UNCHANGED serverLock
      BY <1>2 DEF PushReceived
    <2>2. ChanCap > 0
      BY <1>2, ChannelAssumption DEF PushReceived, TypeOK
    <2> QED BY <2>1, <2>2, GotoMoves, LockFrame
  <1>3. CASE Handle(c)
    <2>1. pc[c] = "waiting" /\ ~serverLock /\ ChanCap > 0
      BY <1>3 DEF Handle, LockInv
    <2>2. CASE Goto(c, "accepted") /\ serverLock'
      <3>1. \A d \in Reader : pc'[d] = "accepted" <=> d = c
        BY <2>1, <2>2, GotoMoves DEF LockInv
      <3>2. \A d \in Reader : pc'[d] \in {"waiting", "accepted"} => ChanCap > 0
        BY <2>1
      <3> QED BY <2>2, <3>1, <3>2 DEF LockInv
    <2>3. CASE Goto(c, "done") /\ UNCHANGED serverLock
      BY <2>1, <2>3, GotoMoves, LockFrame
    <2> QED BY <1>3, <2>2, <2>3 DEF Handle
  <1>4. CASE PushAccepted(c)
    <2>1. pc[c] = "accepted" /\ Goto(c, "done") /\ ~serverLock'
      BY <1>4 DEF PushAccepted
    <2>2. \A d \in Reader : pc'[d] # "accepted" /\ (pc'[d] = "waiting" => ChanCap > 0)
      BY <2>1, GotoMoves DEF LockInv
    <2> QED BY <2>1, <2>2 DEF LockInv
  <1> QED BY <1>1, <1>2, <1>3, <1>4 DEF Handler

LEMMA LockStep == TypeOK /\ LockInv /\ [Next]_vars => LockInv'
  <1> SUFFICES ASSUME TypeOK, LockInv, [Next]_vars
               PROVE  LockInv'
    OBVIOUS
  <1>1. CASE \E c \in Reader : Handler(c)
    BY <1>1, ReaderLock
  <1>2. CASE \E v \in ViewChanges : changeState(v)
    <2>1. PICK v \in ViewChanges : changeState(v)
      BY <1>2
    <2>2. UNCHANGED serverLock /\ (UNCHANGED pc \/ \E place : Goto(v, place))
      BY <2>1 DEF changeState, changeState_Unlock, changeState_Write, Exit
    <2>3. \A c \in Reader : pc'[c] = pc[c]
      BY <2>2, CallAssumption DEF Goto, TypeOK, Call
    <2> QED BY <2>2, <2>3, LockFrame
  <1>3. CASE Loop \/ Fire \/ UNCHANGED vars
    <2>1. UNCHANGED <<serverLock, pc>>
      BY <1>3 DEF Loop, Fire, TimeOut, TakeNewValid, TakeReceived, TakeExecuted,
                  Loop_Lock, Loop_Write, Loop_Unlock, Exit, vars
    <2> QED BY <2>1, LockFrame
  <1> QED BY <1>1, <1>2, <1>3 DEF Next

\* A mutex of a running server that is locked while the loop waits for it is locked by
\* somebody inside: the one who locked it, or one whose Lock a changeState undid.
LEMMA LockedByInside ==
  ASSUME TypeOK, LockDebt, running, at = "lock", serverStateLock
  PROVE  Inside # {}
  <1>1. Debt
    BY DebtMeans
  <1>2. LoopInside = 0 /\ lockHeld = 1
    BY DEF LoopInside, lockHeld
  <1>3. nInside > 0
    BY <1>1, <1>2, CountTypes DEF Debt
  <1>4. nInside = Cardinality(Inside)
    BY DEF nInside, Count, Inside, InsidePlaces
  <1>5. Cardinality({}) = 0
    BY FS_EmptySet
  <1> QED BY <1>3, <1>4, <1>5

LEMMA NoCircle ==
  ASSUME TypeOK, LoopInv, LockDebt, LockInv
  PROVE  NoCircularWait
  <1> SUFFICES ASSUME running, NEW c \in Reader, pc[c] = "accepted"
               PROVE  \/ c \in PrePrepares /\ CanPush(newValidCommad)
                      \/ c \in Commits /\ CanPush(commandExecuted)
                      \/ at \in {"blocked", "write", "unlock"}
                      \/ at = "lock" /\ (serverStateLock => Inside # {})
    BY DEF NoCircularWait, LockInv
  <1>1. CASE at = "select"
    <2>1. ChanCap \in Nat /\ ChanCap > 0
      BY ChannelAssumption DEF LockInv
    <2>2. CanPush(newValidCommad) /\ CanPush(commandExecuted)
      BY <1>1, <2>1 DEF CanPush, Receives, TypeOK
    <2> QED BY <2>2 DEF Reader
  <1>2. CASE at = "lock"
    BY <1>2, LockedByInside
  <1> QED BY <1>1, <1>2 DEF TypeOK, LoopInv

\* The push under serverLock and the loop never wait for each other: serverLock has one
\* holder, and whatever the loop waits for then, except its timer, is given to it
\* without serverLock.
THEOREM NoCircleCorrect == Spec => []NoCircularWait
  BY TypeInit, TypeStep, LoopInit, LoopStep, DebtInit, DebtStep, LockInit, LockStep,
     NoCircle, PTL DEF Spec
=============================================================================
