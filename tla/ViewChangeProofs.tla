-------------------------- MODULE ViewChangeProofs --------------------------
(***************************************************************************)
(* Theorems about the view change, with their proofs.                      *)
(***************************************************************************)
EXTENDS ViewChange, QuorumProofs

-----------------------------------------------------------------------------
(* No server leaves view 0.                                                 *)

\* Every VIEW_CHANGE is for view 1, whose leader, 1, is nobody's view number.
Still ==
  /\ ViewNeverMoves
  /\ DOMAIN leaving = Server
  /\ \A s \in Server : \A args \in leaving[s] : args.arg.NextView = 1
  /\ \A m \in vcMsgs : m.args.arg.NextView = 1

LEMMA AllRefused ==
  ASSUME N > 1, Still, NEW s \in Server, NEW m \in vcMsgs, TakeViewChange(s, m.args)
  PROVE  UNCHANGED <<vars, viewChanges, newViews>>
  <1>1. m.args.arg.NextView = 1 /\ view[s] = 0
    BY DEF Still, ViewNeverMoves, OneView
  <1>2. leader(1) = 1
    BY ServersAssumption DEF leader
  <1>3. Refused(s, m.args.arg.NextView)
    BY <1>1, <1>2 DEF Refused
  <1> QED BY <1>3 DEF TakeViewChange

LEMMA NormalView ==
  ASSUME NEW s \in Server, NormalStep(s)
  PROVE  view' = view
  <1>1. ASSUME \/ \E c \in Command : Start(s, c)
               \/ Goroutine(s) \/ Crash(s) \/ HandleCommitRPC_Save(s)
        PROVE  view' = view
    BY <1>1 DEF Start, StartBody, Goroutine, sendRPCs, replyToClient, Crash, Exit,
                HandleCommitRPC_Save, logVars
  <1>2. ASSUME NEW m \in msgs,
               \/ ReceiveForwardedCommand(s, m) \/ EnterHandler(s, m)
               \/ HandlePrePrepareRPC(s, m) \/ HandlePrepareRPC(s, m)
               \/ HandleCommitRPC(s, m) \/ Return(s, m)
        PROVE  view' = view
    BY <1>2 DEF ReceiveForwardedCommand, StartBody, EnterHandler, HandlePrePrepareRPC,
                HandlePrepareRPC, HandleCommitRPC, Return, logVars
  <1>3. ASSUME \/ \E m \in msgs :
                    HandleCommitRPC_Fatal(s, m) \/ HandleCheckPointRPC_Check(s, m)
               \/ \E a \in checking[s] : HandleCheckPointRPC_Record(s, a)
        PROVE  view' = view
    BY <1>3 DEF HandleCommitRPC_Fatal, HandleCheckPointRPC_Check,
                HandleCheckPointRPC_Record, Exit, logVars
  <1> QED BY <1>1, <1>2, <1>3 DEF NormalStep, GatedHandler

\* A VIEW_CHANGE that is leaving or on its way was so before, or is new.
LEMMA ViewChangesSent ==
  ASSUME N > 1, Still, [VCNext]_allVars
  PROVE  /\ UNCHANGED <<view, viewChanges, newViews>>
         /\ DOMAIN leaving' = Server
         /\ \A t \in Server : \A args \in leaving'[t] :
              args \in leaving[t] \/ args = makeViewChangeArguments(t)
         /\ \A m \in vcMsgs' :
              \/ m \in vcMsgs
              \/ m.to \in Server /\ \E t \in Server : m.args \in leaving[t]
  <1> DEFINE Sent ==
        /\ DOMAIN leaving' = Server
        /\ \A t \in Server : \A args \in leaving'[t] :
             args \in leaving[t] \/ args = makeViewChangeArguments(t)
        /\ \A m \in vcMsgs' :
             \/ m \in vcMsgs
             \/ m.to \in Server /\ \E t \in Server : m.args \in leaving[t]
  <1>1. DOMAIN leaving = Server
    BY DEF Still
  <1> DEFINE Kept == UNCHANGED <<view, viewChanges, newViews>>
  <1>2. ASSUME Cleanly
        PROVE  Sent /\ UNCHANGED <<viewChanges, newViews>>
    BY <1>2 DEF Cleanly
  <1>3. ASSUME NEW s \in Server, Exit(s)
        PROVE  view' = view
    BY <1>3 DEF Exit, logVars
  <1>4. ASSUME NEW s \in Server, NormalStep(s), Cleanly
        PROVE  Kept /\ Sent
    BY <1>2, <1>4, NormalView
  <1>5. ASSUME NEW s \in Server, startViewChange(s)
        PROVE  Kept /\ Sent
    BY <1>1, <1>5 DEF startViewChange, vars, logVars
  <1>6. ASSUME NEW s \in Server, NEW args \in leaving[s], sendViewChange(s, args)
        PROVE  Kept /\ Sent
    <2>1. leader(view[s] + 1) \in Server
      <3>1. view[s] + 1 \in Nat
        BY DEF Still, ViewNeverMoves, OneView
      <3> QED BY <3>1, LeaderIsServer
    <2> QED BY <1>1, <1>2, <1>3, <1>6, <2>1 DEF sendViewChange, vars, logVars
  <1>7. ASSUME NEW s \in Server, NEW m \in vcMsgs, HandleViewChangeRPC(s, m)
        PROVE  Kept /\ Sent
    <2>1. CASE Exit(s) /\ Cleanly
      BY <1>2, <1>3, <2>1
    <2>2. CASE /\ TakeViewChange(s, m.args)
               /\ leaving' = [t \in Server |-> IF running'[t] THEN leaving[t] ELSE {}]
               /\ vcMsgs' = {q \in vcMsgs \ {m} : running'[q.to]}
      <3>1. Kept
        BY <2>2, AllRefused DEF vars, logVars
      <3>2. Sent
        BY <2>2
      <3> QED BY <3>1, <3>2
    <2> QED BY <1>7, <2>1, <2>2 DEF HandleViewChangeRPC
  <1>8. ASSUME NEW s \in Server, UnlockUnlocked(s)
        PROVE  Kept /\ Sent
    BY <1>2, <1>3, <1>8 DEF UnlockUnlocked
  <1>9. CASE UNCHANGED allVars
    BY <1>1, <1>9 DEF allVars, vars, logVars, vcVars, callVars
  <1> HIDE DEF Kept, Sent
  <1>10. ASSUME VCNext
         PROVE  Kept /\ Sent
    <2>1. PICK s \in Server :
            \/ NormalStep(s) /\ Cleanly
            \/ startViewChange(s)
            \/ \E args \in leaving[s] : sendViewChange(s, args)
            \/ \E m \in vcMsgs : HandleViewChangeRPC(s, m)
            \/ UnlockUnlocked(s)
      BY <1>10 DEF VCNext
    <2> QED BY <1>4, <1>5, <1>6, <1>7, <1>8, <2>1
  <1> QED BY <1>9, <1>10 DEF Kept, Sent

LEMMA StillStep == N > 1 /\ Still /\ [VCNext]_allVars => Still'
  <1> SUFFICES ASSUME N > 1, Still, [VCNext]_allVars
               PROVE  Still'
    OBVIOUS
  <1>1. \A s \in Server : makeViewChangeArguments(s).arg.NextView = 1
    BY DEF Still, ViewNeverMoves, OneView, makeViewChangeArguments, makeArguments, NextView
  <1> QED BY <1>1, ViewChangesSent DEF Still, ViewNeverMoves, OneView

\* However many servers call startViewChange, none ever accepts a VIEW_CHANGE, makes a
\* NEW_VIEW or leaves view 0, for any number of servers above one, of commands and of
\* crashes: NEW_VIEW and its handler are never reached.
THEOREM ViewNeverMovesCorrect ==
  ASSUME N > 1
  PROVE  VCSpec => []ViewNeverMoves
  <1>1. Init /\ VCInit => Still
    BY DEF Init, VCInit, Still, ViewNeverMoves, OneView
  <1>2. Still /\ [VCNext]_allVars => Still'
    BY StillStep
  <1>3. Still => ViewNeverMoves
    BY DEF Still
  <1> QED BY <1>1, <1>2, <1>3, PTL DEF VCSpec

-----------------------------------------------------------------------------
(* What the servers of PBFT do meanwhile.                                   *)

\* A process ends, or a handler returns before it does anything: requests, goroutines
\* and waiting handlers go, all of a server's that wait if any, and the rest stays.
Quiet ==
  /\ UNCHANGED <<disk, envVars, replies, logVars, lastCheckPointSeqNumber, checkPoints,
                 chanVars>>
  /\ msgs' \subseteq msgs
  /\ \A s \in Server :
       /\ outbox'[s] \subseteq outbox[s] /\ checking'[s] \subseteq checking[s]
       /\ Waiters(s)' = Waiters(s) \/ Waiters(s)' = {}

LEMMA ExitQuiet ==
  ASSUME TypeOK, NEW s \in Server, Exit(s), UNCHANGED envVars
  PROVE  TypeOK' /\ Quiet
  <1>1. WaitType'
    BY DEF Exit, TypeOK, WaitType
  <1>2. TypeOK'
    BY <1>1, ExitType
  <1>3. \A t \in Server :
          outbox'[t] \subseteq outbox[t] /\ checking'[t] \subseteq checking[t]
    BY DEF Exit, TypeOK, NetType, CkptType
  <1>4. \A t \in Server : Waiters(t)' = Waiters(t) \/ Waiters(t)' = {}
    BY DEF Exit, Waiters
  <1> QED BY <1>2, <1>3, <1>4 DEF Exit, Quiet

LEMMA ReturnQuiet ==
  ASSUME TypeOK, NEW s \in Server, NEW m \in msgs, Return(s, m)
  PROVE  TypeOK' /\ Quiet
  <1>1. /\ msgs' \subseteq msgs
        /\ waiting' = waiting /\ waiting' \subseteq msgs'
        /\ UNCHANGED <<running, disk, envVars, outbox, replies, logVars, ckptVars,
                       chanVars>>
    BY DEF Return, Gated, TypeOK, WaitType
  <1>2. TypeOK'
    BY <1>1 DEF TypeOK, EnvType, NetType, WaitType, LogType, CkptType, ChanType, envVars,
                logVars, ckptVars, chanVars
  <1> QED BY <1>1, <1>2 DEF Quiet, ckptVars, Waiters

\* A step is quiet or one of the normal case other than Make.
LEMMA StepsBelow ==
  ASSUME N > 1, Still, TypeOK, [VCNext]_allVars
  PROVE  TypeOK' /\ ([Next]_vars \/ Quiet) /\ UNCHANGED <<makes, remade>>
  <1> DEFINE Goal == TypeOK' /\ ([Next]_vars \/ Quiet) /\ UNCHANGED <<makes, remade>>
  <1>1. ASSUME UNCHANGED vars
        PROVE  Goal
    BY <1>1, TypeStep DEF vars, envVars
  <1>2. ASSUME NEW s \in Server, Exit(s), UNCHANGED envVars
        PROVE  Goal
    BY <1>2, ExitQuiet DEF envVars
  <1>3. ASSUME NEW s \in Server, NEW m \in msgs, Return(s, m)
        PROVE  Goal
    <2>1. UNCHANGED <<makes, remade>>
      BY <1>3 DEF Return, envVars
    <2> QED BY <1>3, <2>1, ReturnQuiet
  <1>4. ASSUME NEW s \in Server, NormalStep(s)
        PROVE  Goal
    <2>1. CASE \E m \in msgs : Return(s, m)
      BY <1>3, <2>1
    <2>2. CASE \/ (\E c \in Command : s \in Contacted /\ Start(s, c)) \/ Goroutine(s)
               \/ Handler(s) \/ Crash(s)
      <3>1. Next /\ UNCHANGED <<makes, remade>>
        BY <2>2, OnlyMakeCounts DEF Next
      <3> QED BY <3>1, TypeStep
    <2> QED BY <1>4, <2>1, <2>2 DEF NormalStep, Handler
  <1>5. ASSUME NEW s \in Server,
               \/ startViewChange(s)
               \/ \E args \in leaving[s] : sendViewChange(s, args)
               \/ UnlockUnlocked(s)
        PROVE  Goal
    BY <1>1, <1>2, <1>5 DEF startViewChange, sendViewChange, UnlockUnlocked
  <1>6. ASSUME NEW s \in Server, NEW m \in vcMsgs, HandleViewChangeRPC(s, m)
        PROVE  Goal
    BY <1>1, <1>2, <1>6, AllRefused DEF HandleViewChangeRPC
  <1>7. CASE UNCHANGED allVars
    BY <1>1, <1>7 DEF allVars
  <1> HIDE DEF Goal
  <1>8. ASSUME VCNext
        PROVE  Goal
    <2>1. PICK s \in Server :
            \/ NormalStep(s) /\ Cleanly
            \/ startViewChange(s)
            \/ \E args \in leaving[s] : sendViewChange(s, args)
            \/ \E m \in vcMsgs : HandleViewChangeRPC(s, m)
            \/ UnlockUnlocked(s)
      BY <1>8 DEF VCNext
    <2> QED BY <1>4, <1>5, <1>6, <2>1
  <1> QED BY <1>7, <1>8 DEF Goal

\* What holds throughout: in particular that Make does not run again.
Below == Still /\ TypeOK /\ Untouched

LEMMA BelowStep ==
  ASSUME N > 1, Below, [VCNext]_allVars
  PROVE  Below' /\ ([Next]_vars \/ Quiet)
  BY StillStep, StepsBelow DEF Below, Untouched

LEMMA BelowInit == Init /\ VCInit => Below
  BY TypeInit DEF Init, VCInit, Below, Still, ViewNeverMoves, OneView, Untouched

\* The agreement of the normal case outlasts every view change.
LEMMA AgreedBelow ==
  ASSUME N > 1, Below, AgreedInv, [VCNext]_allVars
  PROVE  /\ AgreedInv'
         /\ \A t \in Server, k \in Slot : Logged(t, k) => Stays(t, k)
  <1>1. TypeOK /\ TypeOK' /\ remade' = {} /\ LeaderStays
    BY BelowStep DEF Below, Untouched, LeaderStays
  <1>2. CASE [Next]_vars
    BY <1>1, <1>2, OrderStep, SoundStep, AllStay DEF AgreedInv
  <1>3. CASE Quiet
    <2>1. OrderInv'
      BY <1>1, <1>3, OrderQuiet DEF AgreedInv, Quiet, logVars
    <2> QED BY <1>1, <1>3, <2>1 DEF AgreedInv, Quiet, logVars, SoundLogs, Logged, Stays
  <1> QED BY <1>2, <1>3, BelowStep

LEMMA AgreedThroughout ==
  ASSUME N > 1
  PROVE  VCSpec => [](Below /\ AgreedInv)
  <1>1. Init /\ VCInit => Below /\ AgreedInv
    BY BelowInit, OrderInit, SoundInit DEF Init, AgreedInv
  <1>2. Below /\ AgreedInv /\ [VCNext]_allVars => (Below /\ AgreedInv)'
    BY BelowStep, AgreedBelow
  <1> QED BY <1>1, <1>2, PTL DEF VCSpec

\* Two servers that log a slot in the same view log the same command there, and every
\* prepare counted comes from a server that logged that command, whenever view changes
\* start and whichever handlers return because of them, for any number of servers above
\* one.
THEOREM AgreementThroughViewChanges ==
  ASSUME N > 1
  PROVE  VCSpec => [](SlotAgreement /\ PrepareBacked)
  <1>1. AgreedInv => SlotAgreement /\ PrepareBacked
    BY OrderAgrees, OrderBacksPrepares DEF AgreedInv
  <1> QED BY <1>1, AgreedThroughout, PTL

-----------------------------------------------------------------------------
(* The rest of what the normal case promises.                               *)

Promises ==
  /\ RepliesBacked /\ CheckPointsSound /\ DurableCounters
  /\ CommitType # "PrepareCommandArg" => Idle
  /\ \A s \in Server : ChannelsFit(s)

LEMMA PromisesInit == Init => Promises
  <1> SUFFICES ASSUME Init
               PROVE  Promises
    OBVIOUS
  <1>1. RepliesBacked /\ CheckPointsSound /\ DurableCounters /\ Idle
    BY DEF Init, RepliesBacked, CheckPointsSound, DurableCounters, Idle
  <1>2. ASSUME NEW s \in Server
        PROVE  ChannelsFit(s)
    <2>1. Waiters(s) = {}
      BY DEF Init, Waiters
    <2> QED BY <2>1, FS_EmptySet, BoundAssumption DEF Init, ChannelsFit
  <1> QED BY <1>1, <1>2 DEF Promises

\* What ends takes nothing from them.
LEMMA PromisesQuiet ==
  ASSUME TypeOK, Promises, Quiet
  PROVE  Promises'
  <1>1. \A s \in Server : outbox'[s] \subseteq outbox[s] /\ checking'[s] \subseteq checking[s]
    BY DEF Quiet
  <1>2. /\ \A s \in Server, n \in Slot : StandsBy(s, n)' = StandsBy(s, n)
        /\ \A n \in Slot : \A c : Backers(n, c)' = Backers(n, c)
    BY DEF Quiet, envVars, logVars, StandsBy, Prepared, Backers, Holds, Logged
  <1>3. RepliesBacked'
    <2>1. ASSUME NEW r \in ReplyArg, BackedReply(r)
          PROVE  BackedReply(r)'
      BY <1>2, <2>1 DEF BackedReply, ReplyArg, calculateMajority, numFailableServers
    <2>2. \A r \in replies' : BackedReply(r)'
      BY <2>1 DEF Promises, RepliesBacked, Quiet, TypeOK, NetType
    <2>3. ASSUME NEW t \in Server, NEW job \in outbox[t], job.phase = "REPLY_TO_CLIENT"
          PROVE  BackedReply(job.args)'
      <3>1. job.args \in ReplyArg
        BY <2>3, RequestFields DEF TypeOK, NetType, Job
      <3> QED BY <2>1, <2>3, <3>1 DEF Promises, RepliesBacked
    <2> QED BY <1>1, <2>2, <2>3 DEF RepliesBacked
  <1>4. CheckPointsSound'
    <2>1. ASSUME NEW a \in CheckPointArg, Vouches(a)
          PROVE  Vouches(a)'
      BY <1>2, <2>1 DEF Vouches, CheckPointArg
    <2>2. ASSUME NEW m \in msgs', m.phase = "CHECK_POINT"
          PROVE  m.to # m.args.arg.SenderIndex /\ Vouches(m.args.arg)'
      BY <2>1, <2>2, MessageFields DEF Quiet, Promises, CheckPointsSound, TypeOK
    <2>3. ASSUME NEW t \in Server, NEW job \in outbox'[t], job.phase = "CHECK_POINT"
          PROVE  job.args.arg.SenderIndex = t /\ Vouches(job.args.arg)'
      <3>1. job.args.arg \in CheckPointArg
        BY <1>1, <2>3, RequestFields, JobRequest DEF TypeOK, NetType
      <3> QED BY <1>1, <2>1, <2>3, <3>1 DEF Promises, CheckPointsSound
    <2>4. ASSUME NEW s \in Server, NEW a \in checking'[s]
          PROVE  a.SenderIndex # s /\ Vouches(a)'
      <3>1. a \in checking[s] /\ a \in CheckPointArg
        BY <1>1 DEF TypeOK, CkptType
      <3> QED BY <2>1, <3>1 DEF Promises, CheckPointsSound
    <2>5. ASSUME NEW s \in Server, NEW n \in Slot, checkPoints'[s][n] # NoCheckPoint
          PROVE  SoundCheckPoint(s, n, checkPoints[s][n])'
      <3>1. checkPoints' = checkPoints /\ checkPoints[s][n] \in CheckPointInfo
        BY <2>5 DEF Quiet, TypeOK, CkptType
      <3>2. SoundCheckPoint(s, n, checkPoints[s][n])
        BY <2>5, <3>1 DEF Promises, CheckPointsSound
      <3> QED BY <1>2, <3>1, <3>2 DEF SoundCheckPoint, CheckPointInfo, numFailableServers
    <2> QED BY <2>2, <2>3, <2>4, <2>5 DEF CheckPointsSound
  <1>5. DurableCounters'
    BY DEF Quiet, envVars, logVars, Promises, DurableCounters, leader
  <1>6. CommitType # "PrepareCommandArg" => Idle'
    BY <1>1 DEF Quiet, logVars, chanVars, Promises, Idle
  <1>7. \A s \in Server : ChannelsFit(s)'
    BY FitKept DEF Quiet, chanVars, Promises
  <1> QED BY <1>3, <1>4, <1>5, <1>6, <1>7 DEF Promises

LEMMA PromisesBelow ==
  ASSUME N > 1, Below, AgreedInv, Promises, [VCNext]_allVars
  PROVE  Promises'
  <1>1. Below' /\ AgreedInv'
    BY AgreedBelow, BelowStep
  <1>2. TypeOK /\ TypeOK' /\ remade = {} /\ remade' = {}
    BY <1>1 DEF Below, Untouched
  <1>3. CASE [Next]_vars
    <2>1. RepliesBacked' /\ CheckPointsSound' /\ DurableCounters'
      BY <1>1, <1>2, <1>3, RepliesStep, CheckPointsStep, CountersStep DEF Promises
    <2>2. CommitType # "PrepareCommandArg" => Idle'
      BY <1>2, <1>3, IdleStep DEF Promises
    <2>3. \A s \in Server : ChannelsFit(s)'
      BY <1>2, <1>3, ChannelsStep DEF Promises
    <2> QED BY <2>1, <2>2, <2>3 DEF Promises
  <1>4. CASE Quiet
    BY <1>2, <1>4, PromisesQuiet
  <1> QED BY <1>3, <1>4, BelowStep

\* View changes take nothing of it away either: what a client has a reply for 2f + 1
\* servers have logged, a checkpoint others vouch for is of a prepared slot, no handler
\* blocks under the lock, the disks have the counters and no log loses an entry, for any
\* number of servers above one and whichever of them a view change ends.
THEOREM PromisesThroughViewChanges ==
  ASSUME N > 1
  PROVE  VCSpec =>
           /\ [](/\ ReplyBacked /\ CheckpointBacked /\ NoBlockUnderLock
                 /\ DurableCounters /\ NothingExecuted)
           /\ SlotStable
  <1> DEFINE Inv == Below /\ AgreedInv /\ Promises
  <1>1. Init /\ VCInit => Promises
    BY PromisesInit
  <1>2. Below /\ AgreedInv /\ Promises /\ [VCNext]_allVars => Promises'
    BY PromisesBelow
  <1>3. Below /\ Promises => /\ ReplyBacked /\ CheckpointBacked /\ NoBlockUnderLock
                            /\ DurableCounters /\ NothingExecuted
    <2> SUFFICES ASSUME Below, Promises
                 PROVE  /\ ReplyBacked /\ CheckpointBacked /\ NoBlockUnderLock
                        /\ DurableCounters /\ NothingExecuted
      OBVIOUS
    <2>1. ReplyBacked
      BY DEF Promises, RepliesBacked, BackedReply, ReplyBacked
    <2>2. CheckpointBacked
      BY SoundMeansBacked DEF Below, Promises
    <2>3. NoBlockUnderLock
      BY FitBounds DEF Below, Promises, NoBlockUnderLock
    <2>4. NothingExecuted
      BY DEF Promises, Idle, NothingExecuted
    <2> QED BY <2>1, <2>2, <2>3, <2>4 DEF Promises
  <1>4. Below /\ AgreedInv /\ [VCNext]_allVars =>
          [\A s \in Server, n \in Slot :
             /\ Logged(s, n) /\ serverLog[s][n].view = view[s]
             /\ makes' = makes \/ s \notin remade'
             =>
               /\ serverLog'[s][n] # NoEntry
               /\ serverLog'[s][n].message = serverLog[s][n].message
               /\ serverLog[s][n].prepareArgs \subseteq serverLog'[s][n].prepareArgs]_vars
    BY AgreedBelow DEF Stays
  <1> QED BY <1>1, <1>2, <1>3, <1>4, AgreedThroughout, PTL DEF VCSpec, SlotStable

\* Nor do they take away what a server that executes commands remembers of them: the
\* client's register covers every reply, and the last checkpoint is there.
THEOREM ExecutionThroughViewChanges ==
  ASSUME N > 1, \A n \in Slot : n < CheckPointInterval
  PROVE  VCSpec => [](RegisterCoversReplies /\ LastCheckpointRetained)
  <1> DEFINE Inv == Unrepeated /\ Covers /\ LastCheckpointRetained
  <1>1. Init => Inv
    BY UnrepeatedInit DEF Init, Covers, LastCheckpointRetained
  <1>2. Below /\ AgreedInv /\ Inv /\ [VCNext]_allVars => Inv'
    <2> SUFFICES ASSUME Below, AgreedInv, Inv, [VCNext]_allVars
                 PROVE  Inv'
      OBVIOUS
    <2>1. TypeOK /\ TypeOK' /\ SoundLogs /\ leader(0) \notin remade'
      BY BelowStep, AgreedBelow DEF Below, AgreedInv
    <2>2. CASE [Next]_vars
      BY <2>1, <2>2, UnrepeatedStep, CoversStep, RetainedStep
    <2>3. CASE Quiet
      <3>1. Unrepeated'
        BY <2>3, UnrepeatedQuiet DEF Quiet, envVars, logVars, Logged
      <3>2. Covers'
        BY <2>3 DEF Quiet, envVars, logVars, Covers, Covered
      <3>3. LastCheckpointRetained'
        BY <2>3 DEF Quiet, chanVars, LastCheckpointRetained
      <3> QED BY <3>1, <3>2, <3>3
    <2> QED BY <2>2, <2>3, BelowStep
  <1>3. Covers => RegisterCoversReplies
    BY DEF Covers, Covered, RegisterCoversReplies
  <1> QED BY <1>1, <1>2, <1>3, AgreedThroughout, PTL DEF VCSpec

\* A confirmation still finds its checkpoint, or the server has a later one, in every
\* checkpoint interval and whichever handlers return because the view changes.
THEOREM NewestThroughViewChanges ==
  ASSUME N > 1
  PROVE  VCSpec => []NewestCheckPointStays
  <1> DEFINE Inv == LastKept /\ NewestCheckPointStays
  <1>1. Init => Inv
    BY DEF Init, LastKept, NewestCheckPointStays
  <1>2. Below /\ Inv /\ [VCNext]_allVars => Inv'
    <2> SUFFICES ASSUME Below, Inv, [VCNext]_allVars
                 PROVE  Inv'
      OBVIOUS
    <2>1. CASE [Next]_vars
      BY <2>1, NewestStep DEF Below
    <2>2. CASE Quiet
      <3>1. LastKept'
        BY <2>2 DEF Quiet, LastKept
      <3>2. NewestCheckPointStays'
        BY <2>2 DEF Quiet, envVars, NewestCheckPointStays
      <3> QED BY <3>1, <3>2
    <2> QED BY <2>1, <2>2, BelowStep
  <1> QED BY <1>1, <1>2, AgreedThroughout, PTL DEF VCSpec

-----------------------------------------------------------------------------
(* The certificates.                                                        *)

HoldersOf(n, c) == {t \in Server : Holds(t, n, c)}

CertifiedSlot(s, n) ==
  /\ Logged(s, n)
  /\ Cardinality(HoldersOf(n, serverLog[s][n].message)) >= calculateMajority

Certified(args) ==
  /\ args.arg.SenderID \in Server
  /\ \A p \in args.arg.PreparedMessages :
       p.SequenceNumber \in Slot /\ CertifiedSlot(args.arg.SenderID, p.SequenceNumber)

Certificates ==
  /\ \A s \in Server : \A args \in leaving[s] : Certified(args)
  /\ \A m \in vcMsgs : Certified(m.args)

LEMMA CertifiedStays ==
  ASSUME AgreedInv, AgreedInv', NEW s \in Server, NEW n \in Slot, CertifiedSlot(s, n),
         \A t \in Server, k \in Slot : Logged(t, k) => Stays(t, k)
  PROVE  CertifiedSlot(s, n)'
  <1> DEFINE H == HoldersOf(n, serverLog[s][n].message)
  <1>1. serverLog'[s][n] # NoEntry /\ serverLog'[s][n].message = serverLog[s][n].message
    BY DEF CertifiedSlot, Stays
  <1>2. ASSUME NEW J, J = HoldersOf(n, serverLog[s][n].message)'
        PROVE  Cardinality(J) >= calculateMajority
    <2>1. H \subseteq J
      BY <1>1, <1>2 DEF HoldersOf, Holds, Logged, Stays
    <2>2. H \in SUBSET Server /\ J \in SUBSET Server
      BY <1>2 DEF HoldersOf
    <2> HIDE DEF H
    <2>3. Cardinality(H) >= calculateMajority
      BY DEF CertifiedSlot, H
    <2> QED BY <2>1, <2>2, <2>3, QuorumGrows
  <1> QED BY <1>1, <1>2 DEF CertifiedSlot, Logged, calculateMajority, numFailableServers

LEMMA MadeCertified ==
  ASSUME AgreedInv, Untouched, NEW s \in Server
  PROVE  Certified(makeViewChangeArguments(s))
  <1> DEFINE prepared ==
        {n \in Slot : Logged(s, n) /\ PreparedNotCommitted(serverLog[s][n])}
  <1>1. ASSUME NEW n \in prepared
        PROVE  n \in Slot /\ CertifiedSlot(s, n)
    <2>1. Logged(s, n) /\ Cardinality(serverLog[s][n].prepareArgs) = calculateMajority
      BY DEF PreparedNotCommitted
    <2>2. Prepared(s, n)
      BY <2>1, ServersFinite DEF Prepared
    <2>3. Backers(n, serverLog[s][n].message) = HoldersOf(n, serverLog[s][n].message)
      BY DEF Backers, HoldersOf, Untouched
    <2> QED BY <2>1, <2>2, <2>3, PreparedQuorum DEF AgreedInv, CertifiedSlot
  <1>2. /\ makeViewChangeArguments(s).arg.SenderID = s
        /\ \A p \in makeViewChangeArguments(s).arg.PreparedMessages :
             p.SequenceNumber \in prepared
    BY DEF makeViewChangeArguments, makeArguments
  <1> HIDE DEF prepared
  <1> QED BY <1>1, <1>2 DEF Certified

LEMMA CertificatesStep ==
  ASSUME N > 1, Below, AgreedInv, Certificates, [VCNext]_allVars
  PROVE  Certificates'
  <1>1. AgreedInv' /\ \A t \in Server, k \in Slot : Logged(t, k) => Stays(t, k)
    BY AgreedBelow
  <1>2. ASSUME NEW args, Certified(args)
        PROVE  Certified(args)'
    BY <1>1, <1>2, CertifiedStays DEF Certified
  <1>3. \A s \in Server : \A args \in leaving'[s] : Certified(args)'
    <2> SUFFICES ASSUME NEW s \in Server, NEW args \in leaving'[s]
                 PROVE  Certified(args)'
      OBVIOUS
    <2>1. args \in leaving[s] \/ args = makeViewChangeArguments(s)
      BY ViewChangesSent DEF Below
    <2>2. Certified(args)
      BY <2>1, MadeCertified DEF Certificates, Below
    <2> QED BY <1>2, <2>2
  <1>4. \A m \in vcMsgs' : Certified(m.args)'
    <2> SUFFICES ASSUME NEW m \in vcMsgs'
                 PROVE  Certified(m.args)'
      OBVIOUS
    <2>1. m \in vcMsgs \/ \E t \in Server : m.args \in leaving[t]
      BY ViewChangesSent DEF Below
    <2> QED BY <1>2, <2>1 DEF Certificates
  <1> QED BY <1>3, <1>4 DEF Certificates

\* Every slot a VIEW_CHANGE names as prepared is, from when it is made, one that 2f + 1
\* servers log with its sender's command, for any number of servers above one: the
\* receiver loses nothing by not verifying the prepares.
THEOREM CertificatesCorrect ==
  ASSUME N > 1
  PROVE  VCSpec => []CertificateBacked
  <1>1. Init /\ VCInit => Certificates
    BY DEF VCInit, Certificates
  <1>2. Below /\ AgreedInv /\ Certificates /\ [VCNext]_allVars => Certificates'
    BY CertificatesStep
  <1>3. Certificates => CertificateBacked
    <2> SUFFICES ASSUME Certificates,
                        NEW args \in (UNION {leaving[s] : s \in Server})
                                       \cup {m.args : m \in vcMsgs},
                        NEW p \in args.arg.PreparedMessages
                 PROVE  CertifiedSlot(args.arg.SenderID, p.SequenceNumber)
      BY DEF CertificateBacked, CertifiedSlot, HoldersOf
    <2>1. Certified(args)
      BY DEF Certificates
    <2> QED BY <2>1 DEF Certified
  <1> QED BY <1>1, <1>2, <1>3, AgreedThroughout, PTL DEF VCSpec

-----------------------------------------------------------------------------
(* Types.                                                                   *)

LEMMA MadeType ==
  ASSUME TypeOK, NEW s \in Server
  PROVE  makeViewChangeArguments(s) \in Signed("ViewChange", ViewChangeArg)
  <1> DEFINE last == lastCheckPointSeqNumber[s]
             confirmed == IF last \in Slot /\ checkPoints[s][last] # NoCheckPoint
                          THEN checkPoints[s][last].ConfirmedServers ELSE {}
             prepared == {n \in Slot : Logged(s, n) /\ PreparedNotCommitted(serverLog[s][n])}
             messages == {[SequenceNumber |-> n,
                           PrepareMessages |-> serverLog[s][n].prepareArgs] : n \in prepared}
  <1>1. last \in Nat /\ NextView(s) \in Nat
    BY DEF TypeOK, CkptType, LogType, NextView
  <1>2. confirmed \in SUBSET Server
    BY DEF TypeOK, CkptType, CheckPointInfo
  <1>3. \A n \in prepared : n \in Slot /\ serverLog[s][n].prepareArgs \in SUBSET VoteArg
    BY DEF TypeOK, LogType, Logged, Entry
  <1> HIDE DEF prepared
  <1>4. messages \in SUBSET PrepareMForViewChange
    BY <1>3 DEF PrepareMForViewChange
  <1>5. makeViewChangeArguments(s)
          = makeArguments(s, "ViewChange",
              [NextView |-> NextView(s), LastCheckPointSequenceNumber |-> last,
               LastCheckPointMessages |-> confirmed, PreparedMessages |-> messages,
               SenderID |-> s])
    BY DEF makeViewChangeArguments, prepared
  <1> HIDE DEF last, confirmed, messages
  <1> QED BY <1>1, <1>2, <1>4, <1>5 DEF makeArguments, Signed, ViewChangeArg

LEMMA ChangeStateType ==
  ASSUME VCTypeOK, NEW s \in Server, ChangeState(s), UNCHANGED msgs
  PROVE  /\ changing' \in [Server -> BOOLEAN]
         /\ early' \in [Server -> SUBSET msgs']
         /\ \A t \in Server : early'[t] \subseteq Gated(t)'
  BY DEF VCTypeOK, ChangeState, Gated

LEMMA CleanlyType ==
  ASSUME VCTypeOK, Cleanly
  PROVE  VCTypeOK'
  <1>1. /\ changing' \in [Server -> BOOLEAN]
        /\ early' \in [Server -> SUBSET msgs']
        /\ \A t \in Server : early'[t] \subseteq Gated(t)'
    BY DEF VCTypeOK, Cleanly, Gated
  <1>2. /\ leaving' \in [Server -> SUBSET Signed("ViewChange", ViewChangeArg)]
        /\ vcMsgs' \subseteq vcMsgs
        /\ UNCHANGED <<owed, starts, viewChanges, newViews>>
    BY DEF VCTypeOK, Cleanly
  <1> QED BY <1>1, <1>2 DEF VCTypeOK

LEMMA VCTypeStep ==
  ASSUME N > 1, Still, TypeOK, VCTypeOK, [VCNext]_allVars
  PROVE  VCTypeOK'
  <1>1. ASSUME NEW s \in Server, startViewChange(s)
        PROVE  VCTypeOK'
    <2>1. /\ UNCHANGED <<msgs, owed, vcMsgs, viewChanges, newViews>>
          /\ starts' \in 0 .. MaxStarts
      BY <1>1, StartsAssumption DEF startViewChange, vars, netVars, VCTypeOK
    <2>2. leaving' \in [Server -> SUBSET Signed("ViewChange", ViewChangeArg)]
      BY <1>1, MadeType DEF startViewChange, VCTypeOK
    <2> QED BY <1>1, <2>1, <2>2, ChangeStateType DEF startViewChange, VCTypeOK
  <1>2. ASSUME NEW s \in Server, NEW args \in leaving[s], sendViewChange(s, args)
        PROVE  VCTypeOK'
    <2>1. CASE Cleanly
      BY <2>1, CleanlyType
    <2>2. CASE ~Cleanly
      <3>1. leader(view[s] + 1) \in Server
        <4>1. view[s] + 1 \in Nat
          BY DEF TypeOK, LogType
        <4> QED BY <4>1, LeaderIsServer
      <3>2. /\ leaving' = [leaving EXCEPT ![s] = @ \ {args}]
            /\ vcMsgs' = vcMsgs \cup {[to |-> leader(view[s] + 1), args |-> args]}
            /\ UNCHANGED <<msgs, changing, early, owed, starts, viewChanges, newViews>>
        BY <1>2, <2>2 DEF sendViewChange, vars, netVars
      <3>3. leaving' \in [Server -> SUBSET Signed("ViewChange", ViewChangeArg)]
        BY <3>2 DEF VCTypeOK
      <3>4. args \in Signed("ViewChange", ViewChangeArg)
        BY DEF VCTypeOK
      <3>5. \A m \in vcMsgs' :
              m.to \in Server /\ m.args \in Signed("ViewChange", ViewChangeArg)
        BY <3>1, <3>2, <3>4 DEF VCTypeOK
      <3> QED BY <3>2, <3>3, <3>5 DEF VCTypeOK, Gated
    <2> QED BY <2>1, <2>2
  <1>3. ASSUME NEW s \in Server, NEW m \in vcMsgs, HandleViewChangeRPC(s, m)
        PROVE  VCTypeOK'
    <2>1. CASE Cleanly
      BY <2>1, CleanlyType
    <2>2. CASE ~Cleanly
      <3>1. UNCHANGED <<msgs, viewChanges, newViews>> /\ ChangeState(s)
        BY <1>3, <2>2, AllRefused DEF HandleViewChangeRPC, vars, netVars
      <3>2. /\ leaving' = [t \in Server |-> IF running'[t] THEN leaving[t] ELSE {}]
            /\ vcMsgs' \subseteq vcMsgs /\ starts' = starts
            /\ owed' = [owed EXCEPT ![s] = @ + 2]
        BY <1>3, <2>2 DEF HandleViewChangeRPC
      <3>3. leaving' \in [Server -> SUBSET Signed("ViewChange", ViewChangeArg)]
        BY <3>2 DEF VCTypeOK
      <3> QED BY <3>1, <3>2, <3>3, ChangeStateType DEF VCTypeOK
    <2> QED BY <2>1, <2>2
  <1>4. ASSUME Cleanly
        PROVE  VCTypeOK'
    BY <1>4, CleanlyType
  <1>5. CASE UNCHANGED allVars
    BY <1>5 DEF allVars, vcVars, callVars, vars, netVars, VCTypeOK, Gated
  <1> QED BY <1>1, <1>2, <1>3, <1>4, <1>5 DEF VCNext, UnlockUnlocked

\* What the view change adds keeps its types too, for any number of servers above one.
THEOREM ViewChangeTypeCorrect ==
  ASSUME N > 1
  PROVE  VCSpec => []VCTypeOK
  <1>1. Init /\ VCInit => Below /\ VCTypeOK
    <2>1. VCInit => VCTypeOK
      BY StartsAssumption DEF VCInit, VCTypeOK
    <2> QED BY <2>1, BelowInit
  <1>2. Below /\ VCTypeOK /\ [VCNext]_allVars => (Below /\ VCTypeOK)'
    BY BelowStep, VCTypeStep DEF Below
  <1> QED BY <1>1, <1>2, PTL DEF VCSpec

-----------------------------------------------------------------------------
(* With four servers a prepared slot has exactly a majority of prepares, since   *)
(* the leader of view 0 sends none.                                             *)

LeaderAbstains ==
  /\ \A s \in Server : \A job \in outbox[s] :
       /\ job.phase = "PRE_PREPARE" => s = leader(0)
       /\ job.phase = "PREPARE" => job.args.arg.SenderIndex # leader(0)
  /\ \A m \in msgs :
       /\ m.phase = "PRE_PREPARE" => m.to # leader(0)
       /\ m.phase = "PREPARE" => m.args.arg.SenderIndex # leader(0)
  /\ \A s \in Server, n \in Slot :
       Logged(s, n) => \A p \in serverLog[s][n].prepareArgs : p.SenderIndex # leader(0)

\* A prepare counted is one that was counted, has come, or is the server's own for a
\* pre-prepare that has come.
LEMMA NewPrepares ==
  ASSUME TypeOK, [Next]_vars, NEW t \in Server, NEW k \in Slot, serverLog'[t][k] # NoEntry
  PROVE  \A p \in serverLog'[t][k].prepareArgs :
           \/ Logged(t, k) /\ p \in serverLog[t][k].prepareArgs
           \/ \E m \in msgs :
                \/ m.phase = "PREPARE" /\ p = m.args.arg
                \/ m.phase = "PRE_PREPARE" /\ m.to = t /\ p.SenderIndex = t
  <1> DEFINE Old(p) == Logged(t, k) /\ p \in serverLog[t][k].prepareArgs
             New(p) == \E m \in msgs :
                         \/ m.phase = "PREPARE" /\ p = m.args.arg
                         \/ m.phase = "PRE_PREPARE" /\ m.to = t /\ p.SenderIndex = t
             Goal == \A p \in serverLog'[t][k].prepareArgs : Old(p) \/ New(p)
  <1>1. CASE serverLog'[t][k] = serverLog[t][k]
    BY <1>1 DEF Logged
  <1>2. ASSUME NEW s \in Server, NEW n \in Slot, NEW e,
               serverLog' = [serverLog EXCEPT ![s][n] = e],
               serverLog'[t][k] # serverLog[t][k]
        PROVE  s = t /\ n = k /\ serverLog'[t][k] = e
    BY <1>2 DEF TypeOK, LogType
  <1>3. ASSUME NEW s \in Server, NEW c, StartBody(s, c)
        PROVE  Goal
    <2>1. \/ UNCHANGED serverLog
          \/ /\ sequenceNumber[s] \in Slot
             /\ serverLog' = [serverLog EXCEPT ![s][sequenceNumber[s]] =
                                logEntry(view[s], c, Digest[c])]
      BY <1>3 DEF StartBody, StartForward, StartDrop, StartPrePrepare
    <2>2. CASE serverLog'[t][k] # serverLog[t][k]
      <3> DEFINE e == logEntry(view[s], c, Digest[c])
      <3>1. e.prepareArgs = {}
        BY DEF logEntry
      <3>2. serverLog' = [serverLog EXCEPT ![s][sequenceNumber[s]] = e]
            /\ sequenceNumber[s] \in Slot
        BY <2>1, <2>2
      <3> HIDE DEF e
      <3>3. serverLog'[t][k] = e
        BY <1>2, <2>2, <3>2
      <3> QED BY <3>1, <3>3
    <2> QED BY <1>1, <2>2
  <1>4. ASSUME NEW s \in Server, NEW m \in msgs, HandlePrePrepareRPC(s, m)
        PROVE  Goal
    <2> DEFINE a == m.args.arg
               vote == Vote(a.View, a.SequenceNumber, a.Digest, s, 0)
               e == [logEntry(a.View, a.Message, a.Digest) EXCEPT !.prepareArgs = {vote}]
    <2>1. a.SequenceNumber \in Slot /\ m.phase = "PRE_PREPARE" /\ m.to = s
      BY <1>4, MessageFields DEF HandlePrePrepareRPC, Handles, TypeOK, PrePrepareArg
    <2>2. UNCHANGED serverLog \/ serverLog' = [serverLog EXCEPT ![s][a.SequenceNumber] = e]
      BY <1>4 DEF HandlePrePrepareRPC
    <2>3. e.prepareArgs = {vote} /\ vote.SenderIndex = s
      BY DEF logEntry, Vote
    <2> HIDE DEF a, e, vote
    <2>4. CASE serverLog'[t][k] # serverLog[t][k]
      <3>1. s = t /\ serverLog'[t][k] = e
        BY <1>2, <2>1, <2>2, <2>4
      <3> QED BY <2>1, <2>3, <3>1
    <2> QED BY <1>1, <2>4
  <1>5. ASSUME NEW s \in Server, NEW m \in msgs, HandlePrepareRPC(s, m)
        PROVE  Goal
    <2> DEFINE a == m.args.arg
               n == a.SequenceNumber
               entry == serverLog[s][n]
               prepares == RecordPrepare(entry, a)
               e == [entry EXCEPT !.prepareArgs = prepares,
                                  !.commitArgs = IF EntersCommitPhase(prepares)
                                                 THEN @ \cup {s} ELSE @]
    <2>1. CASE ~ValidPrepare(s, m.args)
      BY <1>1, <1>5, <2>1 DEF HandlePrepareRPC
    <2>2. CASE ValidPrepare(s, m.args)
      <3>1. serverLog' = [serverLog EXCEPT ![s][n] = e]
        BY <1>5, <2>2 DEF HandlePrepareRPC
      <3>2. n \in Slot /\ m.phase = "PREPARE"
        BY <1>5, MessageFields DEF HandlePrepareRPC, Handles, TypeOK, VoteArg
      <3>3. Logged(s, n) /\ prepares = entry.prepareArgs \cup {a}
        BY <2>2 DEF ValidPrepare, Logged, RecordPrepare
      <3>4. entry \in Entry /\ entry = serverLog[s][n]
        BY <3>2, <3>3 DEF TypeOK, LogType, Logged
      <3> HIDE DEF entry, prepares
      <3>5. e.prepareArgs = prepares
        BY <3>4 DEF Entry
      <3> HIDE DEF e
      <3> QED BY <1>1, <1>2, <3>1, <3>2, <3>3, <3>4, <3>5
    <2> QED BY <2>1, <2>2
  <1>6. ASSUME NEW s \in Server,
               \/ Goroutine(s) \/ Crash(s) \/ HandleCommitRPC_Save(s)
               \/ \E m \in msgs :
                    \/ EnterHandler(s, m)
                    \/ HandleCommitRPC(s, m) \/ HandleCommitRPC_Fatal(s, m)
                    \/ HandleCheckPointRPC_Check(s, m)
               \/ \E a \in checking[s] : HandleCheckPointRPC_Record(s, a)
        PROVE  Goal
    <2>1. UNCHANGED serverLog
      BY <1>6 DEF Goroutine, sendRPCs, replyToClient, Crash, Exit, EnterHandler,
                  HandleCommitRPC, HandleCommitRPC_Fatal, HandleCheckPointRPC_Check,
                  HandleCheckPointRPC_Record, HandleCommitRPC_Save, logVars
    <2> QED BY <1>1, <2>1
  <1>7. ASSUME NEW s \in Server, Make(s)
        PROVE  Goal
    <2>1. \/ UNCHANGED serverLog
          \/ serverLog' = [serverLog EXCEPT ![s] = [n \in Slot |-> NoEntry]]
      BY <1>7 DEF Make, readPersist, Exit, logVars
    <2>2. CASE serverLog' = [serverLog EXCEPT ![s] = [n \in Slot |-> NoEntry]]
      <3>1. serverLog'[t][k] = IF t = s THEN NoEntry ELSE serverLog[t][k]
        BY <2>2 DEF TypeOK, LogType
      <3> QED BY <1>1, <3>1
    <2> QED BY <1>1, <2>1, <2>2
  <1>8. CASE UNCHANGED vars
    BY <1>1, <1>8 DEF vars, logVars
  <1> HIDE DEF Goal
  <1>9. Goal
    BY <1>3, <1>4, <1>5, <1>6, <1>7, <1>8
    DEF Next, Start, ReceiveForwardedCommand, Handler, GatedHandler, Goal
  <1> QED BY <1>9 DEF Goal

LEMMA AbstainsStep ==
  ASSUME TypeOK, OneView, LeaderAbstains, [Next]_vars
  PROVE  LeaderAbstains'
  <1>1. ASSUME NEW s \in Server, NEW job \in outbox'[s]
        PROVE  /\ job.phase = "PRE_PREPARE" => s = leader(0)
               /\ job.phase = "PREPARE" => job.args.arg.SenderIndex # leader(0)
    <2>1. job \in outbox[s] \/ JobOrigin(s, job)
      BY NewJobs
    <2>2. CASE job \in outbox[s]
      BY <2>2 DEF LeaderAbstains
    <2>3. CASE JobOrigin(s, job)
      <3>1. CASE job.phase = "PRE_PREPARE" /\ leader(view[s]) = s
        BY <3>1 DEF OneView
      <3>2. CASE /\ job.phase = "PREPARE" /\ job.args.arg.SenderIndex = s
                 /\ \E m \in msgs : m.to = s /\ m.phase = "PRE_PREPARE"
        BY <3>2 DEF LeaderAbstains
      <3>3. CASE job.phase \notin {"PRE_PREPARE", "PREPARE"}
        BY <3>3
      <3>4. \A n, c : CommitReply(s, n, c).phase = "REPLY_TO_CLIENT"
                   /\ makeCheckpoint(s, n).phase = "CHECK_POINT"
        BY DEF CommitReply, makeCheckpoint
      <3> QED BY <2>3, <3>1, <3>2, <3>3, <3>4 DEF JobOrigin
    <2> QED BY <2>1, <2>2, <2>3
  <1>2. ASSUME NEW m \in msgs'
        PROVE  /\ m.phase = "PRE_PREPARE" => m.to # leader(0)
               /\ m.phase = "PREPARE" => m.args.arg.SenderIndex # leader(0)
    <2>1. CASE m \in msgs
      BY <2>1 DEF LeaderAbstains
    <2>2. CASE m \notin msgs
      <3>1. PICK t \in Server : \E job \in outbox[t] :
                   /\ job.phase = m.phase /\ job.args = m.args
                   /\ m.phase # "FORWARD_COMMAND" => m.to # t
        BY <2>2, NewMessages
      <3> QED BY <3>1 DEF LeaderAbstains
    <2> QED BY <2>1, <2>2
  <1>3. ASSUME NEW s \in Server, NEW n \in Slot, serverLog'[s][n] # NoEntry,
               NEW p \in serverLog'[s][n].prepareArgs
        PROVE  p.SenderIndex # leader(0)
    BY <1>3, NewPrepares DEF LeaderAbstains
  <1> QED BY <1>1, <1>2, <1>3 DEF LeaderAbstains, Logged, leader

LEMMA AbstainsBelow ==
  ASSUME N > 1, Below, LeaderAbstains, [VCNext]_allVars
  PROVE  LeaderAbstains'
  <1>1. CASE [Next]_vars
    BY <1>1, AbstainsStep DEF Below, Still, ViewNeverMoves
  <1>2. CASE Quiet
    BY <1>2 DEF Quiet, logVars, LeaderAbstains, Logged
  <1> QED BY <1>1, <1>2, BelowStep

LEMMA SoundBelow ==
  ASSUME N > 1, Below, SoundLogs, [VCNext]_allVars
  PROVE  SoundLogs'
  <1>1. CASE Quiet
    BY <1>1 DEF Quiet, logVars, SoundLogs, Logged
  <1> QED BY <1>1, SoundStep, BelowStep DEF Below

LEMMA FourServers ==
  ASSUME N = 4
  PROVE  leader(0) = 0 /\ calculateMajority = 3
  BY DEF leader, numFailableServers, calculateMajority

LEMMA ExactMajority ==
  ASSUME N = 4, TypeOK, SoundLogs, LeaderAbstains, NEW s \in Server, NEW n \in Slot,
         Logged(s, n)
  PROVE  PreparedNotCommitted(serverLog[s][n]) <=> Prepared(s, n)
  <1> DEFINE P == serverLog[s][n].prepareArgs
             C == serverLog[s][n].commitArgs
  <1>1. Cardinality(P) \in Nat /\ Cardinality(P) <= 3
    <2>1. \A p \in P : p.SenderIndex \in 1 .. 3
      BY SendersAreServers, FourServers DEF LeaderAbstains, Server
    <2>2. 1 .. 3 \in SUBSET Server
      BY DEF Server
    <2>3. Cardinality(1 .. 3) = 3
      <3> DEFINE a == 1
                 b == 3
      <3>1. a \in Int /\ b \in Int /\ ~(a > b) /\ b - a + 1 = 3
        OBVIOUS
      <3> HIDE DEF a, b
      <3>2. Cardinality(a .. b) = 3
        BY <3>1, FS_Interval
      <3> QED BY <3>2 DEF a, b
    <2> QED BY <2>1, <2>2, <2>3, PreparesCount
  <1>2. Cardinality(C) # 3
    <2>1. C = {} \/ C = {s}
      BY DEF SoundLogs, SoundEntry
    <2>2. Cardinality(C) \in {0, 1}
      BY <2>1, FS_EmptySet, FS_Singleton
    <2> QED BY <2>2
  <1> QED BY <1>1, <1>2, FourServers DEF PreparedNotCommitted, Prepared

CarriesPrepared(s, args) ==
  {p.SequenceNumber : p \in args.arg.PreparedMessages} = {n \in Slot : Prepared(s, n)}

LEMMA MadeCarries ==
  ASSUME N = 4, TypeOK, SoundLogs, LeaderAbstains, NEW s \in Server
  PROVE  CarriesPrepared(s, makeViewChangeArguments(s))
  <1> DEFINE prepared ==
        {n \in Slot : Logged(s, n) /\ PreparedNotCommitted(serverLog[s][n])}
             messages == {[SequenceNumber |-> n,
                           PrepareMessages |-> serverLog[s][n].prepareArgs] : n \in prepared}
  <1>1. prepared = {n \in Slot : Prepared(s, n)}
    BY ExactMajority DEF Prepared
  <1>2. makeViewChangeArguments(s).arg.PreparedMessages = messages
    BY DEF makeViewChangeArguments, makeArguments
  <1> HIDE DEF prepared
  <1>3. {p.SequenceNumber : p \in messages} = prepared
    <2>1. ASSUME NEW p \in messages
          PROVE  p.SequenceNumber \in prepared
      OBVIOUS
    <2>2. ASSUME NEW n \in prepared
          PROVE  \E p \in messages : n = p.SequenceNumber
      <3> DEFINE q == [SequenceNumber |-> n,
                       PrepareMessages |-> serverLog[s][n].prepareArgs]
      <3>1. q \in messages
        OBVIOUS
      <3>2. n = q.SequenceNumber
        OBVIOUS
      <3> HIDE DEF q, messages
      <3> QED BY <3>1, <3>2
    <2> HIDE DEF messages
    <2> QED BY <2>1, <2>2
  <1> HIDE DEF messages
  <1> QED BY <1>1, <1>2, <1>3 DEF CarriesPrepared

\* With four servers, as constants.go has it, a VIEW_CHANGE names exactly the slots its
\* sender has prepared, although it looks for exactly a majority of prepares and not for
\* at least one; for any number of commands, slots and crashes.
THEOREM PreparedCarriedCorrect ==
  ASSUME N = 4
  PROVE  VCSpec => PreparedCarried
  <1> DEFINE Inv == Below /\ SoundLogs /\ LeaderAbstains
  <1>1. Init /\ VCInit => Inv
    <2>1. Init => LeaderAbstains
      BY DEF Init, LeaderAbstains, Logged
    <2> QED BY <2>1, BelowInit, SoundInit
  <1>2. Inv /\ [VCNext]_allVars => Inv'
    BY BelowStep, SoundBelow, AbstainsBelow
  <1>3. Inv /\ [VCNext]_allVars =>
          [\A s \in Server : \A args \in leaving'[s] \ leaving[s] :
             {p.SequenceNumber : p \in args.arg.PreparedMessages}
               = {n \in Slot : Prepared(s, n)}]_allVars
    BY ViewChangesSent, MadeCarries DEF CarriesPrepared, Below
  <1> QED BY <1>1, <1>2, <1>3, PTL DEF VCSpec, PreparedCarried
=============================================================================
