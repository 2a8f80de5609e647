# A verification of practical-bft

TLA+ modules, TLC runs and TLAPS proofs for the Go program in `src/`: four
servers that agree on an order of client commands in the manner of PBFT, over
`net/rpc`, with signatures, checkpoints and a file of persistent state.

Run a check with `tlc -config X.cfg M`, a proof with `tlapm M.tla` for one of the eight
modules `*Proofs`.
`PROJECT.json` lists the runs, a mutant of the code for every property, the
source lines of every definition, the hazards and the findings.

## 1. The system

| Component | State | Operations | Hard behaviour |
|---|---|---|---|
| Starting a command (`pbft.go`, `privateHelper.go`) | `sequenceNumber`, `serverLog`, `clientRegisters` | `Start`, `ReceiveForwardedCommand`, `addLogEntry` | concurrent clients; the leader's number is not saved |
| Three phases (`rpcHandler.go`) | `serverLog`, `newValidCommad`, `commandExecuted`, `commandRecieved` | `HandlePrePrepareRPC`, `HandlePrepareRPC`, `HandleCommitRPC` | messages in any order, one shared digest, channels nobody empties |
| Checkpoints (`rpcHandler.go`, `privateHelper.go`) | `checkPoints`, `lastCheckPointSeqNumber` | `makeCheckpoint`, `HandleCheckPointRPC`, `removeStallCheckpoints` | reads without the lock, writes after it, pruning |
| Sending (`privateHelper.go`) | goroutines | `sendRPCs`, `replyToClient` | `sendRPCs` runs after the handler has unlocked, `replyToClient` at any time; a failed dial of a peer or of the client ends the process |
| Persistence (`persister.go`, `privateHelper.go`) | `my.db` | `persist`, `readPersist`, `Make` | what is saved when, what can be read back |
| Hash, signatures (`hashstructure.go`, `privateHelper.go`) | – | `Hash`, `makeArguments`, `verifySignatures`, `verifyDigests` | dropped results and errors |
| Running state (`privateHelper.go`) | `state`, `uncommittedCommands`, timer | `runningState`, `changeState`, `isChangingView` | unlocked state, timer races; no caller |
| View change (`rpcHandler.go`, `privateHelper.go`) | `viewChanges`, `view` | `startViewChange`, `HandleViewChangeRPC`, `HandleNewViewRPC`, `createPreprepareMessages` | certificates, order of updates |
| Client (`client.go`) | result channel, timer | `runClient`, `callCommand`, `ReceiveReply` | time-out against late reply |
| Entry, Raft stub, includeable | – | `main`, `runpbft` | – |

A client calls `Start` on a server. A server that does not lead forwards the
command; the leader logs it and starts a goroutine that broadcasts a
pre-prepare. Every handler works under `serverLock` and leaves its sending to a
goroutine, so a request leaves at any later time, after any other handler; a reply, whose
goroutine takes no lock, may leave before the handler is done.
Backups log and broadcast prepares; a counted prepare leads to a commit; a commit
to a reply and, early on, to a checkpoint, which the others confirm. The handlers
report to the timer loop over channels of ten places.

What makes each part correct: one command per sequence number and view on all
servers; every counted message backed by what its sender has done; nothing logged
or counted lost while a process lives; counters that survive it; replies and
checkpoints backed by a quorum; the checkpoint a view change needs still there;
no blocking under the lock; delivery without resending.

### The reading of the code

The commit does not compile, so some readings are fixed here, each with its line.

- `CommandArgs` carries `int` signature fields, `makeArguments` puts `0, 0` in
  them and leaves `r, s` unused (privateHelper.go:523-533), and
  `verifySignatures` takes `*big.Int`. `SigCarried` says which of the two ends is
  followed: `TRUE`, the computed signature travels; `FALSE`, the literal does. The
  runs use `TRUE`; with `FALSE` no backup accepts any pre-prepare and nothing
  past the leader's log ever happens. The proofs hold for both.
- `HandleCommitRPC` asserts `PrepareCommandArg` on what `HandlePrepareRPC` makes
  a `CommitArg` (rpcHandler.go:147, 176). `CommitType` is the type a COMMIT has:
  `"CommitArg"` is the code as written, where the first COMMIT ends its receiver.
  What lies behind that assertion is checked with `"PrepareCommandArg"`, and the
  run says so. The proofs hold for both.
- `Make` reads `persister` (pbft.go:135): taken as `pbft.persister`. `my.db` is
  taken to have the bucket `storage`; without it the first `persist` panics.
- A server's process is taken to start with its `Make` call (the client's
  bootstrap); requests before it are out of scope. A later `Make` brings the same
  keys and peers. `MakeArgs.privateKey` and `publicKeys` are unexported
  (datatypes.go:40-45), and `net/rpc` leaves such fields out; the keys are read as carried,
  since a server without its key could sign nothing.
- `runningState` has no caller. Module `PBFT` has the code without it: nothing
  receives from the channels and `isChangingView` is false. The two things it would
  do are modelled apart. `RunningState` has one process with the loop running, as if
  `Make` had started it. `ViewChange` has all the servers with `startViewChange`
  called at any time, which is more than the loop does.
- `runningState` starts with `&time.Timer{}` (privateHelper.go:46), on which `Stop`
  panics; `RunningState` starts with that one or with one `time.NewTimer` made, so
  that its properties say something past the first message. A timer's channel holds
  one value, as in Go before 1.23.
- The client calls `Raft.Make` and `Raft.Start` (client.go:48, 93), of which the
  repository keeps a stub: read as `PBFT.Make` and `PBFT.Start`. The empty
  `time.Duration()` of client.go:161 is read as `NEW_COMMAND_REQUEST`. The strings
  it dials are read as the servers' addresses.
- `Hash` is a constant (module `Walker`, `DigestsCorrect`): `h.Sum(buf)` is called for
  its result, which is dropped. A signature therefore says whose key made it and nothing
  of the contents, and a digest nothing at all. `MCPBFT` takes the digests of its
  commands from module `Hash`; the proofs leave them open.

## 2. Modules

| Module | What it is |
|---|---|
| `PBFT` | the servers: types, variables, one action per handler or goroutine, `Spec`, `FairSpec` |
| `PBFTProperties` | type invariant, safety, action and liveness properties, the refinement mapping |
| `SequencedLog` | abstract specification: one order of commands, filled slot by slot, copied by learners, any of which may forget what it holds |
| `PBFTClaims` | what comments and documents say and the code does not do |
| `ViewChange` | extends `PBFTProperties`: `startViewChange`, `HandleViewChangeRPC`, handlers that return while the view changes |
| `GoTimer` | a `time.Timer` as both loops use it |
| `RunningState` | one server process: timer loop, channels, the two mutexes, handlers as its environment |
| `ClientLoop` | the client process: bootstrap, timer, replies; the servers as its environment |
| `HashSums` | what `visit` computes of a value without parts, and of a sum and the next part |
| `Hash` | `Hash` and `visit` as a recursive function of a value, given its kind and its parts |
| `Walker` | extends `Hash`: `visit` call by call, the stack of the calls under way |
| `Trees` | values for the two, as trees |
| `MCPBFT`, `MCViewChange`, `MCHash` | instances for TLC; `RunningState` and `ClientLoop` need none |
| `PBFTProofs`, `QuorumProofs`, `ViewChangeProofs`, `RefinementProofs` | theorems and proofs about the servers, each extending the one before |
| `DeliveryProofs` | theorem and proof that nothing is lost on its way, extending `QuorumProofs` |
| `RunningStateProofs`, `ClientLoopProofs` | theorems and proofs about the two loops |
| `WalkerProofs` | theorems and proofs about the hash |

### `PBFT` and the code

Variables carry the names of the fields of `type PBFT`. `msgs` is the set of RPC
requests in flight, `outbox[s]` the goroutines a handler of `s` started that have
not sent yet, `checking[s]` the `HandleCheckPointRPC` calls that have passed the
unlocked checks, `waiting` the requests whose handler has pushed to
`commandRecieved` and has not got `serverLock` yet. `failed`, `makes` and
`submitted` are history or bounds. `remade` is history too: the servers on which `Make`
has run again. The properties that speak of what a server has done name it, because
such a server has done it and forgotten.

| Action | Code | Remarks |
|---|---|---|
| `Start`, `ReceiveForwardedCommand` | `Start` | three outcomes: forward, drop, pre-prepare |
| `sendRPCs` | `sendRPCs` | dials all peers first, or ends the process; uses the view of the moment of sending |
| `replyToClient` | `replyToClient` | takes no lock; ends the process when the client cannot be dialled, which may happen at any time |
| `EnterHandler` | first line of a handler | see below |
| `HandlePrePrepareRPC`, `HandlePrepareRPC` | the same | the whole handler with `addLogEntry`, the pushes and `persist` |
| `HandleCommitRPC`, `HandleCommitRPC_Save` | rpcHandler.go:165-260, 258-265 | cut between `go replyToClient` and `persist`; `serverLock` is held in between |
| `HandleCommitRPC_Fatal` | rpcHandler.go:176-179 | the failed assertion |
| `HandleCheckPointRPC_Check`, `_Record` | rpcHandler.go:434-462, 464-480 | the two halves; a `log.Fatal`, a map race or a write to a missing map ends the process |
| `Crash` | – | a process stops for a reason of its own |
| `Make` | `Make` | in a new process, or in a running one, with the same result; in a running one not between the two steps of a commit |

Choices that matter:

- A handler pushes to `commandRecieved` before it takes the lock. Nothing but
  `Make` looks at the channel in between, so the push and the locked part are one
  step, except while `Make` may still run: then `EnterHandler` takes the push
  alone and `Make` may come between the two.
- A message is handled at most once, at any time, or never: without fairness a
  behaviour may stop anywhere, which is what a lost message amounts to.
- A server broadcasts equal COMMITs for one slot, one for each prepare it counts
  (rpcHandler.go:134-158), replies again and starts its checkpoint anew; all of these may
  be under way together. `msgs` and `outbox` are sets, so prepares, commits,
  confirmations and replies carry a `copy`, which is not sent: the Make their server came
  from, and the prepare or commit that caused them.
- The reply of `HandleCommitRPC` is the only message that can leave before `persist`: every
  other goes through `sendRPCs`, which takes `serverLock` first (privateHelper.go:206). So
  this handler alone is cut there, and a process may answer, stop and come back without its
  checkpoint number.
- Timestamps other than the command's, the client's address and the result are
  left out. `Reply` carries the slot and the command as history.
- The fields of `logEntry` that nothing reads back (`preprepare` is never
  assigned, `clientReplySent` only set on a copy) are left out.
- `commitArgs` holds only the server's own commit: the line that records others
  is commented out (rpcHandler.go:221).
- On disk, only the integers before the log can be read back: gob refuses
  `logEntry`, which has no exported field, and `persist` ignores the error.
  `ReadPBFTState` returns bytes of a closed mapping, so reading may fault.
- `Slot` bounds `sequenceNumber` in `StartPrePrepare`.

### `ViewChange` and the code

`VCNext` takes every step of `PBFT` but `Make`, and these:

| Action | Code | Remarks |
|---|---|---|
| `startViewChange` | privateHelper.go:58-61, 166-171 | `state` becomes CHANGING_VIEW and the arguments are made; at any server and time, `MaxStarts` times |
| `sendViewChange` | privateHelper.go:239-247 | to the leader of the next view only |
| `HandleViewChangeRPC` | rpcHandler.go:269-345 | `changeState` ends the process, or two calls inside `isChangingView` pay for its two Unlocks |
| `UnlockUnlocked` | privateHelper.go:22 | such a call gets to its own Unlock: the end of the process |
| `Return` | rpcHandler.go:11-14 | a handler that finds the view changing |

`changing` is `state = CHANGING_VIEW`. A handler may have asked `isChangingView`
before that: `early` are the requests that were in flight then, and their handlers may
go on. `owed` counts the Unlocks made on behalf of others; a process that
goes on keeps that many requests unanswered (`Survivors`). That a `changeState` needs
two others is what `RunningState` derives from the mutex (`LockDebt`) and `ViewChange` takes
as a guard. Handler calls are finer steps there and coarser ones here.

`TakeViewChange` has the whole body up to the NEW_VIEW. Its last part is never
reached (`ViewNeverMoves`): `createPreprepareMessages` is modelled by when it returns.
It ends the process when a slot is prepared, because it asserts the type of
`logEntry.preprepare`, which nobody assigns; the infinities that bound its loop
(privateHelper.go:392) do not change that.

### `RunningState` and the code

The loop's `select` has an action per case, and one each for the lock, the write and the
unlock that follow. After CHANGING_VIEW comes `startViewChange`, which takes `serverLock`
twice (privateHelper.go:168, and 206 in `sendRPCs`) and may end the process there. `isChangingView` and `changeState` are taken apart down to mutex
operations, since what they interleave with is the point. A handler call
goes through `isChangingView`, its push to `commandRecieved`, `serverLock`, and its push
under the lock. What it decides is left open, with one restriction taken from the code:
a backup accepts a commit only after some pre-prepare. COMMITs are taken to have the
asserted type. `HandlePrepareRPC` and `HandleCheckPointRPC` do nothing here that the
calls modelled do not do. The case of `viewChangeComplete` is left out: nobody sends there.

### `ClientLoop` and the code

`runClient` calls `Make` on each server in turn and ends if one cannot be dialled; then
it waits for a reply or its timer, and issues a command after either. Replies come from
an earlier client's commands (`OldReplies`; the servers outlive a client, whose address
is fixed) or from this one's. The comment "the first command to the servers"
(client.go:125) stands above the timer and not above a call, so the first command
waits for an old reply or for the time-out, and the time-out blocks.

### `Walker`, `Hash` and the code

`visit` is recursive, and each value has a loop over its parts. `Walker` keeps the calls
that have not returned on a stack; a step starts a call (`VisitPart`), ends one
(`Return`), or hands what one returned to its caller (`TakeSum`, `TakeError`). The values
are a constant: what kind each is, and the sequences in which `visit` may take its
parts, more than one for a map. A value may have any shape and nest to any depth. `Hash`
is the same algorithm as a function `hash` of a value, with the results of all parts at hand
and a map in one of its orders; `WalkComputesHash` says that a walk returns the same
whatever orders it meets. `Trees` has values as trees, for `MCHash`, which walks them, and
for `MCPBFT`, which takes the digests of its commands from `hash`.

## 3. Runs

Every run has `CHECK_DEADLOCK FALSE`: the system stops when all messages are
handled or all channels are full, and the loops stop in their timers. `constants.go`
sets four servers; the code is written for `len(pbft.peers)`, and some runs take three
(f = 0, a quorum of one) to reach deeper with two slots.

| Run | Instance | Shows |
|---|---|---|
| `normal_case` | `ViewChange`, 4 servers, 2 commands, 2 slots, one view change started | `VCTypeOK`, `SlotAgreement`, `ViewNeverMoves`, `CertificateBacked`, `ImplementsSequencedLog`, `PreparedCarried` |
| `failures` | 3 servers, 2 commands, one crash, one further `Make` | `TypeOK`, `DurableCounters`, `NothingExecuted`, `AgreementWhileLeaderStays`, `PrepareBacked`, `SlotStable`, `SequencedAcrossRestarts` |
| `commit_phase` | 4 servers, 1 command, assertable COMMITs | `ReplyBacked`, `CheckpointBacked` |
| `checkpoints` | 3 servers, 2 commands, assertable COMMITs | `NewestCheckPointStays`, `LastCheckpointRetained`, `RegisterCoversReplies`, `NoBlockUnderLock`, `DurableCounters` |
| `progress` | 3 servers, 2 commands at either of two servers, fairness, no constraint | `LoggedEverywhere`, `SubmittedOrdered`, `NothingLost` |
| `server_state` | `RunningState`, 2 pre-prepares, 2 commits, 1 view change, both timers, fairness | `TypeOK`, `LockDebt`, `NeverStartsViewChange`, `RestsOnce`, `ChangeStays`, `NoCircularWait`, `ChangeEndsServer`, `LockedPushEnds` |
| `client_loop` | `ClientLoop`, 2 servers, up to 4 commands, fairness | `TypeOK`, `CommandsFollowReplies`, `LateReplyIsHarmless`, `QuietClientBlocks` |
| `hash` | `Walker`, values nested to depth two, fairness | `TypeOK`, `CallersNeverPanic`, `DigestsCoincide`, `WalkComputesHash`, `WalkEnds` |

What the passing runs say of the code:

- Although digests do not tell commands apart, the leader's order is the only one, also
  while handlers return because a view change has started.
- A backup that starts again loses its log and keeps the leader's order all the same: what it
  logs anew is what the leader logged. Only the leader's own restart breaks agreement.
- Although one commit is enough for a reply, a replied command is logged by 2f + 1
  servers. With the COMMIT type as written nobody ever executes anything.
- Although the last checkpoint is not the largest and pruning forgets its argument, the
  checkpoint a view change would send is there.
- A confirmation that is looked up without the lock and recorded under it may find its
  checkpoint gone, which ends the process, but only where a later checkpoint has taken its
  place.
- Although every request is sent once and no answer is looked at, nothing on its way is lost or
  refused as long as those it concerns neither stop nor start again.
- Although prepared means *exactly* a majority, a VIEW_CHANGE of four servers names every
  prepared slot, and only slots a quorum holds. But nobody ever accepts one: the index of
  the new leader is compared with the view number (rpcHandler.go:298).
- The timer loop never gets as far as a view change, since it drains a timer twice; it
  goes back to IDLE at most once, and the next command blocks it. Until it blocks, a handler
  that waits for it under `serverLock` gets through: the two never wait for each other,
  even after a `changeState` has unlocked what others locked.
- `changeState` does not protect anything: a server that survives one has two more
  calls inside, and one of those ends it.
- The client stops issuing commands as soon as a reply takes longer than its timer, and
  not before. The race of a reply against the timer is harmless.
- Every value has the digest 0. A struct is never looked at beyond its own name: the error
  every string comes back with ends its visit, is dropped, and leaves the sum 0.
- A crash loses no counter of a server that does not lead, but for the checkpoint number
  between a commit's reply and its save.
- A `changeState` is overwritten only by a loop that had read `state` before it.

### Findings

Four runs exist to refute what a comment or document says of the servers:

| Run | Says | Does |
|---|---|---|
| `commit_after_quorum` | rpcHandler.go:146, the commit phase comes "after 2F + 1 replies" | it comes with the first prepare (134) |
| `unstarted_checkpoint` | rpcHandler.go:453, "return if you do not have this checkpoint started" | the process ends (456). COMMITs have the asserted type in this run: as written, no server gets as far |
| `failures_tolerated` | design_spec:8, F servers can fail | a peer that cannot be dialled ends the next sender (privateHelper.go:264) |
| `agreement_across_restart` | design_spec:52, state is persistent | a leader's number is not saved (pbft.go:89) and given out again. `Make` runs on the live leader in the trace, since no process stops in this run; a new process reads back the same |

And six properties that hold contradict what the repository says of itself:

| Property (run) | Says | Does |
|---|---|---|
| `ViewNeverMoves` (`normal_case`) | rpcHandler.go:296-297, 316, 335: who is not supposed to lead is refused, and with a majority the new view goes to everyone | the leader's index is compared with the view (298), and the rightful leader is refused |
| `NothingExecuted` (`failures`) | rpcHandler.go:194-195: replicas accept signed commits and insert them in their log | the type asserted (176) is not the one sent (147); the insertion is commented out (221) |
| `LastCheckpointRetained` (`checkpoints`) | rpcHandler.go:470: a stable checkpoint deletes all those before it | pruning looks at the last number, not at its argument (privateHelper.go:380); with slot 1 executed before slot 0, checkpoint 0 outlives the stable checkpoint 1 |
| `NeverStartsViewChange` (`server_state`) | constants.go:29: "time for initiating view change" | the time-out drains its timer twice and waits for ever (privateHelper.go:54) |
| `CommandsFollowReplies` (`client_loop`) | client.go:125: "the first command to the servers" | a timer is made there and nothing is sent; its time-out blocks (144) |
| `DigestsCoincide` (`hash`) | hashstructure.go:49-55: exported fields change the hash, tags control it | every digest is 0 (161, 239-243) |

Known from reading the code, and without a run: a second commit makes a
server reply again and start its checkpoint anew (rpcHandler.go:221-250); with a full
`commandRecieved` every later request blocks for ever (an exception in
`LoggedEverywhere`); a client that is gone ends every server that replies to it
(privateHelper.go:157); a confirmation whose checkpoint was pruned between check and lock
panics (rpcHandler.go:465, reached in `checkpoints`; `NewestCheckPointStays` bounds the
damage); checkpoints stop after the first interval (rpcHandler.go:241).

### Bounds

- `Slot = {0, 1}`, two commands of one client with different timestamps: two slots
  are the fewest for reordering between slots, pruning of one checkpoint by
  another and two commands competing for one slot. `commit_phase` has one: its
  properties speak of a slot at a time.
- `ChanCap`: 3 in the runs of the code as written, where a handler then meets a full
  channel (in `progress` before the second pre-prepare, if other requests come first); 4
  to 6 where all messages must fit. The code has 10. In `server_state` it is 1, so that two
  calls are enough to make one wait.
- `MaxInFlight` (4 to 6) is a state constraint of the safety runs. `InFlight` counts each
  request in flight, and the goroutines of one server and phase that have not sent yet as
  one. One broadcast among four servers is three requests and among three servers two, so
  at 4 two broadcasts of three servers overlap in full (`failures`, `checkpoints`), and at 5
  one of four servers does with part of another (`normal_case`). `progress` has no
  constraint, as liveness must not. What needs more messages at once is covered by the
  theorems, which know no bound.
- `InFlightToStable` is the constraint of `commit_phase` and `unstarted_checkpoint`: at most
  5 requests in flight, however many goroutines have not sent; of the running servers' COMMIT
  broadcasts at most one is followed, and at most one server has stopped. So four servers get
  as far as a checkpoint that 2f others confirm, under the quorum of the code: one COMMIT
  broadcast reaches three servers, each starts the checkpoint and two confirm it to the
  third.
- `MaxStarts = 1`: at most one server starts a view change in `normal_case`; the theorems
  hold for any number.
- `MaxCrash`, `MaxMake`: at most one each. Further stops follow from `log.Fatal`.
- `CheckPointInterval = 100`: both slots are in the first interval, which is the
  case in which checkpoints are taken.
- `server_state`: four calls that go through `isChangingView` are two more than a
  `changeState` needs to survive, and two pre-prepares and commits are the fewest for a
  rest with a command left and for a second one.
- `client_loop`: three old replies fill the channel of two; four replies to a command are
  what four servers send. Two servers are enough for a bootstrap that fails half way.
- `MaxDepth = 2` in `hash`: every branch of `visit` as a part of every other, three calls
  deep, and maps of two keys in both orders.

### Fairness

`FairSpec` of `PBFT` adds weak fairness for each server's goroutines and handlers: the Go
scheduler runs what is runnable, and TCP delivers to a live process (`sendRPCs`
has dialled it). Clients, crashes and `Make` are under none. With `CommitArg`
servers stop in most behaviours; the liveness properties say what holds until
then, which is why they name a stopped server as an alternative.

`RunningState` has it for the loop and for each handler call once it has begun; whether
a call is made is nobody's duty, nor is it the timer's to fire. Go's mutexes do not starve
their waiters, but weak fairness is enough here: each lock is free again for good, or
the process has ended. `ClientLoop` has it for the loop and the timer, and `Walker` for
its only goroutine.

## 4. Proofs

All hold for every `N` (except where said), every set of commands, slots and clients,
every digest, both values of `SigCarried` and `CommitType`, and every number of crashes,
from the assumptions named in the modules.

| Theorem | Module | Statement | Condition |
|---|---|---|---|
| `TypeCorrect` | `PBFTProofs` | `Spec => []TypeOK` | |
| `SlotsStable` | `PBFTProofs` | `Spec => SlotStable` | |
| `CountersCorrect` | `PBFTProofs` | `Spec => []DurableCounters` | |
| `OrderCorrect` | `PBFTProofs` | `Spec => [](leader(0) \notin remade => OrderInv)` | |
| `AgreementUnlessLeaderRestarts` | `PBFTProofs` | `Spec => []AgreementWhileLeaderStays` | |
| `AgreementWithoutRestart` | `PBFTProofs` | `Spec => []SlotAgreement` | `MaxMake = 0` |
| `PreparesUnlessLeaderRestarts` | `PBFTProofs` | `Spec => []PrepareBacked` | |
| `ChannelsCorrect` | `QuorumProofs` | `Spec => []NoBlockUnderLock` | |
| `NothingExecutedCorrect` | `QuorumProofs` | `Spec => []NothingExecuted` | |
| `EntriesSound` | `QuorumProofs` | `Spec => []SoundLogs` | |
| `LastCheckpointCorrect` | `QuorumProofs` | `Spec => []LastCheckpointRetained` | slots below `CheckPointInterval` |
| `RepliesCorrect` | `QuorumProofs` | `Spec => []ReplyBacked` | |
| `RegistersCorrect` | `QuorumProofs` | `Spec => []RegisterCoversReplies` | |
| `CheckpointsCorrect` | `QuorumProofs` | `Spec => []CheckpointBacked` | |
| `NewestCheckPointCorrect` | `QuorumProofs` | `Spec => []NewestCheckPointStays` | |
| `NothingLostCorrect` | `DeliveryProofs` | `Spec => []NothingLost` | |
| `ViewNeverMovesCorrect` | `ViewChangeProofs` | `VCSpec => []ViewNeverMoves` | N > 1 |
| `ViewChangeTypeCorrect` | `ViewChangeProofs` | `VCSpec => []VCTypeOK` | N > 1 |
| `AgreementThroughViewChanges` | `ViewChangeProofs` | `VCSpec => [](SlotAgreement /\ PrepareBacked)` | N > 1 |
| `PromisesThroughViewChanges` | `ViewChangeProofs` | `VCSpec => [](ReplyBacked /\ CheckpointBacked /\ NoBlockUnderLock /\ DurableCounters /\ NothingExecuted) /\ SlotStable` | N > 1 |
| `ExecutionThroughViewChanges` | `ViewChangeProofs` | `VCSpec => [](RegisterCoversReplies /\ LastCheckpointRetained)` | N > 1, slots below `CheckPointInterval` |
| `NewestThroughViewChanges` | `ViewChangeProofs` | `VCSpec => []NewestCheckPointStays` | N > 1 |
| `CertificatesCorrect` | `ViewChangeProofs` | `VCSpec => []CertificateBacked` | N > 1 |
| `PreparedCarriedCorrect` | `ViewChangeProofs` | `VCSpec => PreparedCarried` | N = 4 |
| `SequencedUntilLeaderRestarts` | `RefinementProofs` | `Spec => SequencedAcrossRestarts` | |
| `SequencedLogImplemented` | `RefinementProofs` | `Spec => ImplementsSequencedLog` | `MaxMake = 0` |
| `SequencedLogThroughViewChanges` | `RefinementProofs` | `VCSpec => ImplementsSequencedLog` | N > 1 |
| `ServerTypeCorrect` | `RunningStateProofs` | `Spec => []TypeOK` | |
| `LockDebtCorrect` | `RunningStateProofs` | `Spec => []LockDebt` | |
| `NoViewChangeStarted` | `RunningStateProofs` | `Spec => []NeverStartsViewChange` | |
| `RestsOnceCorrect` | `RunningStateProofs` | `Spec => []RestsOnce` | |
| `ChangeStaysCorrect` | `RunningStateProofs` | `Spec => ChangeStays` | |
| `NoCircleCorrect` | `RunningStateProofs` | `Spec => []NoCircularWait` | |
| `ClientTypeCorrect` | `ClientLoopProofs` | `Spec => []TypeOK` | |
| `CommandsCorrect` | `ClientLoopProofs` | `Spec => []CommandsFollowReplies` | |
| `LateRepliesCorrect` | `ClientLoopProofs` | `Spec => LateReplyIsHarmless` | |
| `WalkTypeCorrect` | `WalkerProofs` | `Spec => []TypeOK` | |
| `DigestsCorrect` | `WalkerProofs` | `Spec => []DigestsCoincide` | |
| `CallersCorrect` | `WalkerProofs` | `Spec => []CallersNeverPanic` | |
| `HashCorrect` | `WalkerProofs` | `Spec => []WalkComputesHash` | |

Restarts are inside the theorems. A property of what servers have done says "or `Make` has
run again on it" of a server whose log may be gone (`Backers`, `StandsBy`, `Server \
remade`), and the ones that rest on the leader's order say "unless it has on the
leader". `agreement_across_restart` shows why they must: a leader that starts again gives
a sequence number out twice. `MaxMake = 0` is left only where the statement has no such clause,
`SlotAgreement` and `ImplementsSequencedLog`. `VCNext` never takes `Make`, so the
theorems about `VCSpec` need no condition of the kind.

**Order.** Neither agreement nor `PrepareBacked` is inductive: nothing in them says
where a pre-prepare in flight comes from. `OrderInv` adds that. There is one view.
The leader's sequence number is above every slot it has logged (`LeaderCounts`), so
it never meets an occupied slot. Every pre-prepare in flight or about to be sent
names what the leader's log holds, every prepare comes from a server that has logged
the slot (`RequestsFollow`), and every entry has the leader's command and prepares of
servers that have the slot (`LogsFollow`). Requests stay true because no step but `Make`
forgets an entry (`Keeps`). All of it is under `leader(0) \notin remade`: `Make` on another
server takes away entries and only ever makes "has logged" into "has logged or started
again", and what such a server logs next comes from a pre-prepare, so it agrees. Each handler then has a lemma (`OrderStart`,
`OrderPrePrepare`, ...). That a backup's digest check is void plays no part, so the
proof covers a working hash too.

**Types, channels, counters.** The type proof has a lemma per handler; `WaitStep` shows
apart that a waiting request is one in flight. `DurableCounters` is inductive with the
types; it says what `serverLock` has to do with the disk, so the two steps of a commit need
no invariant of their own. For `NoBlockUnderLock`, `ChannelsFit` counts the handlers that wait for the lock as
well: each has its place in `commandRecieved` and has not pushed yet. `SlotStable` follows
from the types step by step: an entry of the current view is one `addLogEntry`
refuses to replace.

**Quorums.** `prepareArgs` is a map by sender in the code and a set here: `SoundLogs`
says a set has one prepare of each sender, so counting prepares counts
servers. With `OrderInv` that is `AgreedInv`, under which a prepared slot is held by
2f + 1 servers. `RepliesBacked` says so of every reply and of every reply still to be
sent, and holds on because holders stay holders or start again; `Covers` adds that the register
has caught up; `CheckPointsSound` follows a confirmation from the goroutine through the
request, the pending check and the recorded set. `NothingExecuted` is inductive as it stands
where COMMITs have their sender's type (`Idle`).

**Registers with f = 0.** Then a server's own commit is a majority, and `addLogEntry` would
answer a pre-prepare that came twice before any COMMIT has moved the register. None does:
`Unrepeated` says that a slot has at most one pre-prepare about to be sent and, once it is
sent, at most one in flight to each server, and that who has logged the slot has none coming
unless it has been started again. Hence `StartedAgain` in the clause of `JobOrigin` on
answers of that kind.

**The newest checkpoint.** Pruning removes what is below the *last* number, which is not the
largest, so that the newest checkpoint survives needs `LastKept`: a server that has any
checkpoint has the one the last number names. Then whatever a step removes is older than one
it keeps, and only `Make` leaves a server without a checkpoint as late as one it had
(`LaterStay`). A confirmation that waits for the lock found its checkpoint when it was
looked up (`ChecksFind`), so it, or a later one, is still there.

**Delivery.** `NothingLost` is inductive together with `AllGenuine`: every pre-prepare carries
the leader's signature and the digest of its command, so none is refused for them. A goroutine
leaves the outbox only by sending to all its destinations or with its process (`JobsGo`), a
request leaves `msgs` only when its receiver handles it or at a server that has stopped
(`MessagesGo`), and the handler of a pre-prepare logs it (`PrePrepareLogs`): the branches that
would not are excluded by the invariants. `StartTakes` says that a command is forwarded, logged
or older than the register. That the steps do happen is fairness, and stays with TLC.

**View change.** `Still` is `ViewNeverMoves` with the facts that every VIEW_CHANGE names
view 1 and that the leader of view 1, server 1, is nobody's view number. Then, for the
variables of `PBFT`, each step of `VCNext` is a step of `Next`, the end of a process or a
handler that returns (`StepsBelow`); the latter two are `Quiet`: they only take requests
and goroutines away. So the invariants above carry over, `Promises` and `Covers` too. `Certificates` is
`CertificateBacked` with prepares that remain counted. For `PreparedCarried`,
`LeaderAbstains` says that no prepare of the leader is sent or counted: at most three of
four servers send one, and three is the majority asked for.

**Refinement.** `SequencedLog` gives a command to one slot only, so the proof has to show
that a command is never in two places. `Tokens` does: each command is not submitted yet, or in
one forwarding goroutine, or in one request to the leader, or logged, and never two of
these. `LeaderFills` says the leader's log has no gap. `Effect` lists what a step may do to
the commands in the logs: nothing, one slot assigned by the leader, or one slot learned by
a backup, or one backup's slots gone, and each is a step of `SequencedLog` or its `Forget`.

**The timer loop.** `LoopInv` ties the loop's place to its timer: a rest leaves the timer
stopped for good, so whatever leaves IDLE blocks. `ChangeSeen`, a change that finds the loop
past its decision, is inductive, as each case of the select that ends in a write looks at
`state` first. For `LockDebt`, `Debt` is the same sum
written with counts of calls by their place; one lemma (`CountMove`) says how a count
changes when one call moves, and each action adds to both sides alike. `NoCircularWait`
rests on it: while the loop waits for a mutex that is locked, the debt says that a call is
inside, and such a call unlocks without waiting for `serverLock`. `LockInv` adds that
`serverLock` is held by exactly the call that pushes under it, and that a call which got
there has found room in a channel before, so that the channels have room at all.

**The client.** `Inv` says that the select is reached only with a timer that is
running or has a value in its channel. `CommandsFollowReplies` is then inductive, and no
receive from `resultChannel` can block.

**The walk.** `WalkInv` says of every call on the stack that it has summed nothing yet, of
what was returned that its sum is 0, and of a struct that its call is the innermost one
and no further than its name, which is a string and returns an error (`AtName`). So a
struct's call ends without an error, and a map's passes none on. The stack may have any
height: `Visiting`, `TopReplaced` and `CallGone` say what a step does to it.

**The walk computes the hash.** `hash` is defined by an equation, and values may nest without
end, so the first thing to prove is that some function satisfies it (`HashEquation`). Only
slices pass errors on. `Fails`, the least set closed under that, is the set of values with an
error (`FailsFixed`, as for any monotone operator), and with the sum 0 everywhere this is a
solution, whatever the order of a map. Hence `HashForms`, what `hash` gives for each
kind of value. A sum of a sequence of zeros is 0 by the least index at which it would not be
(`LeastOf`, `OrderedZero`, `UnorderedZero`), which does the work of an induction. `SumsInv`
then says of the walk that each call is of the part its caller is at, that a slice has met no
error among the parts it is past, and that what was returned is the hash of its value; each
action has a lemma (`HashSummed` and so on).

Model-checked only, and for good: the liveness properties `LoggedEverywhere`,
`SubmittedOrdered`, `ChangeEndsServer`, `LockedPushEnds`, `QuietClientBlocks` and `WalkEnds`:
fairness and `ENABLED` are out of the prover's reach. `NothingLostCorrect` is the safety half
of the first two, `LockDebtCorrect` of the third and `NoCircleCorrect` of the fourth.

## 5. Not modelled

- `HandleNewViewRPC` and the NEW_VIEW phase of `sendRPCs`: no NEW_VIEW is ever made,
  which is `ViewNeverMovesCorrect`. What the handler would do with one (it asserts
  `NewView` on VIEW_CHANGE arguments, rpcHandler.go:385, and panics) cannot happen.
- The entries `createPreprepareMessages` would make: only when it returns is modelled.
- The `viewChangeComplete` case of `runningState`: nobody sends to that channel.
- Key generation in `runClient`: no state of the protocol.
- Tags, sets and options of the hash: no caller uses them.
- Snapshots, `Copy`, sizes of the persister, `GetState`, `main`, the Raft stub,
  the includable interfaces: no caller, no state, or no body.
- A `Make` while a view change is under way, which sets `state` back to IDLE without the
  mutex: restarts are a matter of `failures`, view changes of `normal_case`.
- Servers that lie: every message here is one the code makes.

## 6. Plan

What is left is small. `RunningState` could be composed with `PBFT` instead of leaving the
handlers' decisions open, which would tie `uncommittedCommands` to the log; and should a
later commit move the view or revive NEW_VIEW, `ViewNeverMoves` is the first property to
fail, and `HandleNewViewRPC` the first thing to model.
