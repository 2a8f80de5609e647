--------------------------- MODULE PBFTProperties ---------------------------
(***************************************************************************)
(* What the servers of module PBFT guarantee.                              *)
(***************************************************************************)
EXTENDS PBFT

EnvType ==
  /\ running \in [Server -> BOOLEAN]
  /\ failed \subseteq Server /\ submitted \subseteq Command
  /\ makes \in Nat /\ remade \subseteq Server
  /\ disk \in [Server -> Saved] /\ serverLock \in [Server -> BOOLEAN]
NetType ==
  /\ \A m \in msgs :
       m.to \in Server /\ [phase |-> m.phase, args |-> m.args] \in Request
  /\ outbox \in [Server -> SUBSET Job]
  /\ replies \subseteq ReplyArg
WaitType ==
  waiting \subseteq {m \in msgs : m.phase \in {"PRE_PREPARE", "PREPARE", "COMMIT"}}
LogType ==
  /\ view \in [Server -> Nat] /\ sequenceNumber \in [Server -> Nat]
  /\ serverLog \in [Server -> [Slot -> Entry \cup {NoEntry}]]
  /\ clientRegisters \in [Server -> [Client -> Nat]]
CkptType ==
  /\ lastCheckPointSeqNumber \in [Server -> Nat]
  /\ checkPoints \in [Server -> [Slot -> CheckPointInfo \cup {NoCheckPoint}]]
  /\ checking \in [Server -> SUBSET CheckPointArg]
ChanType ==
  /\ commandRecieved \in [Server -> Nat]
  /\ newValidCommad \in [Server -> Nat] /\ commandExecuted \in [Server -> Nat]

\* Every variable has the type its Go declaration gives it, and every message the
\* argument type its phase calls for.
TypeOK == EnvType /\ NetType /\ WaitType /\ LogType /\ CkptType /\ ChanType

-----------------------------------------------------------------------------
Logged(s, n) == serverLog[s][n] # NoEntry
Holds(s, n, c) == Logged(s, n) /\ serverLog[s][n].message = c
Prepared(s, n) ==
  Logged(s, n) /\ Cardinality(serverLog[s][n].prepareArgs) >= calculateMajority

\* What a server has done stands until Make runs again on it and forgets.
Recorded(s, n) == Logged(s, n) \/ s \in remade
Backers(n, c) == {s \in Server : Holds(s, n, c) \/ s \in remade}
StandsBy(s, n) == Prepared(s, n) \/ s \in remade

\* Two servers that log a slot in the same view log the same command there,
\* although the digest the prepares compare does not tell commands apart: the
\* leader never gives a sequence number out twice.
SlotAgreement ==
  \A s, t \in Server, n \in Slot :
    /\ Logged(s, n) /\ Logged(t, n)
    /\ serverLog[s][n].view = serverLog[t][n].view
    => serverLog[s][n].message = serverLog[t][n].message

\* Restarts of any other servers than the leader leave agreement alone, in new
\* processes or in running ones: what such a server logs anew is again what the
\* leader logged, although its number comes from its disk and its log is gone.
AgreementWhileLeaderStays == leader(0) \notin remade => SlotAgreement

\* A prepare a server has counted for a slot comes from a server that logged the
\* same command in that slot: nobody prepares before it has pre-prepared, and no
\* prepare is counted against another command.
PrepareBacked ==
  leader(0) \notin remade =>
    \A s \in Server, n \in Slot :
      Logged(s, n) =>
        \A p \in serverLog[s][n].prepareArgs :
          p.SenderIndex \in Backers(n, serverLog[s][n].message)

\* Why these hold while Make does not run again on the leader: there is one view, its
\* leader logs a command before its pre-prepare leaves and every other server copies
\* that entry, and a server logs before its prepare leaves.
Announced(q) ==
  q.phase = "PRE_PREPARE" =>
    /\ q.args.arg.View = 0
    /\ Holds(leader(0), q.args.arg.SequenceNumber, q.args.arg.Message)
Vouched(q) ==
  q.phase = "PREPARE" => Recorded(q.args.arg.SenderIndex, q.args.arg.SequenceNumber)

OneView == \A s \in Server : view[s] = 0
LeaderCounts == \A n \in Slot : Logged(leader(0), n) => n < sequenceNumber[leader(0)]
LogsFollow ==
  \A s \in Server, n \in Slot :
    Logged(s, n) =>
      /\ serverLog[s][n].view = 0
      /\ Holds(leader(0), n, serverLog[s][n].message)
      /\ \A p \in serverLog[s][n].prepareArgs : Recorded(p.SenderIndex, n)
RequestsFollow ==
  /\ \A m \in msgs : Announced(m) /\ Vouched(m)
  /\ \A s \in Server : \A job \in outbox[s] : Announced(job) /\ Vouched(job)

OrderInv == TypeOK /\ OneView /\ LeaderCounts /\ LogsFollow /\ RequestsFollow

\* Unless Make runs on it, what a server has logged for a view it is in is never
\* replaced, and no prepare it has counted is forgotten.
SlotStable ==
  [][\A s \in Server, n \in Slot :
       /\ Logged(s, n) /\ serverLog[s][n].view = view[s]
       /\ makes' = makes \/ s \notin remade'
       =>
         /\ serverLog'[s][n] # NoEntry
         /\ serverLog'[s][n].message = serverLog[s][n].message
         /\ serverLog[s][n].prepareArgs \subseteq serverLog'[s][n].prepareArgs]_vars

\* The handlers push to newValidCommad and commandExecuted while they hold
\* serverLock, and nobody receives: the pushes never block, because each handler
\* run first took a place in commandRecieved, which has the same capacity.  (Where
\* Make has run again, it may have replaced the channel in between.)
NoBlockUnderLock ==
  \A s \in Server \ remade :
    /\ newValidCommad[s] + commandExecuted[s] <= commandRecieved[s]
    /\ commandRecieved[s] <= ChanCap

\* With COMMIT messages of the type their senders give them no command is ever
\* executed, whoever stops or starts again: no register, no checkpoint and no saved
\* checkpoint number moves, and nobody asks another to confirm a checkpoint.
\* (rpcHandler.go:194 has replicas accept a signed commit of their view and insert it in
\* their log; the type asserted before ends the process.)
NothingExecuted ==
  CommitType # "PrepareCommandArg" =>
    \A s \in Server :
      /\ commandExecuted[s] = 0
      /\ lastCheckPointSeqNumber[s] = 0 /\ disk[s].lastCheckPointSeqNumber = 0
      /\ \A c \in Client : clientRegisters[s][c] = 0
      /\ \A n \in Slot : checkPoints[s][n] = NoCheckPoint
      /\ \A job \in outbox[s] : job.phase # "CHECK_POINT"

\* A client that has a reply for a command knows that 2f + 1 servers have logged
\* it in the same slot, and can have lost it since only where Make has run again.
ReplyBacked ==
  leader(0) \notin remade =>
    \A r \in replies :
      Cardinality(Backers(r.SequenceNumber, r.Message)) >= calculateMajority

\* A server whose checkpoint confirmation another one has counted has itself
\* prepared that slot, so a checkpoint that 2f others confirm is one of a slot
\* that 2f + 1 servers have prepared: nobody vouches for a state it cannot reach.
CheckpointBacked ==
  leader(0) \notin remade =>
    \A s \in Server, n \in Slot :
      checkPoints[s][n] # NoCheckPoint =>
        LET info == checkPoints[s][n]
        IN /\ \A t \in info.ConfirmedServers : t # s /\ StandsBy(t, n)
           /\ info.IsStable =>
                Cardinality({t \in Server : StandsBy(t, n)}) >= calculateMajority

\* A server that has executed a command still has the checkpoint that
\* lastCheckPointSeqNumber names and a view change message takes its certificate
\* from, although the last checkpoint need not be the largest and a stable one
\* removes others.  It would not if a stable checkpoint removed "all those that are
\* before this one", as rpcHandler.go:470 has it: slot 1 may be executed, and stable,
\* before slot 0.  removeStallCheckpoints leaves its argument alone.  (While every slot
\* is in the first checkpoint interval.)
LastCheckpointRetained ==
  \A s \in Server :
    commandExecuted[s] > 0 =>
      /\ lastCheckPointSeqNumber[s] \in Slot
      /\ checkPoints[s][lastCheckPointSeqNumber[s]] # NoCheckPoint

\* A confirmation is checked before the lock and recorded under it, and in between a
\* commit or another confirmation may change the checkpoints.  It ends its server, by
\* writing to a checkpoint that is gone, only when the server has a later one: the
\* newest one it may find it has found.  (Where Make has run again, it has none.)
NewestCheckPointStays ==
  \A s \in Server \ remade : \A a \in checking[s] :
    \E k \in Slot : k >= a.SequenceNumber /\ checkPoints[s][k] # NoCheckPoint

\* A server never gives a client a reply for a command newer than the timestamp it
\* remembers for that client, whatever the order in which the commands' commits
\* arrive; so Start drops what is older than any command replied to.  (With f = 0 a
\* leader that is started again can make others reply to what they never executed.)
RegisterCoversReplies ==
  numFailableServers > 0 \/ leader(0) \notin remade =>
    \A s \in Server \ remade :
      LET mine == {r \in replies : r.ServerID = s} \cup
                  {job.args : job \in {j \in outbox[s] : j.phase = "REPLY_TO_CLIENT"}}
      IN \A r \in mine :
           clientRegisters[s][r.Message.ClientID] >= r.Message.Timestamp

\* A crash of a server that does not lead loses none of its counters, and no server
\* loses the number of its last checkpoint: whoever moves them saves them before the
\* requests it starts can leave, which need the lock.  Except in HandleCommitRPC after
\* the checkpoint is noted and before persist(): its reply, which needs no lock, may be
\* with the client when a crash takes that number.  A leader's sequence number may be
\* ahead of its disk, never behind it.
DurableCounters ==
  \A s \in Server :
    /\ ~serverLock[s] => disk[s].lastCheckPointSeqNumber = lastCheckPointSeqNumber[s]
    /\ disk[s].sequenceNumber <= sequenceNumber[s]
    /\ leader(view[s]) # s => disk[s].sequenceNumber = sequenceNumber[s]

\* Requests are sent once, and none is answered: so no forwarded command may be dropped,
\* and no pre-prepare refused, on its way.  A command a client has issued is on its way to
\* the leader, logged by it or older than one it has executed, unless some server has
\* stopped or started again; and what the leader logs has reached each other server, is
\* still to be sent or is on its way there, unless one of the two has.
Interrupted(s) == ~running[s] \/ s \in remade
UnderWay(c) ==
  \E q \in msgs \cup UNION {outbox[s] : s \in Server} :
    q.phase = "FORWARD_COMMAND" /\ q.args.arg = c
Announces(q, n) == q.phase = "PRE_PREPARE" /\ q.args.arg.SequenceNumber = n

NothingLost ==
  /\ \A c \in submitted :
       \/ UnderWay(c)
       \/ \E n \in Slot : Holds(leader(0), n, c)
       \/ clientRegisters[leader(0)][c.ClientID] > c.Timestamp
       \/ \E s \in Server : Interrupted(s)
  /\ SigCarried /\ ~Interrupted(leader(0)) =>
       \A s \in Server, n \in Slot :
         Logged(leader(0), n) =>
           \/ Logged(s, n) \/ Interrupted(s)
           \/ \E job \in outbox[leader(0)] : Announces(job, n)
           \/ \E m \in msgs : m.to = s /\ Announces(m, n)

\* A command that the leader has logged is in the end logged by every server that
\* does not stop, unless the leader stops: no resending is needed.  Except at a server
\* whose commandRecieved is full: nobody empties it, so there the pre-prepare waits
\* for ever, at a process that looks alive.
LoggedEverywhere ==
  \A n \in Slot :
    Logged(leader(0), n) ~>
      \A s \in Server :
        \/ Logged(s, n) \/ commandRecieved[s] = ChanCap
        \/ ~running[s] \/ ~running[leader(0)]

\* A command a client gives to any server is in the end logged by the leader, or
\* older than one the leader has executed for that client, unless some server
\* stops: forwarding loses none, and needs no place in a channel.
SubmittedOrdered ==
  \A c \in Command :
    c \in submitted ~>
      \/ \E n \in Slot : Holds(leader(0), n, c)
      \/ clientRegisters[leader(0)][c.ClientID] > c.Timestamp
      \/ \E s \in Server : ~running[s]

\* The servers together keep one order of commands, assigned by the leader of
\* view 0 and copied by the others.
CommandAt(s) ==
  [n \in Slot |-> IF Logged(s, n) THEN serverLog[s][n].message ELSE NoEntry]

Sequenced ==
  INSTANCE SequencedLog WITH
    Learner <- Server \ {leader(0)}, None <- NoEntry,
    order <- CommandAt(leader(0)),
    known <- [s \in Server \ {leader(0)} |-> CommandAt(s)]

ImplementsSequencedLog == Sequenced!Spec

\* They keep it across restarts of any of the others, each of which makes one server
\* hold nothing again, and no other step of any server takes back what one holds or
\* lets it copy anything but what the leader logged.
SequencedAcrossRestarts ==
  /\ Sequenced!Init
  /\ [][leader(0) \notin remade' =>
          \/ [Sequenced!Next]_(Sequenced!vars)
          \/ \E s \in remade' : makes' = makes + 1 /\ Sequenced!Forget(s)]_vars
=============================================================================
