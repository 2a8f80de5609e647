-------------------------- MODULE RefinementProofs --------------------------
(***************************************************************************)
(* The servers implement SequencedLog, until Make runs again on the        *)
(* leader.                                                                 *)
(***************************************************************************)
EXTENDS ViewChangeProofs

-----------------------------------------------------------------------------
(* What a step does to the commands in the logs.                            *)

Leader == leader(0)
Order == CommandAt(Leader)

CountsAlike == sequenceNumber'[Leader] = sequenceNumber[Leader]

Same == CountsAlike /\ \A t \in Server : CommandAt(t)' = CommandAt(t)

Assigned(n, c) ==
  /\ n \in Slot /\ c \in Command
  /\ n = sequenceNumber[Leader] /\ Order[n] = NoEntry
  /\ sequenceNumber'[Leader] = n + 1
  /\ Order' = [Order EXCEPT ![n] = c]
  /\ \A t \in Server \ {Leader} : CommandAt(t)' = CommandAt(t)

Learned(s, n) ==
  /\ s \in Server \ {Leader} /\ n \in Slot
  /\ CommandAt(s)[n] = NoEntry /\ Order[n] # NoEntry
  /\ CommandAt(s)' = [CommandAt(s) EXCEPT ![n] = Order[n]]
  /\ CountsAlike
  /\ \A t \in Server \ {s} : CommandAt(t)' = CommandAt(t)

Forgot(s) ==
  /\ s \in (Server \ {Leader}) \cap remade' /\ makes' = makes + 1
  /\ CommandAt(s)' = [n \in Slot |-> NoEntry]
  /\ CountsAlike
  /\ \A t \in Server \ {s} : CommandAt(t)' = CommandAt(t)

LEMMA LeaderServes == Leader \in Server
  BY LeaderIsServer DEF Leader

\* The commands of a log with one entry replaced.
LEMMA EntryCommand ==
  ASSUME TypeOK, NEW s \in Server, NEW n \in Slot, NEW e, e # NoEntry,
         serverLog' = [serverLog EXCEPT ![s][n] = e]
  PROVE  /\ CommandAt(s)' = [CommandAt(s) EXCEPT ![n] = e.message]
         /\ \A t \in Server \ {s} : CommandAt(t)' = CommandAt(t)
  <1>1. \A t \in Server, k \in Slot :
          serverLog'[t][k] = IF t = s /\ k = n THEN e ELSE serverLog[t][k]
    BY DEF TypeOK, LogType
  <1>2. \A t \in Server \ {s} : CommandAt(t)' = CommandAt(t)
    BY <1>1 DEF CommandAt, Logged
  <1>3. CommandAt(s)' = [CommandAt(s) EXCEPT ![n] = e.message]
    <2>1. CommandAt(s)' = [k \in Slot |-> IF k = n THEN e.message ELSE CommandAt(s)[k]]
      BY <1>1 DEF CommandAt, Logged
    <2> QED BY <2>1 DEF CommandAt
  <1> QED BY <1>2, <1>3

LEMMA LogsAlike ==
  ASSUME UNCHANGED <<serverLog, sequenceNumber>>
  PROVE  Same
  BY DEF Same, CountsAlike, CommandAt, Logged

\* A logged slot has a command, and no room for another of view 0.
LEMMA LoggedCommands ==
  ASSUME OrderInv, NEW s \in Server, NEW n \in Slot
  PROVE  /\ Logged(s, n) <=> CommandAt(s)[n] # NoEntry
         /\ Logged(s, n) => CommandAt(s)[n] = serverLog[s][n].message
         /\ addLogEntry(s, 0, n) => ~Logged(s, n)
  <1>1. Logged(s, n) => serverLog[s][n].message \in Command
    BY DEF OrderInv, TypeOK, LogType, Logged, Entry
  <1>2. Logged(s, n) => serverLog[s][n].view = 0
    BY DEF OrderInv, LogsFollow
  <1> QED BY <1>1, <1>2, AbsentAssumption DEF CommandAt, addLogEntry, Logged

LEMMA StartEffect ==
  ASSUME OrderInv, NEW s \in Server, NEW c \in Command, StartBody(s, c)
  PROVE  Same \/ Assigned(sequenceNumber[Leader], c)
  <1> DEFINE n == sequenceNumber[s]
             e == logEntry(view[s], c, Digest[c])
  <1>1. CASE UNCHANGED <<serverLog, sequenceNumber>>
    BY <1>1, LogsAlike
  <1>2. CASE /\ leader(view[s]) = s /\ n \in Slot /\ addLogEntry(s, view[s], n)
             /\ serverLog' = [serverLog EXCEPT ![s][n] = e]
             /\ sequenceNumber' = [sequenceNumber EXCEPT ![s] = @ + 1]
    <2>1. s = Leader /\ view[s] = 0
      BY <1>2 DEF OrderInv, OneView, Leader
    <2>2. e # NoEntry /\ e.message = c
      <3>1. view[s] \in Nat /\ Digest[c] \in Nat
        BY DigestAssumption DEF OrderInv, TypeOK, LogType
      <3> QED BY <3>1, EntryType DEF logEntry
    <2>3. Order[n] = NoEntry
      BY <1>2, <2>1, LoggedCommands DEF Order
    <2> HIDE DEF e
    <2>4. /\ CommandAt(s)' = [CommandAt(s) EXCEPT ![n] = c]
          /\ \A t \in Server \ {s} : CommandAt(t)' = CommandAt(t)
      BY <1>2, <2>2, EntryCommand DEF OrderInv
    <2>5. sequenceNumber'[s] = n + 1
      BY <1>2 DEF OrderInv, TypeOK, LogType
    <2> QED BY <1>2, <2>1, <2>3, <2>4, <2>5 DEF Assigned, Order
  <1> QED BY <1>1, <1>2
          DEF StartBody, StartForward, StartDrop, StartPrePrepare, AdvanceSequenceNumber

LEMMA PrePrepareEffect ==
  ASSUME OrderInv, NEW s \in Server, NEW m \in msgs, HandlePrePrepareRPC(s, m)
  PROVE  Same \/ \E n \in Slot : Learned(s, n)
  <1> DEFINE a == m.args.arg
             n == a.SequenceNumber
             e == [logEntry(a.View, a.Message, a.Digest) EXCEPT
                     !.prepareArgs = {Vote(a.View, n, a.Digest, s, 0)}]
  <1>1. a \in PrePrepareArg /\ n \in Slot
    BY MessageFields DEF HandlePrePrepareRPC, Handles, OrderInv, TypeOK, PrePrepareArg
  <1>2. CASE UNCHANGED <<serverLog, sequenceNumber>>
    BY <1>2, LogsAlike
  <1>3. CASE /\ addLogEntry(s, a.View, n)
             /\ serverLog' = [serverLog EXCEPT ![s][n] = e]
             /\ sequenceNumber' = [sequenceNumber EXCEPT ![s] = @ + 1]
    <2>1. a.View = 0 /\ Holds(Leader, n, a.Message)
      BY DEF HandlePrePrepareRPC, Handles, OrderInv, RequestsFollow, Announced, Leader
    <2>2. CommandAt(s)[n] = NoEntry /\ ~Logged(s, n)
      BY <1>1, <1>3, <2>1, LoggedCommands
    <2>3. Order[n] = a.Message /\ Order[n] # NoEntry
      BY <1>1, <2>1, LeaderServes, LoggedCommands DEF Holds, Order
    <2>4. s # Leader
      BY <2>1, <2>2 DEF Holds
    <2>5. e # NoEntry /\ e.message = a.Message
      <3>1. e \in Entry
        <4>1. Vote(a.View, n, a.Digest, s, 0) \in VoteArg
          BY <1>1, VoteType DEF PrePrepareArg, OrderInv, TypeOK
        <4>2. logEntry(a.View, a.Message, a.Digest) \in Entry
          BY <1>1, EntryType DEF PrePrepareArg
        <4> QED BY <4>1, <4>2 DEF Entry
      <3> QED BY <3>1, AbsentAssumption DEF logEntry
    <2> HIDE DEF e
    <2>6. /\ CommandAt(s)' = [CommandAt(s) EXCEPT ![n] = a.Message]
          /\ \A t \in Server \ {s} : CommandAt(t)' = CommandAt(t)
      <3>1. TypeOK /\ serverLog' = [serverLog EXCEPT ![s][n] = e]
        BY <1>3 DEF OrderInv
      <3> HIDE DEF n, a
      <3>2. CommandAt(s)' = [CommandAt(s) EXCEPT ![n] = e.message]
        BY <1>1, <2>5, <3>1, EntryCommand
      <3>3. \A t \in Server \ {s} : CommandAt(t)' = CommandAt(t)
        BY <1>1, <2>5, <3>1, EntryCommand
      <3> QED BY <2>5, <3>2, <3>3
    <2>7. CountsAlike
      BY <1>3, <2>4, LeaderServes DEF CountsAlike, OrderInv, TypeOK, LogType
    <2> HIDE DEF n
    <2>8. Learned(s, n)
      BY <1>1, <2>2, <2>3, <2>4, <2>6, <2>7 DEF Learned
    <2> QED BY <1>1, <2>8
  <1> QED BY <1>2, <1>3 DEF HandlePrePrepareRPC, AdvanceSequenceNumber

LEMMA PrepareEffect ==
  ASSUME OrderInv, NEW s \in Server, NEW m \in msgs, HandlePrepareRPC(s, m)
  PROVE  Same
  <1> DEFINE a == m.args.arg
             n == a.SequenceNumber
             entry == serverLog[s][n]
             prepares == RecordPrepare(entry, a)
             e == [entry EXCEPT !.prepareArgs = prepares,
                                !.commitArgs = IF EntersCommitPhase(prepares)
                                               THEN @ \cup {s} ELSE @]
  <1>1. sequenceNumber' = sequenceNumber
    BY DEF HandlePrepareRPC
  <1>2. CASE UNCHANGED serverLog
    BY <1>1, <1>2, LogsAlike
  <1>3. CASE ValidPrepare(s, m.args) /\ serverLog' = [serverLog EXCEPT ![s][n] = e]
    <2>1. n \in Slot
      BY MessageFields DEF HandlePrepareRPC, Handles, OrderInv, TypeOK, VoteArg
    <2>2. Logged(s, n) /\ entry \in Entry
      BY <1>3, <2>1 DEF ValidPrepare, Logged, OrderInv, TypeOK, LogType
    <2>3. CommandAt(s)[n] = entry.message
      BY <2>1, <2>2, LoggedCommands
    <2> HIDE DEF entry
    <2>4. e # NoEntry /\ e.message = entry.message
      <3>1. DOMAIN e = DOMAIN entry /\ e.message = entry.message
        BY <2>2 DEF Entry
      <3>2. e \in Entry
        <4>1. prepares \in SUBSET VoteArg
          <5>1. a \in VoteArg
            BY MessageFields DEF HandlePrepareRPC, Handles, OrderInv, TypeOK
          <5> QED BY <2>2, <5>1 DEF RecordPrepare, Entry
        <4> HIDE DEF prepares
        <4> QED BY <2>2, <4>1 DEF Entry
      <3> QED BY <3>1, <3>2, AbsentAssumption
    <2> HIDE DEF e, n
    <2>5. /\ CommandAt(s)' = [CommandAt(s) EXCEPT ![n] = entry.message]
          /\ \A t \in Server \ {s} : CommandAt(t)' = CommandAt(t)
      <3>1. TypeOK /\ serverLog' = [serverLog EXCEPT ![s][n] = e]
        BY <1>3 DEF OrderInv
      <3>2. CommandAt(s)' = [CommandAt(s) EXCEPT ![n] = e.message]
        BY <2>1, <2>4, <3>1, EntryCommand
      <3>3. \A t \in Server \ {s} : CommandAt(t)' = CommandAt(t)
        BY <2>1, <2>4, <3>1, EntryCommand
      <3> QED BY <2>4, <3>2, <3>3
    <2>6. CommandAt(s)' = CommandAt(s)
      BY <2>1, <2>3, <2>5 DEF CommandAt
    <2> QED BY <1>1, <2>5, <2>6 DEF Same, CountsAlike
  <1> QED BY <1>2, <1>3 DEF HandlePrepareRPC

-----------------------------------------------------------------------------
(* A command is in one place: in the job of a server that forwards it, in the    *)
(* request on its way to the leader, or in one slot of the leader's log.        *)

Forward(s, c) == [phase |-> "FORWARD_COMMAND", args |-> makeArguments(s, "Command", c)]

Carries(q, c) == q.phase = "FORWARD_COMMAND" /\ q.args.arg = c
Forwarders(c) == {s \in Server : \E job \in outbox[s] : Carries(job, c)}
Forwarded(c) == {m \in msgs : Carries(m, c)}
SlotsOf(c) == {n \in Slot : Order[n] = c}

OnePlace(A, B, C) ==
  /\ AtMostOne(A) /\ AtMostOne(B) /\ AtMostOne(C)
  /\ (A = {} \/ B = {}) /\ (A = {} \/ C = {}) /\ (B = {} \/ C = {})

Placed(c) ==
  /\ OnePlace(Forwarders(c), Forwarded(c), SlotsOf(c))
  /\ c \notin submitted => Forwarders(c) = {} /\ Forwarded(c) = {} /\ SlotsOf(c) = {}

OwnForwards ==
  \A s \in Server : \A job \in outbox[s] :
    job.phase = "FORWARD_COMMAND" => job = Forward(s, job.args.arg)

Tokens == OwnForwards /\ \A c \in Command : Placed(c)

\* A command that is where it was, or nowhere, stays in one place.
LEMMA PlacedStays ==
  ASSUME NEW c, Placed(c), Forwarders(c)' \subseteq Forwarders(c),
         Forwarded(c)' \subseteq Forwarded(c), SlotsOf(c)' \subseteq SlotsOf(c),
         submitted \subseteq submitted'
  PROVE  Placed(c)'
  BY DEF Placed, OnePlace, AtMostOne

\* So does one that comes into the only place it has.
LEMMA PlacedAnew ==
  ASSUME NEW c, NEW x, c \in submitted',
         \/ Forwarders(c)' \subseteq {x} /\ Forwarded(c)' = {} /\ SlotsOf(c)' = {}
         \/ Forwarders(c)' = {} /\ Forwarded(c)' \subseteq {x} /\ SlotsOf(c)' = {}
         \/ Forwarders(c)' = {} /\ Forwarded(c)' = {} /\ SlotsOf(c)' \subseteq {x}
  PROVE  Placed(c)'
  BY DEF Placed, OnePlace, AtMostOne

\* A step that forwards nothing and leaves the leader's log as it is.
LEMMA TokensQuiet ==
  ASSUME Tokens, Order' = Order, submitted \subseteq submitted',
         \A t \in Server : \A job \in outbox'[t] :
           job \in outbox[t] \/ job.phase # "FORWARD_COMMAND",
         \A m \in msgs' : m \in msgs \/ m.phase # "FORWARD_COMMAND"
  PROVE  Tokens'
  <1>1. OwnForwards'
    BY DEF Tokens, OwnForwards, Forward, makeArguments
  <1>2. ASSUME NEW c \in Command
        PROVE  Placed(c)'
    <2>1. /\ Forwarders(c)' \subseteq Forwarders(c)
          /\ Forwarded(c)' \subseteq Forwarded(c)
          /\ SlotsOf(c)' \subseteq SlotsOf(c)
      BY DEF Forwarders, Forwarded, SlotsOf, Carries
    <2> QED BY <2>1, PlacedStays DEF Tokens
  <1> QED BY <1>1, <1>2 DEF Tokens

\* The body of Start puts a command that is nowhere else into one place.
LEMMA TokensStart ==
  ASSUME OrderInv, Tokens, NEW s \in Server, NEW c \in Command, StartBody(s, c),
         Forwarders(c) = {}, SlotsOf(c) = {}, Forwarded(c)' = {}, msgs' \subseteq msgs,
         submitted \subseteq submitted', c \in submitted'
  PROVE  Tokens'
  <1>1. \A x : Forwarded(x)' \subseteq Forwarded(x)
    BY DEF Forwarded
  <1>2. CASE StartForward(s, c)
    <2>1. \A t \in Server : \A job \in outbox'[t] :
            job \in outbox[t] \/ (t = s /\ job = Forward(s, c))
      BY <1>2, JobsAdded DEF StartForward, Forward, OrderInv
    <2>2. Order' = Order
      BY <1>2 DEF StartForward, Order, CommandAt, Logged, Leader, leader
    <2>3. Carries(Forward(s, c), c) /\ Forward(s, c).args.arg = c
      BY DEF Carries, Forward, makeArguments
    <2>4. OwnForwards'
      BY <2>1, <2>3 DEF Tokens, OwnForwards, Forward, makeArguments
    <2>5. ASSUME NEW x \in Command
          PROVE  Placed(x)'
      <3>1. SlotsOf(x)' = SlotsOf(x)
        BY <2>2 DEF SlotsOf
      <3>2. CASE x = c
        <4>1. Forwarders(c)' \subseteq {s}
          BY <2>1 DEF Forwarders
        <4> QED BY <3>1, <3>2, <4>1, PlacedAnew
      <3>3. CASE x # c
        <4>1. Forwarders(x)' \subseteq Forwarders(x)
          BY <2>1, <2>3, <3>3 DEF Forwarders, Carries
        <4> QED BY <1>1, <3>1, <4>1, PlacedStays DEF Tokens
      <3> QED BY <3>2, <3>3
    <2> QED BY <2>4, <2>5 DEF Tokens
  <1>3. CASE ~StartForward(s, c)
    <2>1. \A t \in Server : \A job \in outbox'[t] :
            job \in outbox[t] \/ job.phase # "FORWARD_COMMAND"
      <3>1. CASE StartDrop(s, c)
        BY <3>1 DEF StartDrop
      <3>2. CASE StartPrePrepare(s, c)
        <4> DEFINE v == view[s]
                   n == sequenceNumber[s]
                   arg == [View |-> v, SequenceNumber |-> n, Digest |-> Digest[c],
                           Message |-> c]
                   J == {[phase |-> "PRE_PREPARE",
                          args |-> makeArguments(s, "PrePrepareCommandArg", arg)]}
                        \cup RepeatedReply(s, v, n, c)
        <4>1. outbox' = [outbox EXCEPT ![s] = @ \cup J]
          BY <3>2 DEF StartPrePrepare
        <4>2. \A job \in J : job.phase # "FORWARD_COMMAND"
          BY DEF RepeatedReply
        <4> HIDE DEF J
        <4> QED BY <4>1, <4>2, JobsAdded DEF OrderInv
      <3> QED BY <1>3, <3>1, <3>2 DEF StartBody
    <2>2. OwnForwards'
      BY <2>1 DEF Tokens, OwnForwards, Forward, makeArguments
    <2>3. \A x : Forwarders(x)' \subseteq Forwarders(x)
      BY <2>1 DEF Forwarders, Carries
    <2>4. CASE Same
      <3>1. Order' = Order
        BY <2>4, LeaderServes DEF Same, Order, Leader, leader
      <3>2. \A m \in msgs' : m \in msgs
        OBVIOUS
      <3> QED BY <2>1, <3>1, <3>2, TokensQuiet
    <2>5. CASE Assigned(sequenceNumber[Leader], c)
      <3> DEFINE n == sequenceNumber[Leader]
      <3>1. n \in Slot /\ Order' = [Order EXCEPT ![n] = c]
        BY <2>5 DEF Assigned
      <3> HIDE DEF n
      <3>2. \A k \in Slot : Order'[k] = IF k = n THEN c ELSE Order[k]
        BY <3>1 DEF Order, CommandAt
      <3>3. ASSUME NEW x \in Command
            PROVE  Placed(x)'
        <4>1. CASE x = c
          <5>1. SlotsOf(c)' \subseteq {n}
            BY <3>2 DEF SlotsOf
          <5>2. Forwarders(c)' = {}
            BY <2>3
          <5> QED BY <4>1, <5>1, <5>2, PlacedAnew
        <4>2. CASE x # c
          <5>1. SlotsOf(x)' \subseteq SlotsOf(x)
            BY <3>2, <4>2 DEF SlotsOf
          <5> QED BY <1>1, <2>3, <5>1, PlacedStays DEF Tokens
        <4> QED BY <4>1, <4>2
      <3> QED BY <2>2, <3>3 DEF Tokens
    <2> QED BY <2>4, <2>5, StartEffect
  <1> QED BY <1>2, <1>3

\* Sending moves a command from the job to the request.
LEMMA TokensSend ==
  ASSUME OrderInv, Tokens, NEW s \in Server, NEW job \in outbox[s], sendRPCs(s, job)
  PROVE  Tokens'
  <1>1. Order' = Order /\ submitted' = submitted
    BY DEF sendRPCs, Exit, envVars, logVars, Order, CommandAt, Logged, Leader, leader
  <1>2. CASE Exit(s)
    <2>1. \A t \in Server : outbox'[t] \subseteq outbox[t]
      BY <1>2, ExitJobs DEF OrderInv
    <2>2. msgs' \subseteq msgs
      BY <1>2 DEF Exit
    <2> QED BY <1>1, <2>1, <2>2, TokensQuiet
  <1>3. CASE ~Exit(s)
    <2>1. /\ outbox' = [outbox EXCEPT ![s] = @ \ {job}]
          /\ msgs' = msgs \cup {[to |-> d, phase |-> job.phase, args |-> job.args] :
                                  d \in Destinations(s, job)}
      BY <1>3 DEF sendRPCs
    <2>2. \A t \in Server : outbox'[t] = IF t = s THEN outbox[s] \ {job} ELSE outbox[t]
      BY <2>1 DEF OrderInv, TypeOK, NetType
    <2>3. CASE job.phase # "FORWARD_COMMAND"
      <3>1. \A m \in msgs' : m \in msgs \/ m.phase # "FORWARD_COMMAND"
        BY <2>1, <2>3
      <3> QED BY <1>1, <2>2, <3>1, TokensQuiet
    <2>4. CASE job.phase = "FORWARD_COMMAND"
      <3> DEFINE c == job.args.arg
                 q == [to |-> leader(view[s]), phase |-> job.phase, args |-> job.args]
      <3>1. c \in Command
        BY <2>4, RequestFields DEF OrderInv, TypeOK, NetType, Job
      <3>2. msgs' = msgs \cup {q}
        BY <2>1, <2>4 DEF Destinations
      <3>3. q.phase = "FORWARD_COMMAND" /\ q.args.arg = c
        BY <2>4
      <3>4. \A j \in outbox[s] : Carries(j, c) => j = job
        BY <2>4 DEF Tokens, OwnForwards, Carries
      <3>5. s \in Forwarders(c)
        BY <2>4 DEF Forwarders, Carries
      <3> HIDE DEF c, q
      <3>6. Placed(c)
        BY <3>1 DEF Tokens
      <3>7. c \in submitted /\ Forwarders(c) \subseteq {s} /\ Forwarded(c) = {}
            /\ SlotsOf(c) = {}
        BY <3>5, <3>6 DEF Placed, OnePlace, AtMostOne
      <3>8. OwnForwards'
        BY <2>2 DEF Tokens, OwnForwards, Forward, makeArguments
      <3>9. ASSUME NEW x \in Command
            PROVE  Placed(x)'
        <4>1. SlotsOf(x)' = SlotsOf(x)
          BY <1>1 DEF SlotsOf
        <4>2. CASE x = c
          <5>1. Forwarders(c)' = {}
            BY <2>2, <3>4, <3>7 DEF Forwarders
          <5>2. Forwarded(c)' \subseteq {q}
            BY <3>2, <3>7 DEF Forwarded
          <5> QED BY <1>1, <3>7, <4>1, <4>2, <5>1, <5>2, PlacedAnew
        <4>3. CASE x # c
          <5>1. Forwarders(x)' \subseteq Forwarders(x)
            BY <2>2 DEF Forwarders
          <5>2. Forwarded(x)' \subseteq Forwarded(x)
            BY <3>2, <3>3, <4>3 DEF Forwarded, Carries
          <5> QED BY <1>1, <4>1, <5>1, <5>2, PlacedStays DEF Tokens
        <4> QED BY <4>2, <4>3
      <3> QED BY <3>8, <3>9 DEF Tokens
    <2> QED BY <2>3, <2>4
  <1> QED BY <1>2, <1>3

\* A command is nowhere when a client issues it, and nowhere else when the leader gets
\* it from another server.
LEMMA TokensIssue ==
  ASSUME OrderInv, Tokens, NEW s \in Server, NEW c \in Command, Start(s, c)
  PROVE  Tokens' /\ SlotsOf(c) = {} /\ StartBody(s, c)
  <1>1. Placed(c) /\ c \notin submitted
    BY DEF Tokens, Start
  <1>2. Forwarders(c) = {} /\ SlotsOf(c) = {} /\ Forwarded(c) = {}
    BY <1>1 DEF Placed
  <1>3. msgs' = msgs /\ submitted' = submitted \cup {c} /\ StartBody(s, c)
    BY DEF Start
  <1>4. Forwarded(c)' = {}
    BY <1>2, <1>3 DEF Forwarded
  <1> QED BY <1>2, <1>3, <1>4, TokensStart

LEMMA TokensReceive ==
  ASSUME OrderInv, Tokens, NEW s \in Server, NEW m \in msgs, ReceiveForwardedCommand(s, m)
  PROVE  /\ Tokens' /\ SlotsOf(m.args.arg) = {}
         /\ m.args.arg \in Command /\ StartBody(s, m.args.arg)
  <1> DEFINE c == m.args.arg
  <1>1. /\ c \in Command /\ StartBody(s, c) /\ Carries(m, c)
        /\ msgs' = msgs \ {m} /\ submitted' = submitted
    BY MessageFields DEF ReceiveForwardedCommand, OrderInv, TypeOK, Carries
  <1> HIDE DEF c
  <1>2. Placed(c) /\ m \in Forwarded(c)
    BY <1>1 DEF Tokens, Forwarded
  <1>3. /\ Forwarders(c) = {} /\ SlotsOf(c) = {} /\ Forwarded(c) \subseteq {m}
        /\ c \in submitted
    BY <1>2 DEF Placed, OnePlace, AtMostOne
  <1>4. Forwarded(c)' = {} /\ msgs' \subseteq msgs
    BY <1>1, <1>3 DEF Forwarded
  <1>5. Tokens'
    BY <1>1, <1>3, <1>4, TokensStart
  <1> QED BY <1>1, <1>3, <1>5 DEF c

-----------------------------------------------------------------------------
(* The refinement.                                                          *)

\* The leader has filled the slots it has counted.
LeaderFills == \A n \in Slot : n < sequenceNumber[Leader] => Order[n] # NoEntry

OrderedInv == AgreedInv /\ Tokens /\ LeaderFills

\* What a step does to the logs: nothing, or one slot gets one command, or a server
\* that does not lead loses all.
Effect ==
  \/ Same
  \/ \E n \in Slot, c \in Command : Assigned(n, c) /\ SlotsOf(c) = {}
  \/ \E s \in Server, n \in Slot : Learned(s, n)
  \/ \E s \in Server : Forgot(s)

\* Make on another server than the leader takes its log and lets it start at whatever
\* number its disk has, which moves nothing but what that server holds.
LEMMA MakeEffect ==
  ASSUME TypeOK, NEW s \in Server \ {Leader}, Make(s), ~Exit(s)
  PROVE  Forgot(s)
  <1>1. /\ serverLog' = [serverLog EXCEPT ![s] = [n \in Slot |-> NoEntry]]
        /\ sequenceNumber' = [sequenceNumber EXCEPT ![s] = disk[s].sequenceNumber]
        /\ makes' = makes + 1 /\ remade' = remade \cup {s}
    BY DEF Make, readPersist
  <1>2. \A t \in Server, k \in Slot :
          serverLog'[t][k] = IF t = s THEN NoEntry ELSE serverLog[t][k]
    BY <1>1 DEF TypeOK, LogType
  <1>3. CommandAt(s)' = [n \in Slot |-> NoEntry]
    BY <1>2 DEF CommandAt, Logged
  <1>4. \A t \in Server \ {s} : CommandAt(t)' = CommandAt(t)
    BY <1>2 DEF CommandAt, Logged
  <1>5. CountsAlike
    BY <1>1, LeaderServes DEF CountsAlike, TypeOK, LogType
  <1> QED BY <1>1, <1>3, <1>4, <1>5 DEF Forgot

LEMMA StepEffect ==
  ASSUME AgreedInv, Tokens, Leader \notin remade', [Next]_vars
  PROVE  Tokens' /\ Effect
  <1>1. OrderInv /\ TypeOK
    BY DEF AgreedInv, OrderInv
  <1>2. ASSUME UNCHANGED <<serverLog, sequenceNumber>>
        PROVE  Effect /\ Order' = Order
    BY <1>2, LogsAlike DEF Effect, Order, CommandAt, Logged, Leader, leader
  <1>3. ASSUME NEW s \in Server, Exit(s), submitted' = submitted
        PROVE  Tokens' /\ Effect
    <2>1. msgs' \subseteq msgs /\ UNCHANGED <<serverLog, sequenceNumber>>
      BY <1>3 DEF Exit, logVars
    <2> QED BY <1>1, <1>2, <1>3, <2>1, ExitJobs, TokensQuiet
  <1>4. CASE UNCHANGED vars
    <2>1. UNCHANGED <<serverLog, sequenceNumber, msgs, outbox, submitted>>
      BY <1>4 DEF vars, logVars, netVars, envVars
    <2> QED BY <1>2, <2>1, TokensQuiet
  <1>5. ASSUME NEW s \in Server, NEW c \in Command, StartBody(s, c), SlotsOf(c) = {}
        PROVE  Effect
    <2>1. CASE Same
      BY <2>1 DEF Effect
    <2>2. CASE Assigned(sequenceNumber[Leader], c)
      <3>1. sequenceNumber[Leader] \in Slot
        BY <2>2 DEF Assigned
      <3> QED BY <1>5, <2>2, <3>1 DEF Effect
    <2> QED BY <1>1, <1>5, <2>1, <2>2, StartEffect
  <1>6. ASSUME NEW s \in Server, NEW c \in Command, Start(s, c)
        PROVE  Tokens' /\ Effect
    BY <1>1, <1>5, <1>6, TokensIssue
  <1>7. ASSUME NEW s \in Server, NEW m \in msgs, ReceiveForwardedCommand(s, m)
        PROVE  Tokens' /\ Effect
    <2> DEFINE c == m.args.arg
    <2>1. Tokens' /\ SlotsOf(c) = {} /\ c \in Command /\ StartBody(s, c)
      BY <1>1, <1>7, TokensReceive
    <2> HIDE DEF c
    <2> QED BY <1>5, <2>1
  <1>8. ASSUME NEW s \in Server, NEW job \in outbox[s],
               sendRPCs(s, job) \/ replyToClient(s, job)
        PROVE  Tokens' /\ Effect
    <2>1. UNCHANGED <<serverLog, sequenceNumber>>
      BY <1>8 DEF sendRPCs, replyToClient, Exit, logVars
    <2>2. CASE sendRPCs(s, job)
      BY <1>1, <1>2, <2>1, <2>2, TokensSend
    <2>3. CASE replyToClient(s, job) /\ Exit(s)
      BY <1>3, <2>3 DEF replyToClient, envVars
    <2>4. CASE replyToClient(s, job) /\ ~Exit(s)
      <3>1. /\ \A t \in Server : outbox'[t] \subseteq outbox[t]
            /\ msgs' = msgs /\ submitted' = submitted
        BY <1>1, <2>4 DEF replyToClient, envVars, TypeOK, NetType
      <3> QED BY <1>2, <2>1, <3>1, TokensQuiet
    <2> QED BY <1>8, <2>2, <2>3, <2>4
  <1>9. ASSUME NEW s \in Server, NEW m \in msgs, HandlePrePrepareRPC(s, m)
        PROVE  Tokens' /\ Effect
    <2>1. CASE Same
      <3>1. Order' = Order
        BY <2>1, LeaderServes DEF Same, Order, Leader, leader
      <3> QED BY <1>1, <1>9, <2>1, <3>1, HandlersStartNothing, TokensQuiet DEF Effect
    <2>2. ASSUME NEW n \in Slot, Learned(s, n)
          PROVE  Tokens' /\ Effect
      <3>1. Order' = Order
        BY <2>2, LeaderServes DEF Learned, Order, Leader, leader
      <3> QED BY <1>1, <1>9, <2>2, <3>1, HandlersStartNothing, TokensQuiet DEF Effect
    <2> QED BY <1>1, <1>9, <2>1, <2>2, PrePrepareEffect
  <1>10. ASSUME NEW s \in Server, NEW m \in msgs,
                HandlePrepareRPC(s, m) \/ HandleCommitRPC(s, m)
         PROVE  Tokens' /\ Effect
    <2>1. Same
      BY <1>1, <1>10, PrepareEffect, LogsAlike DEF HandleCommitRPC
    <2>2. Order' = Order
      BY <2>1, LeaderServes DEF Same, Order, Leader, leader
    <2> QED BY <1>1, <1>10, <2>1, <2>2, HandlersStartNothing, TokensQuiet DEF Effect
  <1>11. ASSUME NEW s \in Server,
                \/ \E m \in msgs :
                     HandleCommitRPC_Fatal(s, m) \/ HandleCheckPointRPC_Check(s, m)
                \/ \E a \in checking[s] : HandleCheckPointRPC_Record(s, a)
                \/ Crash(s)
         PROVE  Tokens' /\ Effect
    <2>1. submitted' = submitted
      BY <1>11 DEF HandleCommitRPC_Fatal, HandleCheckPointRPC_Check,
                   HandleCheckPointRPC_Record, Crash, envVars
    <2>2. CASE Exit(s)
      BY <1>3, <2>1, <2>2
    <2>3. CASE ~Exit(s)
      <3>1. UNCHANGED <<serverLog, sequenceNumber, outbox>> /\ msgs' \subseteq msgs
        BY <1>11, <2>3 DEF HandleCommitRPC_Fatal, HandleCheckPointRPC_Check,
                           HandleCheckPointRPC_Record, Crash, logVars, netVars
      <3> QED BY <1>2, <2>1, <3>1, TokensQuiet
    <2> QED BY <2>2, <2>3
  <1>12. ASSUME NEW s \in Server, Make(s)
         PROVE  Tokens' /\ Effect
    <2>1. submitted' = submitted /\ s # Leader
      BY <1>12 DEF Make
    <2>2. CASE Exit(s)
      BY <1>3, <2>1, <2>2
    <2>3. CASE ~Exit(s)
      <3>1. Forgot(s)
        BY <1>1, <1>12, <2>1, <2>3, MakeEffect
      <3>2. Order' = Order
        BY <2>1, <3>1, LeaderServes DEF Forgot, Order, Leader, leader
      <3>3. UNCHANGED <<outbox, msgs>>
        BY <1>12, <2>3 DEF Make, netVars
      <3> QED BY <2>1, <3>1, <3>2, <3>3, TokensQuiet DEF Effect
    <2> QED BY <2>2, <2>3
  <1>13. ASSUME NEW s \in Server, NEW m \in msgs, EnterHandler(s, m)
         PROVE  Tokens' /\ Effect
    <2>1. UNCHANGED <<serverLog, sequenceNumber, msgs, outbox, submitted>>
      BY <1>13 DEF EnterHandler, logVars, envVars
    <2> QED BY <1>2, <2>1, TokensQuiet
  <1>14. ASSUME NEW s \in Server, HandleCommitRPC_Save(s)
         PROVE  Tokens' /\ Effect
    <2>1. UNCHANGED <<serverLog, sequenceNumber, msgs, outbox, submitted>>
      BY <1>14 DEF HandleCommitRPC_Save, logVars, netVars
    <2> QED BY <1>2, <2>1, TokensQuiet
  <1> QED BY <1>4, <1>6, <1>7, <1>8, <1>9, <1>10, <1>11, <1>12, <1>13, <1>14
          DEF Next, Goroutine, Handler, GatedHandler

LEMMA FillsStep ==
  ASSUME OrderInv, LeaderFills, Effect
  PROVE  LeaderFills'
  <1>1. sequenceNumber[Leader] \in Nat /\ \A n \in Slot : n \in Nat
    BY LeaderServes, CommandAssumption DEF OrderInv, TypeOK, LogType
  <1>2. CASE \/ Same
             \/ \E s \in Server : Forgot(s) \/ \E n \in Slot : Learned(s, n)
    <2>1. Order' = Order /\ CountsAlike
      BY <1>2, LeaderServes DEF Same, Learned, Forgot, Order, Leader, leader
    <2> QED BY <2>1 DEF LeaderFills, CountsAlike, Leader, leader
  <1>3. ASSUME NEW n \in Slot, NEW c \in Command, Assigned(n, c)
        PROVE  LeaderFills'
    <2>1. /\ n = sequenceNumber[Leader] /\ sequenceNumber'[Leader] = n + 1
          /\ Order' = [Order EXCEPT ![n] = c]
      BY <1>3 DEF Assigned
    <2>2. \A k \in Slot : Order'[k] = IF k = n THEN c ELSE Order[k]
      BY <2>1 DEF Order, CommandAt
    <2>3. c # NoEntry
      BY AbsentAssumption
    <2>4. \A k \in Slot : k < sequenceNumber'[Leader] => Order'[k] # NoEntry
      BY <1>1, <2>1, <2>2, <2>3 DEF LeaderFills
    <2> QED BY <2>4 DEF LeaderFills, Leader, leader
  <1> QED BY <1>2, <1>3 DEF Effect

\* Every effect is a step of SequencedLog, or none.
LEMMA EffectRefines ==
  ASSUME OrderInv, LeaderFills, Effect
  PROVE  \/ [Sequenced!Next]_(Sequenced!vars)
         \/ \E s \in remade' : makes' = makes + 1 /\ Sequenced!Forget(s)
  <1> DEFINE known == [s \in Server \ {Leader} |-> CommandAt(s)]
  <1>1. CASE Same
    <2>1. Order' = Order /\ known' = known
      BY <1>1, LeaderServes DEF Same, Order, Leader, leader, Server
    <2> QED BY <2>1 DEF Sequenced!vars, Order, Leader
  <1>2. ASSUME NEW n \in Slot, NEW c \in Command, Assigned(n, c), SlotsOf(c) = {}
        PROVE  Sequenced!Next
    <2>1. /\ n = sequenceNumber[Leader]
          /\ Order' = [Order EXCEPT ![n] = c] /\ known' = known
      BY <1>2, LeaderServes DEF Assigned, Leader, leader, Server
    <2>2. \A k \in Slot : Order[k] # NoEntry <=> k < n
      <3>1. ASSUME NEW k \in Slot, Order[k] # NoEntry
            PROVE  k < n
        <4>1. Logged(Leader, k)
          BY <3>1, LeaderServes, LoggedCommands DEF Order
        <4> QED BY <2>1, <4>1 DEF OrderInv, LeaderCounts, Leader
      <3> QED BY <2>1, <3>1 DEF LeaderFills
    <2>3. \A k \in Slot : Order[k] # c
      BY <1>2 DEF SlotsOf
    <2>4. Sequenced!Assign(n, c)
      BY <2>1, <2>2, <2>3 DEF Sequenced!Assign, Order, Leader
    <2> QED BY <2>4 DEF Sequenced!Next
  <1>3. ASSUME NEW s \in Server, NEW n \in Slot, Learned(s, n)
        PROVE  Sequenced!Next
    <2>1. s \in Server \ {Leader} /\ Order' = Order
      BY <1>3, LeaderServes DEF Learned, Order, Leader, leader
    <2>2. Order[n] # NoEntry /\ known[s][n] = NoEntry
      BY <1>3 DEF Learned
    <2>3. known' = [known EXCEPT ![s][n] = Order[n]]
      BY <1>3, <2>1 DEF Learned, Leader, leader, Server
    <2>4. Sequenced!Learn(s, n)
      BY <2>1, <2>2, <2>3 DEF Sequenced!Learn, Order, Leader
    <2> QED BY <2>1, <2>4 DEF Sequenced!Next, Leader
  <1>4. ASSUME NEW s \in Server, Forgot(s)
        PROVE  s \in remade' /\ makes' = makes + 1 /\ Sequenced!Forget(s)
    <2>1. s \in Server \ {Leader} /\ Order' = Order
      BY <1>4, LeaderServes DEF Forgot, Order, Leader, leader
    <2>2. known' = [known EXCEPT ![s] = [n \in Slot |-> NoEntry]]
      BY <1>4, <2>1 DEF Forgot, Leader, leader, Server
    <2> QED BY <1>4, <2>1, <2>2 DEF Forgot, Sequenced!Forget, Order, Leader
  <1> QED BY <1>1, <1>2, <1>3, <1>4 DEF Effect

LEMMA OrderedInit == Init => OrderedInv /\ Sequenced!Init
  <1> SUFFICES ASSUME Init
               PROVE  OrderedInv /\ Sequenced!Init
    OBVIOUS
  <1>1. AgreedInv
    BY OrderInit, SoundInit DEF Init, AgreedInv
  <1>2. \A s \in Server : CommandAt(s) = [n \in Slot |-> NoEntry]
    BY DEF Init, CommandAt, Logged
  <1>3. Order = [n \in Slot |-> NoEntry]
    BY <1>2, LeaderServes DEF Order
  <1>4. Tokens
    <2>1. OwnForwards
      BY DEF Init, OwnForwards
    <2>2. ASSUME NEW c \in Command
          PROVE  Placed(c)
      <3>1. Forwarders(c) = {} /\ Forwarded(c) = {} /\ SlotsOf(c) = {}
        BY <1>3, AbsentAssumption DEF Init, Forwarders, Forwarded, SlotsOf
      <3> QED BY <3>1 DEF Placed, OnePlace, AtMostOne
    <2> QED BY <2>1, <2>2 DEF Tokens
  <1>5. LeaderFills
    BY LeaderServes, CommandAssumption DEF Init, LeaderFills
  <1>6. Sequenced!Init
    BY <1>2, <1>3 DEF Sequenced!Init, Order, Leader
  <1> QED BY <1>1, <1>4, <1>5, <1>6 DEF OrderedInv

LEMMA OrderedStep ==
  ASSUME OrderedInv, Leader \notin remade', [Next]_vars
  PROVE  /\ OrderedInv'
         /\ \/ [Sequenced!Next]_(Sequenced!vars)
            \/ \E s \in remade' : makes' = makes + 1 /\ Sequenced!Forget(s)
  <1>1. AgreedInv'
    BY OrderStep, SoundStep DEF OrderedInv, AgreedInv, OrderInv, Leader, leader
  <1>2. Tokens' /\ Effect
    BY StepEffect DEF OrderedInv
  <1> QED BY <1>1, <1>2, FillsStep, EffectRefines DEF OrderedInv, AgreedInv

LEMMA OrderedBelow ==
  ASSUME N > 1, Below, OrderedInv, [VCNext]_allVars
  PROVE  OrderedInv' /\ [Sequenced!Next]_(Sequenced!vars)
  <1>1. Below' /\ ([Next]_vars \/ Quiet)
    BY BelowStep
  <1>2. remade' = {} /\ makes' # makes + 1
    BY <1>1 DEF Below, Untouched
  <1>3. CASE [Next]_vars
    BY <1>2, <1>3, OrderedStep
  <1>4. CASE Quiet
    <2>1. AgreedInv'
      BY AgreedBelow DEF OrderedInv
    <2>2. /\ UNCHANGED <<serverLog, sequenceNumber, submitted>> /\ msgs' \subseteq msgs
          /\ \A t \in Server : outbox'[t] \subseteq outbox[t]
      BY <1>4 DEF Quiet, logVars, envVars
    <2>3. Effect /\ Order' = Order
      BY <2>2, LogsAlike DEF Effect, Order, CommandAt, Logged, Leader, leader
    <2>4. Tokens'
      BY <2>2, <2>3, TokensQuiet DEF OrderedInv
    <2> QED BY <1>2, <2>1, <2>3, <2>4, FillsStep, EffectRefines DEF OrderedInv, AgreedInv
  <1> QED BY <1>1, <1>3, <1>4

\* The servers keep one order of commands, each in one slot, filled slot by slot by the
\* leader and copied by the others, for any number of servers, commands and slots, any
\* digest, and any number of crashes and of restarts of servers other than the leader,
\* each of which makes one server hold nothing again and moves nothing else.
THEOREM SequencedUntilLeaderRestarts == Spec => SequencedAcrossRestarts
  <1>1. Init => Sequenced!Init /\ (leader(0) \notin remade => OrderedInv)
    BY OrderedInit
  <1>2. (leader(0) \notin remade => OrderedInv) /\ [Next]_vars =>
          /\ (leader(0) \notin remade => OrderedInv)'
          /\ [leader(0) \notin remade' =>
                \/ [Sequenced!Next]_(Sequenced!vars)
                \/ \E s \in remade' : makes' = makes + 1 /\ Sequenced!Forget(s)]_vars
    BY RemadeGrows, OrderedStep DEF Leader, leader
  <1> QED BY <1>1, <1>2, PTL DEF Spec, SequencedAcrossRestarts

\* So, as long as Make does not run again, they implement SequencedLog itself.
THEOREM SequencedLogImplemented ==
  ASSUME MaxMake = 0
  PROVE  Spec => ImplementsSequencedLog
  <1>1. Init => Untouched /\ OrderedInv /\ Sequenced!Init
    BY OrderedInit DEF Init, Untouched
  <1>2. Untouched /\ OrderedInv /\ [Next]_vars =>
          (Untouched /\ OrderedInv)' /\ [Sequenced!Next]_(Sequenced!vars)
    <2> SUFFICES ASSUME Untouched, OrderedInv, [Next]_vars
                 PROVE  (Untouched /\ OrderedInv)' /\ [Sequenced!Next]_(Sequenced!vars)
      OBVIOUS
    <2>1. UNCHANGED <<makes, remade>>
      BY MakesCount DEF Untouched, Make
    <2> QED BY <2>1, OrderedStep DEF Untouched
  <1> QED BY <1>1, <1>2, PTL DEF Spec, ImplementsSequencedLog, Sequenced!Spec

\* So they do while servers start view changes, which never run Make.
THEOREM SequencedLogThroughViewChanges ==
  ASSUME N > 1
  PROVE  VCSpec => ImplementsSequencedLog
  <1>1. Init /\ VCInit => Below /\ OrderedInv /\ Sequenced!Init
    BY BelowInit, OrderedInit
  <1>2. Below /\ OrderedInv /\ [VCNext]_allVars =>
          (Below /\ OrderedInv)' /\ [Sequenced!Next]_(Sequenced!vars)
    BY BelowStep, OrderedBelow
  <1> QED BY <1>1, <1>2, PTL DEF VCSpec, ImplementsSequencedLog, Sequenced!Spec
=============================================================================
