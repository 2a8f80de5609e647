------------------------------- MODULE MCPBFT -------------------------------
(***************************************************************************)
(* Instances of PBFT for TLC.  The digests are the ones module Hash gives  *)
(* for the values the code hashes.                                         *)
(***************************************************************************)
EXTENDS PBFTClaims, Trees

CONSTANT
  MaxInFlight   \* bound: requests in flight and goroutines that have not sent yet

LOCAL INSTANCE Bitwise

BitXor(a, b) == a ^^ b

MCClient == {0}
OneCommand == {[ClientID |-> 0, Timestamp |-> 1]}
TwoCommands == OneCommand \cup {[ClientID |-> 0, Timestamp |-> 2]}

\* A Command has two strings, an empty interface, a time and a number; a
\* CheckPointInfo a number, the state, a map of confirmations and a flag.
CommandValue(c) ==
  Struct(<<String(1), String(2), Nil, Struct(<<>>), Number(c.ClientID)>>)
StateValue == Map(<<>>)
InfoValue == Struct(<<Number(0), StateValue, Map(<<>>), Number(0)>>)

Hashed == WithParts(WithParts({CommandValue(c) : c \in Command} \cup {StateValue, InfoValue}))

H == INSTANCE Hash WITH Value <- Hashed, Kind <- KindOf, Content <- ContentOf,
                        Visits <- VisitsOf

HashedCommand == [c \in Command |-> H!hash[CommandValue(c)].sum]
HashedState == H!hash[StateValue].sum
HashedInfo == H!hash[InfoValue].sum

InFlight ==
  Cardinality(msgs)
    + Cardinality(UNION {{<<s, job.phase>> : job \in outbox[s]} : s \in Server})
      <= MaxInFlight

\* The bound of the runs that follow four servers to a stable checkpoint: requests in
\* flight only, however many goroutines have not sent yet; of the COMMITs the running
\* servers broadcast, one for each prepare counted, nothing is followed past the first;
\* nor from where two servers have stopped.
CommitsSent(s) ==
  {<<s, p.SenderIndex>> : p \in
     {q \in UNION {serverLog[s][n].prepareArgs : n \in {k \in Slot : Logged(s, k)}} :
        /\ q.SenderIndex # s
        /\ \A job \in outbox[s] :
             job.phase = "COMMIT" => job.args.arg.copy # Nth(s, q.SenderIndex)}}

InFlightToStable ==
  /\ Cardinality(msgs) <= MaxInFlight
  /\ Cardinality({s \in Server : ~running[s]}) <= 1
  /\ Cardinality(UNION {CommitsSent(s) : s \in {t \in Server : running[t]}}) <= 1
=============================================================================
