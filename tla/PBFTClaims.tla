----------------------------- MODULE PBFTClaims -----------------------------
(***************************************************************************)
(* What comments and documents of the repository say of the servers, and   *)
(* the servers of module PBFT do not do.  Each is refuted by a run.        *)
(***************************************************************************)
EXTENDS PBFTProperties

\* rpcHandler.go:146, "go into the commit phase for this command after 2F + 1
\* replies": a server that sends a COMMIT has counted 2f + 1 prepares.  The test
\* before it is the other way round, and the first prepare starts the commit.
CommitAfterQuorum ==
  \A s \in Server : \A job \in outbox[s] :
    job.phase = "COMMIT" => Prepared(s, job.args.arg.SequenceNumber)

\* design_spec:8, "F - the number of servers that can fail": as long as at most F
\* servers stop, the others go on.  sendRPCs ends the caller's own process when
\* any peer cannot be dialled.
FailuresTolerated ==
  Cardinality(failed) <= numFailableServers =>
    \A s \in Server \ failed : running[s]

\* rpcHandler.go:453, "return if you do not have this checkpoint started": a
\* confirmation for a checkpoint the server has not started (its own commit is still
\* on its way) is not the end of the server.
UnstartedCheckPointIgnored ==
  [][\A s \in Server : \A m \in msgs :
       /\ HandleCheckPointRPC_Check(s, m)
       /\ checkPoints[s][m.args.arg.SequenceNumber] = NoCheckPoint
       => running'[s]]_vars
=============================================================================
