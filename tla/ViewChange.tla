----------------------------- MODULE ViewChange -----------------------------
(***************************************************************************)
(* The view change over the servers of module PBFT: startViewChange,       *)
(* HandleViewChangeRPC, and pbft.state, which makes the other handlers     *)
(* return.  startViewChange is taken to be called at any time, as if       *)
(* runningState found its timer expired (module RunningState shows that it *)
(* does not).  HandleViewChangeRPC calls changeState first, which ends the *)
(* process unless two calls of isChangingView are under way (LockDebt of   *)
(* module RunningState); both outcomes are here.                           *)
(***************************************************************************)
EXTENDS PBFTProperties

CONSTANT MaxStarts   \* bound: times startViewChange is called

ASSUME StartsAssumption == MaxStarts \in Nat

VARIABLES
  changing,     \* is state CHANGING_VIEW
  early,        \* requests that were in flight when it became so: their handlers may
                \* have looked at state before
  owed,         \* calls of isChangingView whose Unlock changeState has made already
  starts,       \* how often startViewChange was called
  leaving,      \* VIEW_CHANGE messages whose goroutine has not sent yet
  vcMsgs,       \* VIEW_CHANGE requests in flight
  viewChanges,  \* the field: VIEW_CHANGE messages a server has accepted
  newViews      \* NEW_VIEW messages made

callVars == <<leaving, vcMsgs>>
vcVars == <<changing, early, owed, starts, callVars, viewChanges, newViews>>
allVars == <<vars, vcVars>>

PrepareMForViewChange == [SequenceNumber : Slot, PrepareMessages : SUBSET VoteArg]
ViewChangeArg ==
  [NextView : Nat, LastCheckPointSequenceNumber : Nat,
   LastCheckPointMessages : SUBSET Server,
   PreparedMessages : SUBSET PrepareMForViewChange, SenderID : Server]

VCInit ==
  /\ changing = [s \in Server |-> FALSE]
  /\ early = [s \in Server |-> {}]
  /\ owed = [s \in Server |-> 0]
  /\ starts = 0
  /\ leaving = [s \in Server |-> {}]
  /\ vcMsgs = {}
  /\ viewChanges = [s \in Server |-> {}]
  /\ newViews = {}

-----------------------------------------------------------------------------
\* The requests to s whose handler calls isChangingView.
Gated(s) == {m \in msgs : m.to = s /\ m.phase # "FORWARD_COMMAND"}

\* state becomes CHANGING_VIEW.
ChangeState(s) ==
  /\ changing' = [changing EXCEPT ![s] = TRUE]
  /\ early' = [early EXCEPT ![s] = IF changing[s] THEN @ ELSE Gated(s)]

\* A process that ends takes what it has not sent and what is on its way to it.  One
\* that goes on keeps inside isChangingView as many calls as it owes.
Survivors ==
  \A s \in Server : running'[s] /\ owed'[s] > 0 => Cardinality(Gated(s)') >= owed'[s]

Cleanly ==
  /\ early' = [s \in Server |-> early[s] \cap msgs']
  /\ leaving' = [s \in Server |-> IF running'[s] THEN leaving[s] ELSE {}]
  /\ vcMsgs' = {m \in vcMsgs : running'[m.to]}
  /\ UNCHANGED <<changing, owed, starts, viewChanges, newViews>>
  /\ Survivors

-----------------------------------------------------------------------------
(* Starting a view change.                                                  *)

\* "prepared" asks for exactly a majority of prepares.  Mutants: for more than a
\* majority; no prepare is asked for.
PreparedNotCommitted_more(e) ==
  /\ Cardinality(e.prepareArgs) > calculateMajority
  /\ Cardinality(e.commitArgs) # calculateMajority
PreparedNotCommitted_any(e) == Cardinality(e.commitArgs) # calculateMajority
PreparedNotCommitted(e) ==
  /\ Cardinality(e.prepareArgs) = calculateMajority
  /\ Cardinality(e.commitArgs) # calculateMajority

\* Mutant: the view before.
NextView_previous(s) == view[s] - 1
NextView(s) == view[s] + 1

makeViewChangeArguments(s) ==
  LET last == lastCheckPointSeqNumber[s]
      prepared == {n \in Slot : Logged(s, n) /\ PreparedNotCommitted(serverLog[s][n])}
  IN makeArguments(s, "ViewChange",
       [NextView |-> NextView(s),
        LastCheckPointSequenceNumber |-> last,
        LastCheckPointMessages |->
          IF last \in Slot /\ checkPoints[s][last] # NoCheckPoint
          THEN checkPoints[s][last].ConfirmedServers ELSE {},
        PreparedMessages |->
          {[SequenceNumber |-> n, PrepareMessages |-> serverLog[s][n].prepareArgs] :
             n \in prepared},
        SenderID |-> s])

startViewChange(s) ==
  /\ running[s] /\ ~changing[s] /\ ~serverLock[s]
  /\ starts < MaxStarts
  /\ starts' = starts + 1
  /\ ChangeState(s)
  /\ leaving' = [leaving EXCEPT ![s] = @ \cup {makeViewChangeArguments(s)}]
  /\ UNCHANGED <<vars, owed, vcMsgs, viewChanges, newViews>>

\* sendRPCs for VIEW_CHANGE: to the leader of the next view and nobody else.
sendViewChange(s, args) ==
  LET newLeader == leader(view[s] + 1)
  IN /\ running[s] /\ args \in leaving[s] /\ ~serverLock[s]
     /\ \/ /\ running[newLeader]
           /\ leaving' = [leaving EXCEPT ![s] = @ \ {args}]
           /\ vcMsgs' = vcMsgs \cup {[to |-> newLeader, args |-> args]}
           /\ UNCHANGED <<vars, changing, early, owed, starts, viewChanges, newViews>>
        \/ /\ ~running[newLeader]
           /\ Exit(s) /\ UNCHANGED envVars
           /\ Cleanly

-----------------------------------------------------------------------------
(* HandleViewChangeRPC.                                                     *)

\* Every VIEW_CHANGE is refused that names a view not above this server's, or one
\* whose leader's index is not the number of this server's own view.
\* Mutant: its index is compared.
Refused_index(s, next) == next <= view[s] \/ leader(next) # s
Refused(s, next) == next <= view[s] \/ leader(next) # view[s]

\* createPreprepareMessages asserts the type of a pre-prepare no log entry has, so
\* it returns only if no slot is prepared.
NothingPrepared(changes) ==
  \A args \in changes : args.arg.PreparedMessages = {}

\* The body, past changeState.  The entries for the new view are added while the
\* server is still in the old one, so addLogEntry refuses them.
TakeViewChange(s, args) ==
  LET next == args.arg.NextView
      known == {a \in viewChanges[s] : a.arg.NextView = next}
      changes == known \cup {args}
  IN IF \/ leader(next) # s
        \/ ~verifySignatures(args, args.arg.SenderID)
        \/ Refused(s, next)
        \/ \E a \in known : a.arg.SenderID = args.arg.SenderID
     THEN UNCHANGED <<vars, viewChanges, newViews>>
     ELSE IF Cardinality(changes) < 2 * numFailableServers
     THEN /\ viewChanges' = [viewChanges EXCEPT ![s] = @ \cup {args}]
          /\ UNCHANGED <<vars, newViews>>
     ELSE /\ viewChanges' = [viewChanges EXCEPT
               ![s] = @ \cup {args, makeViewChangeArguments(s)}]
          /\ IF NothingPrepared(changes \cup {makeViewChangeArguments(s)})
             THEN /\ view' = [view EXCEPT ![s] = next]
                  /\ newViews' = newViews \cup {next}
                  /\ UNCHANGED <<running, disk, envVars, netVars, sequenceNumber,
                                 serverLog, clientRegisters, ckptVars, chanVars>>
             ELSE Exit(s) /\ UNCHANGED <<envVars, newViews>>

HandleViewChangeRPC(s, m) ==
  /\ running[s] /\ m \in vcMsgs /\ m.to = s
  /\ \/ /\ Exit(s) /\ UNCHANGED envVars
        /\ Cleanly
     \/ /\ ~serverLock[s]
        /\ Cardinality(Gated(s)) >= owed[s] + 2
        /\ owed' = [owed EXCEPT ![s] = @ + 2]
        /\ ChangeState(s)
        /\ TakeViewChange(s, m.args)
        /\ leaving' = [t \in Server |-> IF running'[t] THEN leaving[t] ELSE {}]
        /\ vcMsgs' = {q \in vcMsgs \ {m} : running'[q.to]}
        /\ UNCHANGED starts

\* The end of a process that owes an Unlock.
UnlockUnlocked(s) ==
  /\ running[s] /\ owed[s] > 0
  /\ Exit(s) /\ UNCHANGED envVars
  /\ Cleanly

-----------------------------------------------------------------------------
(* The other handlers.                                                      *)

\* A handler that finds the view changing returns.
Return(s, m) ==
  /\ running[s] /\ changing[s]
  /\ m \in Gated(s) \ waiting
  /\ msgs' = msgs \ {m}
  /\ UNCHANGED <<running, disk, envVars, waiting, outbox, replies, logVars, ckptVars,
                 chanVars>>

NormalStep(s) ==
  \/ \E c \in Command : s \in Contacted /\ Start(s, c)
  \/ Goroutine(s)
  \/ \E m \in msgs :
       \/ ReceiveForwardedCommand(s, m)
       \/ (~changing[s] \/ m \in early[s]) /\ GatedHandler(s, m)
       \/ Return(s, m)
  \/ HandleCommitRPC_Save(s)
  \/ \E a \in checking[s] : HandleCheckPointRPC_Record(s, a)
  \/ Crash(s)

VCNext ==
  \E s \in Server :
    \/ NormalStep(s) /\ Cleanly
    \/ startViewChange(s)
    \/ \E args \in leaving[s] : sendViewChange(s, args)
    \/ \E m \in vcMsgs : HandleViewChangeRPC(s, m)
    \/ UnlockUnlocked(s)

VCSpec == Init /\ VCInit /\ [][VCNext]_allVars

-----------------------------------------------------------------------------
VCTypeOK ==
  /\ changing \in [Server -> BOOLEAN]
  /\ early \in [Server -> SUBSET msgs]
  /\ \A s \in Server : early[s] \subseteq Gated(s)
  /\ owed \in [Server -> Nat] /\ starts \in 0 .. MaxStarts
  /\ leaving \in [Server -> SUBSET Signed("ViewChange", ViewChangeArg)]
  /\ \A m \in vcMsgs :
       m.to \in Server /\ m.args \in Signed("ViewChange", ViewChangeArg)
  /\ viewChanges \in [Server -> SUBSET Signed("ViewChange", ViewChangeArg)]
  /\ newViews \subseteq Nat

\* However many servers start a view change, and whichever of those that get a
\* VIEW_CHANGE live on, none is ever accepted, no NEW_VIEW is made, and no server
\* leaves view 0.  rpcHandler.go:297 means to refuse a server that is "not supposed to be
\* a leader", and 335 to send the new view to everyone; but the test compares the new
\* leader with the view, and refuses the one server the first test lets through.
ViewNeverMoves == OneView /\ newViews = {} /\ \A s \in Server : viewChanges[s] = {}

\* Each slot a VIEW_CHANGE names as prepared is one where 2f + 1 servers hold the
\* sender's command, though its prepares are not verified again.
CertificateBacked ==
  \A args \in (UNION {leaving[s] : s \in Server}) \cup {m.args : m \in vcMsgs} :
    \A p \in args.arg.PreparedMessages :
      LET sender == args.arg.SenderID
          n == p.SequenceNumber
      IN /\ Logged(sender, n)
         /\ Cardinality({t \in Server : Holds(t, n, serverLog[sender][n].message)})
              >= calculateMajority

\* A VIEW_CHANGE names every slot its sender has prepared: a slot with more prepares
\* than a majority would be left out, and with four servers there is none.
PreparedCarried ==
  [][\A s \in Server : \A args \in leaving'[s] \ leaving[s] :
       {p.SequenceNumber : p \in args.arg.PreparedMessages}
         = {n \in Slot : Prepared(s, n)}]_allVars
=============================================================================
