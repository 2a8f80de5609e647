---------------------------- MODULE SequencedLog ----------------------------
(***************************************************************************)
(* What the pre-prepare phase promises: one order of commands, filled slot *)
(* by slot, that the other servers only ever copy from.                    *)
(***************************************************************************)
EXTENDS Integers

CONSTANTS Learner, Slot, Command, None

VARIABLES
  order,   \* the command at each slot
  known    \* what each learner holds at each slot

vars == <<order, known>>

Init ==
  /\ order = [n \in Slot |-> None]
  /\ known = [s \in Learner |-> [n \in Slot |-> None]]

\* The first free slot gets a command that has none yet.
Assign(n, c) ==
  /\ \A k \in Slot : order[k] # None <=> k < n
  /\ \A k \in Slot : order[k] # c
  /\ order' = [order EXCEPT ![n] = c]
  /\ UNCHANGED known

\* A learner copies a slot it does not hold, in any order of slots.
Learn(s, n) ==
  /\ order[n] # None /\ known[s][n] = None
  /\ known' = [known EXCEPT ![s][n] = order[n]]
  /\ UNCHANGED order

\* A learner that is started again holds nothing.
Forget(s) ==
  /\ known' = [known EXCEPT ![s] = [n \in Slot |-> None]]
  /\ UNCHANGED order

Next ==
  \E n \in Slot :
    \/ \E c \in Command : Assign(n, c)
    \/ \E s \in Learner : Learn(s, n)

Spec == Init /\ [][Next]_vars
=============================================================================
