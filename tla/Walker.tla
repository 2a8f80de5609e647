------------------------------- MODULE Walker -------------------------------
(***************************************************************************)
(* walker.visit of hashstructure.go, call by call: the stack of the calls  *)
(* that have not returned, each with the sum it has and the part it is at, *)
(* and what the last call returned.                                        *)
(***************************************************************************)
EXTENDS Hash

CONSTANT Unset

ASSUME UnsetAssumption == Unset \notin [sum : Nat, err : BOOLEAN]

VARIABLES
  root,       \* the argument of Hash
  stack,      \* the calls of visit under way, the outermost first
  returned    \* what the call that returned last returned, until its caller takes it

vars == <<root, stack, returned>>

Call == [value : Value, parts : Seq(Value), at : Nat, h : Nat, kh : Nat]

Top == stack[Len(stack)]
Callers == SubSeq(stack, 1, Len(stack) - 1)

Init ==
  /\ root \in Value
  /\ stack = <<>> /\ returned = Unset

-----------------------------------------------------------------------------
\* The next turn of a call's loop.  Mutants: the counter is left alone, or counts two.
Advanced_stuck(call) == call
Advanced_twice(call) == [call EXCEPT !.at = @ + 2]
Advanced(call) == [call EXCEPT !.at = @ + 1]

\* A call of visit: it returns at once, or starts with the first part.
visit(v, callers) ==
  IF Kind(v) \in Composite
  THEN /\ \E parts \in Visits(v) :
            stack' = Append(callers,
                            [value |-> v, parts |-> parts, at |-> 0, h |-> 0, kh |-> 0])
       /\ UNCHANGED returned
  ELSE stack' = callers /\ returned' = Leaf(v)

\* Hash calls visit with what it was given.
Hash ==
  /\ stack = <<>> /\ returned = Unset
  /\ visit(root, stack)
  /\ UNCHANGED root

\* The innermost call goes on to its next part, which it calls visit for.
VisitPart ==
  /\ stack # <<>> /\ returned = Unset
  /\ Top.at < Len(Top.parts)
  /\ visit(Top.parts[Top.at + 1], [stack EXCEPT ![Len(stack)] = Advanced(@)])
  /\ UNCHANGED root

\* It has visited all of them.
Return ==
  /\ stack # <<>> /\ returned = Unset
  /\ Top.at = Len(Top.parts)
  /\ stack' = Callers
  /\ returned' = Result(Top.h, FALSE)
  /\ UNCHANGED root

\* What a part that could not be hashed makes of the whole: only slices pass the error on.
\* Mutant: all do.
Failed_always(call) == Result(0, TRUE)
Failed(call) == IF Kind(call.value) = "slice" THEN Result(0, TRUE) ELSE Unhashable

IsName(call) == Kind(call.value) = "struct" /\ call.at = 1
IsKey(call) ==
  \/ Kind(call.value) = "struct" /\ call.at > 1 /\ call.at % 2 = 0
  \/ Kind(call.value) = "map" /\ call.at % 2 = 1

\* The call with the sum of the part it is at.
Updated(call, sum) ==
  CASE Kind(call.value) = "slice" -> [call EXCEPT !.h = hashUpdateOrdered(@, sum)]
    [] IsName(call)               -> [call EXCEPT !.h = sum]
    [] IsKey(call)                -> [call EXCEPT !.kh = sum]
    [] OTHER                      ->
         [call EXCEPT !.h = hashUpdateUnordered(@, hashUpdateOrdered(call.kh, sum))]

\* The innermost call takes what the visit of its part returned.
TakeSum ==
  /\ stack # <<>> /\ returned # Unset /\ ~returned.err
  /\ stack' = [stack EXCEPT ![Len(stack)] = Updated(@, returned.sum)]
  /\ returned' = Unset
  /\ UNCHANGED root

TakeError ==
  /\ stack # <<>> /\ returned # Unset /\ returned.err
  /\ stack' = Callers
  /\ returned' = Failed(Top)
  /\ UNCHANGED root

Next == Hash \/ VisitPart \/ Return \/ TakeSum \/ TakeError

Spec == Init /\ [][Next]_vars

\* Hash runs in one goroutine, which goes on.
FairSpec == Spec /\ WF_vars(Next)

-----------------------------------------------------------------------------
Done == stack = <<>> /\ returned # Unset

\* A call is of a value with parts, in one of the orders it may take them; the
\* outermost one is of the argument of Hash.
TypeOK ==
  /\ root \in Value
  /\ stack \in Seq(Call)
  /\ \A i \in DOMAIN stack :
       /\ Kind(stack[i].value) \in Composite
       /\ stack[i].parts \in Visits(stack[i].value) /\ stack[i].at <= Len(stack[i].parts)
  /\ stack # <<>> => stack[1].value = root
  /\ returned \in {Unset} \cup [sum : Nat, err : BOOLEAN]

\* The callers hash structs and maps (messages, commands, checkpoints, the stored
\* state) and panic on an error: none ever comes.
CallersNeverPanic ==
  Done /\ Kind(root) \in {"struct", "map"} => ~returned.err

\* Any two values hash to the same number, whatever they hold and in whatever order a
\* map gives its keys: a digest says nothing of a command, and a signature only whose
\* key made it.  hashstructure.go:52 says that adding an exported field will change the
\* hash value, and 55 that tags control it; but the error a struct's own name comes back
\* with ends its visit before any field.
DigestsCoincide == Done => returned.sum = 0

\* The walk returns what visit as a function says, whatever the order in which it meets
\* a map's keys, and wherever an error ends the visit of a value.
WalkComputesHash == Done => returned = hash[root]
=============================================================================
