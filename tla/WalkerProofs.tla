---------------------------- MODULE WalkerProofs ----------------------------
(***************************************************************************)
(* Every walk ends in the same sum, whatever it walks.                     *)
(***************************************************************************)
EXTENDS Walker, SequenceTheorems, WellFoundedInduction, TLAPS

-----------------------------------------------------------------------------
(* The sums are 0.                                                          *)

LEMMA NothingSummed ==
  /\ \A a, b : hashUpdateOrdered(a, b) = 0
  /\ hashUpdateUnordered(0, 0) = 0
  /\ \A x : visitNumber(x) = Result(0, FALSE) /\ visitString(x) = Result(0, TRUE)
  BY XorAssumption
  DEF hashUpdateOrdered, hashUpdateUnordered, visitNumber, visitString, ReadVarint, SumInto,
      Result

Outcome == {Result(0, FALSE), Result(0, TRUE)}

LEMMA OutcomeFields ==
  ASSUME NEW r \in Outcome
  PROVE  /\ r.sum = 0 /\ r.err \in BOOLEAN /\ r # Unset
         /\ r \in [sum : Nat, err : BOOLEAN]
  <1>1. PICK b \in BOOLEAN : r = [sum |-> 0, err |-> b]
    BY DEF Outcome, Result
  <1>2. r.sum = 0 /\ r.err \in BOOLEAN
    BY <1>1
  <1>3. r \in [sum : Nat, err : BOOLEAN]
    BY <1>1
  <1> QED BY <1>2, <1>3, UnsetAssumption

LEMMA LeafOutcome ==
  ASSUME NEW v
  PROVE  Leaf(v) \in Outcome /\ (Kind(v) = "string" => Leaf(v).err)
  BY NothingSummed DEF Leaf, visitUnknown, Outcome, Result

-----------------------------------------------------------------------------
(* The hash of a value is a function of the hashes of its parts.            *)

\* A set of natural numbers has a least element.  (Induction on a length is done by
\* looking for the least index at which a statement fails.)
LEMMA LeastOf ==
  ASSUME NEW T, T \subseteq Nat, T # {}
  PROVE  \E x \in T : \A y \in T : x <= y
  <1> DEFINE R == OpToRel(<, Nat)
  <1>1. IsWellFoundedOn(R, Nat)
    BY NatLessThanWellFounded
  <1>2. \A x, y \in Nat : y < x => <<y, x>> \in R
    BY DEF OpToRel
  <1> HIDE DEF R
  <1>3. PICK x \in T : \A y \in T : <<y, x>> \notin R
    BY <1>1, WFMin
  <1>4. \A y \in T : ~ (y < x)
    BY <1>2, <1>3
  <1>5. \A y \in T : x <= y
    BY <1>4
  <1> QED BY <1>5

\* Whatever is summed in order, the sum is 0.
LEMMA OrderedZero ==
  ASSUME NEW sums, Len(sums) \in Nat
  PROVE  sumOrdered(sums) = 0
  <1> DEFINE n == Len(sums)
             Equation(f) == f = [i \in 0 .. n |->
                                   IF i = 0 THEN 0 ELSE hashUpdateOrdered(f[i - 1], sums[i])]
             h == CHOOSE f : Equation(f)
  <1>1. Equation([i \in 0 .. n |-> 0])
    BY NothingSummed
  <1>2. Equation(h)
    BY <1>1
  <1> HIDE DEF h
  <1>3. h[n] = 0
    BY <1>2, NothingSummed
  <1> QED BY <1>3 DEF sumOrdered, h

\* Nor do zeros in no order sum to anything else.
LEMMA UnorderedZero ==
  ASSUME NEW sums, Len(sums) \in Nat, \A i \in 1 .. Len(sums) : sums[i] = 0
  PROVE  sumUnordered(0, sums) = 0
  <1> DEFINE n == Len(sums)
             Equation(f) == f = [i \in 0 .. n |->
                                   IF i = 0 THEN 0 ELSE hashUpdateUnordered(f[i - 1], sums[i])]
             h == CHOOSE f : Equation(f)
  <1>1. Equation([i \in 0 .. n |-> 0])
    BY NothingSummed
  <1>2. Equation(h)
    BY <1>1
  <1> HIDE DEF h
  <1>3. ASSUME h[n] # 0
        PROVE  FALSE
    <2> DEFINE T == {i \in 0 .. n : h[i] # 0}
    <2>1. T \subseteq Nat /\ T # {}
      BY <1>3
    <2>2. PICK x \in T : \A y \in T : x <= y
      BY <2>1, LeastOf
    <2>3. x # 0
      BY <1>2
    <2>4. x \in 1 .. n /\ h[x - 1] = 0
      BY <2>2, <2>3
    <2> QED BY <1>2, <2>4, NothingSummed
  <1> QED BY <1>3 DEF sumUnordered, h

LEMMA ItemsForm ==
  ASSUME NEW results, Len(results) \in Nat
  PROVE  visitItems(results) = IF \E i \in 1 .. Len(results) : results[i].err
                               THEN Result(0, TRUE) ELSE Result(0, FALSE)
  <1> DEFINE sums == [i \in 1 .. Len(results) |-> results[i].sum]
  <1>1. Len(sums) = Len(results)
    OBVIOUS
  <1> HIDE DEF sums
  <1>2. sumOrdered(sums) = 0
    BY <1>1, OrderedZero
  <1> QED BY <1>2 DEF visitItems, sums

LEMMA PairsForm ==
  ASSUME NEW results, Len(results) \in Nat
  PROVE  visitPairs(0, results) = Result(0, FALSE)
  <1> DEFINE n == Len(results) \div 2
             sums == [i \in 1 .. n |-> hashUpdateOrdered(results[2 * i - 1].sum,
                                                         results[2 * i].sum)]
  <1>1. n \in Nat
    OBVIOUS
  <1> HIDE DEF n
  <1>2. Len(sums) = n /\ \A i \in 1 .. n : sums[i] = 0
    BY <1>1, NothingSummed
  <1> HIDE DEF sums
  <1>3. sumUnordered(0, sums) = 0
    BY <1>1, <1>2, UnorderedZero
  <1> QED BY <1>3 DEF visitPairs, Unhashable, sums, n

\* The value of each part in turn, looked up in h.
FailsIn(h, v) == \E parts \in Visits(v) : \E i \in 1 .. Len(parts) : h[parts[i]].err

\* What visit makes of the results of the parts: only a slice looks at them.
Form(h, v) ==
  CASE Kind(v) = "slice"           -> IF FailsIn(h, v) THEN Result(0, TRUE) ELSE Result(0, FALSE)
    [] Kind(v) \in {"map", "struct"} -> Result(0, FALSE)
    [] OTHER                       -> Leaf(v)

LEMMA VisitForm ==
  ASSUME NEW h, \A u \in Value : Kind(u) = "string" => h[u] = Leaf(u),
         NEW v \in Value
  PROVE  visitWith(h, v) = Form(h, v)
  <1> DEFINE parts == CHOOSE p \in Visits(v) : TRUE
             results == [i \in 1 .. Len(parts) |-> h[parts[i]]]
  <1>1. CASE Kind(v) \notin Composite
    BY <1>1 DEF visitWith, Form, Composite
  <1>2. CASE Kind(v) \in Composite
    <2>1. parts \in Visits(v) /\ parts \in Seq(Value) /\ Len(parts) \in Nat
      BY <1>2, ValueAssumption, LenProperties
    <2>2. Kind(v) = "slice" => Visits(v) = {parts}
      BY <2>1, ValueAssumption
    <2>3. Kind(v) = "struct" => parts # <<>> /\ Kind(parts[1]) = "string"
      BY <2>1, ValueAssumption
    <2> HIDE DEF parts
    <2>4. Len(results) = Len(parts) /\ \A i \in 1 .. Len(parts) : results[i] = h[parts[i]]
      BY <2>1
    <2> HIDE DEF results
    <2>5. CASE Kind(v) = "slice"
      <3>1. visitWith(h, v) = visitItems(results)
        BY <2>5 DEF visitWith, parts, results
      <3>2. FailsIn(h, v) <=> \E i \in 1 .. Len(results) : results[i].err
        BY <2>2, <2>4, <2>5 DEF FailsIn
      <3> QED BY <2>1, <2>4, <2>5, <3>1, <3>2, ItemsForm DEF Form
    <2>6. CASE Kind(v) = "map"
      <3>1. visitWith(h, v) = visitPairs(0, results)
        BY <2>6 DEF visitWith, parts, results
      <3> QED BY <2>1, <2>4, <2>6, <3>1, PairsForm DEF Form
    <2>7. CASE Kind(v) = "struct"
      <3>1. visitWith(h, v) = visitStruct(results)
        BY <2>7 DEF visitWith, parts, results
      <3>2. parts[1] \in Value /\ results[1] = h[parts[1]]
        BY <2>1, <2>3, <2>4, <2>7, EmptySeq
      <3>3. results[1].err
        BY <2>3, <2>7, <3>2, LeafOutcome
      <3> QED BY <2>7, <3>1, <3>3 DEF visitStruct, Unhashable, Form
    <2> QED BY <1>2, <2>5, <2>6, <2>7 DEF Composite
  <1> QED BY <1>1, <1>2

\* The values that come with an error if those of S do, and the least set closed under it.
Failing(S) ==
  {v \in Value : \/ Kind(v) \notin Composite /\ Leaf(v).err
                 \/ /\ Kind(v) = "slice"
                    /\ \E parts \in Visits(v) : \E i \in 1 .. Len(parts) : parts[i] \in S}

Fails == {v \in Value : \A S \in SUBSET Value : Failing(S) \subseteq S => v \in S}

LEMMA FailsFixed == Failing(Fails) = Fails
  <1>1. \A S, U : S \subseteq U => Failing(S) \subseteq Failing(U)
    BY DEF Failing
  <1>2. \A S \in SUBSET Value : Failing(S) \subseteq S => Fails \subseteq S
    BY DEF Fails
  <1>3. Failing(Fails) \subseteq Fails
    <2> SUFFICES ASSUME NEW v \in Failing(Fails), NEW S \in SUBSET Value, Failing(S) \subseteq S
                 PROVE  v \in S
      BY DEF Fails, Failing
    <2> QED BY <1>1, <1>2
  <1>4. Failing(Failing(Fails)) \subseteq Failing(Fails) /\ Failing(Fails) \in SUBSET Value
    BY <1>1, <1>3 DEF Failing
  <1> QED BY <1>2, <1>3, <1>4

\* visit as a function obeys its equation, although values may nest without end: there is
\* a function that does.
LEMMA HashEquation == \A v \in Value : hash[v] = visitWith(hash, v)
  <1> DEFINE Equation(h) == h = [v \in Value |-> visitWith(h, v)]
             f == [v \in Value |-> IF Kind(v) \notin Composite THEN Leaf(v)
                                   ELSE IF v \in Fails THEN Result(0, TRUE) ELSE Result(0, FALSE)]
  <1>1. \A v \in Value : f[v].err <=> v \in Fails
    <2> SUFFICES ASSUME NEW v \in Value
                 PROVE  f[v].err <=> v \in Fails
      OBVIOUS
    <2>1. CASE Kind(v) \notin Composite
      <3>1. v \in Fails <=> Leaf(v).err
        BY <2>1, FailsFixed DEF Failing, Composite
      <3> QED BY <2>1, <3>1
    <2>2. CASE Kind(v) \in Composite
      BY <2>2 DEF Result
    <2> QED BY <2>1, <2>2
  <1>2. \A v \in Value : f[v] = Form(f, v)
    <2> SUFFICES ASSUME NEW v \in Value
                 PROVE  f[v] = Form(f, v)
      OBVIOUS
    <2>1. CASE Kind(v) = "slice"
      <3>1. \A parts \in Visits(v) : \A i \in 1 .. Len(parts) : parts[i] \in Value
        BY ValueAssumption
      <3>2. FailsIn(f, v) <=> v \in Fails
        <4>1. v \in Fails <=>
                \E parts \in Visits(v) : \E i \in 1 .. Len(parts) : parts[i] \in Fails
          BY <2>1, FailsFixed DEF Failing, Composite
        <4> HIDE DEF f
        <4> QED BY <1>1, <3>1, <4>1 DEF FailsIn
      <3> QED BY <2>1, <3>2 DEF Form, Composite
    <2>2. CASE Kind(v) \in {"map", "struct"}
      <3>1. v \notin Fails
        BY <2>2, FailsFixed DEF Failing, Composite
      <3> QED BY <2>2, <3>1 DEF Form, Composite
    <2>3. CASE Kind(v) \notin Composite
      BY <2>3 DEF Form, Composite
    <2> QED BY <2>1, <2>2, <2>3 DEF Composite
  <1>3. \A u \in Value : Kind(u) = "string" => f[u] = Leaf(u)
    BY DEF Composite
  <1>4. Equation(f)
    <2>1. \A v \in Value : visitWith(f, v) = f[v]
      <3> HIDE DEF f
      <3> QED BY <1>2, <1>3, VisitForm
    <2> QED BY <2>1
  <1> HIDE DEF f
  <1>5. Equation(CHOOSE h : Equation(h))
    BY <1>4
  <1> QED BY <1>5 DEF hash

\* The hash of a value of each kind.
LEMMA HashForms ==
  ASSUME NEW v \in Value
  PROVE  /\ hash[v] = Form(hash, v)
         /\ Kind(v) \notin Composite => hash[v] = Leaf(v)
         /\ Kind(v) \in {"map", "struct"} => hash[v] = Result(0, FALSE)
         /\ Kind(v) = "slice" =>
              \A parts \in Visits(v) :
                hash[v] = IF \E i \in 1 .. Len(parts) : hash[parts[i]].err
                          THEN Result(0, TRUE) ELSE Result(0, FALSE)
  <1>1. \A u \in Value : Kind(u) = "string" => hash[u] = Leaf(u)
    BY HashEquation DEF visitWith
  <1>2. hash[v] = Form(hash, v)
    BY <1>1, HashEquation, VisitForm
  <1>3. Kind(v) = "slice" =>
          \A p \in Visits(v) : FailsIn(hash, v) <=> \E i \in 1 .. Len(p) : hash[p[i]].err
    BY ValueAssumption DEF FailsIn
  <1> QED BY <1>2, <1>3 DEF Form, Composite

-----------------------------------------------------------------------------
(* The invariant.                                                           *)

\* A call of a value with parts, that has summed nothing yet.
SoundCall(call) ==
  /\ call \in Call /\ Kind(call.value) \in Composite
  /\ call.parts \in Visits(call.value) /\ call.at <= Len(call.parts)
  /\ call.h = 0 /\ call.kh = 0

SoundStack(s) == s \in Seq(Call) /\ \A i \in 1 .. Len(s) : SoundCall(s[i])

\* A struct's call is the innermost one, and is at its name or before it.
AtName(i) ==
  Kind(stack[i].value) = "struct" =>
    /\ i = Len(stack)
    /\ \/ stack[i].at = 0 /\ returned = Unset
       \/ stack[i].at = 1 /\ returned # Unset /\ returned.err

WalkInv ==
  /\ root \in Value /\ SoundStack(stack)
  /\ stack # <<>> => stack[1].value = root
  /\ returned \in Outcome \cup {Unset}
  /\ \A i \in 1 .. Len(stack) : AtName(i)
  /\ CallersNeverPanic

LEMMA TopSound ==
  ASSUME SoundStack(stack), stack # <<>>
  PROVE  /\ Len(stack) \in Nat \ {0} /\ Top \in Call /\ SoundCall(Top)
         /\ Top.parts \in Seq(Value) /\ Top.value \in Value
  <1>1. Len(stack) \in Nat \ {0}
    BY EmptySeq DEF SoundStack
  <1>2. SoundCall(Top)
    BY <1>1 DEF SoundStack, Top
  <1> QED BY <1>1, <1>2 DEF SoundCall, Call

\* The innermost call replaced, or gone.
LEMMA TopReplaced ==
  ASSUME SoundStack(stack), stack # <<>>, NEW call, SoundCall(call)
  PROVE  LET s == [stack EXCEPT ![Len(stack)] = call]
         IN /\ SoundStack(s) /\ Len(s) = Len(stack) /\ s # <<>>
            /\ \A i \in 1 .. Len(s) : s[i] = IF i = Len(stack) THEN call ELSE stack[i]
  <1>1. Len(stack) \in Nat \ {0} /\ call \in Call /\ stack \in Seq(Call)
    BY TopSound DEF SoundStack, SoundCall
  <1> DEFINE s == [stack EXCEPT ![Len(stack)] = call]
  <1>2. /\ s \in Seq(Call) /\ Len(s) = Len(stack)
        /\ \A i \in 1 .. Len(s) : s[i] = IF i = Len(stack) THEN call ELSE stack[i]
    BY <1>1, ExceptSeq
  <1> HIDE DEF s
  <1>3. s # <<>>
    BY <1>1, <1>2
  <1>4. \A i \in 1 .. Len(s) : SoundCall(s[i])
    BY <1>2 DEF SoundStack
  <1> QED BY <1>2, <1>3, <1>4 DEF SoundStack, s

LEMMA TopGone ==
  ASSUME SoundStack(stack), stack # <<>>
  PROVE  /\ SoundStack(Callers) /\ Len(Callers) = Len(stack) - 1
         /\ \A i \in 1 .. Len(Callers) : Callers[i] = stack[i]
         /\ Callers # <<>> => Len(stack) > 1
  <1>1. Len(stack) \in Nat \ {0} /\ stack \in Seq(Call)
    BY TopSound DEF SoundStack
  <1>2. \A i \in 1 .. Len(stack) - 1 : stack[i] \in Call
    BY <1>1
  <1> DEFINE n == Len(stack) - 1
             len == Len(Callers)
  <1>3. /\ Callers \in Seq(Call)
        /\ len = IF 1 <= n THEN n - 1 + 1 ELSE 0
        /\ \A i \in 1 .. n - 1 + 1 : Callers[i] = stack[1 + i - 1]
    <2>1. 1 \in Int /\ n \in Int
      BY <1>1
    <2> QED BY <1>2, <2>1, SubSeqProperties DEF Callers
  <1>4. len = n
    <2>1. n \in Nat
      BY <1>1
    <2> HIDE DEF n, len
    <2> QED BY <1>3, <2>1
  <1>5. \A i \in 1 .. Len(Callers) : Callers[i] = stack[i] /\ i \in 1 .. Len(stack)
    BY <1>1, <1>3, <1>4
  <1>6. SoundStack(Callers)
    BY <1>3, <1>5 DEF SoundStack
  <1>7. Callers # <<>> => Len(Callers) \in Nat \ {0}
    BY <1>3, EmptySeq
  <1> QED BY <1>1, <1>4, <1>5, <1>6, <1>7

\* A call of visit returns at once, or becomes the innermost one.
LEMMA Visiting ==
  ASSUME NEW v \in Value, NEW s, SoundStack(s), visit(v, s)
  PROVE  \/ /\ Kind(v) \notin Composite
            /\ stack' = s /\ returned' = Leaf(v)
         \/ /\ Kind(v) \in Composite /\ returned' = returned
            /\ SoundStack(stack') /\ Len(stack') = Len(s) + 1 /\ stack' # <<>>
            /\ \A i \in 1 .. Len(s) : stack'[i] = s[i]
            /\ stack'[Len(s) + 1].value = v /\ stack'[Len(s) + 1].at = 0
  <1>1. CASE Kind(v) \notin Composite
    BY <1>1 DEF visit
  <1>2. CASE Kind(v) \in Composite
    <2>1. PICK parts \in Visits(v) :
            stack' = Append(s, [value |-> v, parts |-> parts, at |-> 0, h |-> 0, kh |-> 0])
      BY <1>2 DEF visit
    <2> DEFINE call == [value |-> v, parts |-> parts, at |-> 0, h |-> 0, kh |-> 0]
    <2>2. parts \in Seq(Value)
      BY ValueAssumption
    <2>3. SoundCall(call) /\ call \in Call
      <3>1. Len(parts) \in Nat
        BY <2>2, LenProperties
      <3>2. call \in Call
        BY <2>2 DEF Call
      <3> QED BY <1>2, <3>1, <3>2 DEF SoundCall
    <2>4. call.value = v /\ call.at = 0
      OBVIOUS
    <2> HIDE DEF call
    <2>5. /\ stack' \in Seq(Call) /\ Len(stack') = Len(s) + 1
          /\ \A i \in 1 .. Len(s) : stack'[i] = s[i]
          /\ stack'[Len(s) + 1] = call
      BY <2>1, <2>3, AppendProperties DEF SoundStack, call
    <2>6. Len(s) \in Nat /\ stack' # <<>>
      BY <2>5, LenProperties DEF SoundStack
    <2>7. \A i \in 1 .. Len(stack') : SoundCall(stack'[i])
      <3> SUFFICES ASSUME NEW i \in 1 .. Len(stack')
                   PROVE  SoundCall(stack'[i])
        OBVIOUS
      <3>1. i \in 1 .. Len(s) \/ i = Len(s) + 1
        BY <2>5, <2>6
      <3> QED BY <2>3, <2>5, <3>1 DEF SoundStack
    <2> QED BY <1>2, <2>4, <2>5, <2>6, <2>7 DEF visit, SoundStack
  <1> QED BY <1>1, <1>2

\* Taking the next turn, and taking a part's sum, leave a call sound.
LEMMA TurnSound ==
  ASSUME NEW call, SoundCall(call)
  PROVE  /\ call.at < Len(call.parts) =>
              /\ SoundCall(Advanced(call)) /\ Advanced(call).value = call.value
              /\ Advanced(call).at = call.at + 1 /\ Advanced(call).parts = call.parts
         /\ SoundCall(Updated(call, 0)) /\ Updated(call, 0) = call
  <1>1. /\ call \in Call /\ call.at \in Nat /\ call.h = 0 /\ call.kh = 0
        /\ Len(call.parts) \in Nat
    BY LenProperties DEF SoundCall, Call
  <1>2. ASSUME call.at < Len(call.parts)
        PROVE  /\ SoundCall(Advanced(call)) /\ Advanced(call).value = call.value
               /\ Advanced(call).at = call.at + 1 /\ Advanced(call).parts = call.parts
    <2> DEFINE next == [call EXCEPT !.at = @ + 1]
    <2>1. /\ next.value = call.value /\ next.parts = call.parts /\ next.at = call.at + 1
          /\ next.h = 0 /\ next.kh = 0 /\ next \in Call
      BY <1>1 DEF Call
    <2> HIDE DEF next
    <2>2. SoundCall(next)
      BY <1>1, <1>2, <2>1 DEF SoundCall
    <2> QED BY <2>1, <2>2 DEF Advanced, next
  <1>3. Updated(call, 0) = call
    <2>1. [call EXCEPT !.h = 0] = call /\ [call EXCEPT !.kh = 0] = call
      BY <1>1 DEF Call
    <2>2. /\ hashUpdateOrdered(call.h, 0) = 0
          /\ hashUpdateUnordered(call.h, hashUpdateOrdered(call.kh, 0)) = 0
      BY <1>1, NothingSummed
    <2> QED BY <2>1, <2>2 DEF Updated
  <1> QED BY <1>2, <1>3

\* A struct's first part is its name.
LEMMA NameFirst ==
  ASSUME NEW call, SoundCall(call), Kind(call.value) = "struct"
  PROVE  call.parts # <<>> /\ Kind(call.parts[1]) = "string"
  BY ValueAssumption DEF SoundCall, Call

LEMMA HashKeeps == ASSUME WalkInv, Hash PROVE WalkInv'
  <1>1. root \in Value /\ root' = root /\ stack = <<>> /\ Len(stack) = 0 /\ returned = Unset
    BY DEF Hash, WalkInv
  <1>2. SoundStack(stack) /\ visit(root, stack)
    BY DEF Hash, WalkInv
  <1>3. CASE Kind(root) \notin Composite /\ stack' = stack /\ returned' = Leaf(root)
    <2>1. returned' \in Outcome
      BY <1>3, LeafOutcome
    <2> QED BY <1>1, <1>2, <1>3, <2>1 DEF WalkInv, CallersNeverPanic, Composite
  <1>4. CASE /\ returned' = returned
             /\ SoundStack(stack') /\ Len(stack') = Len(stack) + 1 /\ stack' # <<>>
             /\ stack'[Len(stack) + 1].value = root /\ stack'[Len(stack) + 1].at = 0
    BY <1>1, <1>4 DEF WalkInv, AtName, CallersNeverPanic, Done
  <1> QED BY <1>1, <1>2, <1>3, <1>4, Visiting

LEMMA VisitPartKeeps == ASSUME WalkInv, VisitPart PROVE WalkInv'
  <1> DEFINE n == Len(stack)
             s == [stack EXCEPT ![n] = Advanced(Top)]
             v == Top.parts[Top.at + 1]
  <1>1. SoundStack(stack) /\ stack # <<>> /\ returned = Unset /\ root' = root
    BY DEF WalkInv, VisitPart
  <1>2. n \in Nat \ {0} /\ SoundCall(Top) /\ Top.at \in Nat /\ Top.parts \in Seq(Value)
    BY <1>1, TopSound DEF Call
  <1>3. /\ SoundCall(Advanced(Top)) /\ Advanced(Top).value = Top.value
        /\ Advanced(Top).at = Top.at + 1
    BY <1>2, TurnSound DEF VisitPart
  <1>4. /\ SoundStack(s) /\ Len(s) = n /\ s # <<>>
        /\ \A i \in 1 .. n : s[i] = IF i = n THEN Advanced(Top) ELSE stack[i]
    BY <1>1, <1>3, TopReplaced
  <1>5. v \in Value /\ visit(v, s)
    <2>1. v \in Value
      BY <1>2 DEF VisitPart
    <2> QED BY <2>1 DEF VisitPart, Top
  <1>6. \A i \in 1 .. n : s[i].value = stack[i].value
    BY <1>3, <1>4 DEF Top
  <1>7. \A i \in 1 .. n : Kind(stack[i].value) = "struct" => i = n /\ Top.at = 0
    BY <1>1 DEF WalkInv, AtName, Top
  <1>8. Kind(Top.value) = "struct" => Kind(v) = "string" /\ Advanced(Top).at = 1
    BY <1>2, <1>3, <1>7, NameFirst DEF Top
  <1> HIDE DEF s, v
  <1>9. CASE Kind(v) \notin Composite /\ stack' = s /\ returned' = Leaf(v)
    <2>1. returned' \in Outcome /\ returned' # Unset
      BY <1>9, LeafOutcome, OutcomeFields
    <2>2. \A i \in 1 .. n : AtName(i)'
      <3> SUFFICES ASSUME NEW i \in 1 .. n, Kind(s[i].value) = "struct"
                   PROVE  i = n /\ s[i].at = 1 /\ returned'.err
        BY <1>4, <1>9, <2>1 DEF AtName
      <3>1. i = n /\ Kind(Top.value) = "struct"
        BY <1>6, <1>7 DEF Top
      <3> QED BY <1>4, <1>8, <1>9, <3>1, LeafOutcome
    <2> QED BY <1>1, <1>2, <1>4, <1>6, <1>9, <2>1, <2>2
            DEF WalkInv, CallersNeverPanic, Done
  <1>10. CASE /\ Kind(v) \in Composite /\ returned' = returned
              /\ SoundStack(stack') /\ Len(stack') = n + 1 /\ stack' # <<>>
              /\ \A i \in 1 .. n : stack'[i] = s[i]
              /\ stack'[n + 1].value = v /\ stack'[n + 1].at = 0
    <2>1. \A i \in 1 .. n : Kind(stack[i].value) # "struct"
      BY <1>7, <1>8, <1>10 DEF Top, Composite
    <2>2. \A i \in 1 .. n + 1 : AtName(i)'
      <3> SUFFICES ASSUME NEW i \in 1 .. n + 1
                   PROVE  AtName(i)'
        OBVIOUS
      <3>1. CASE i \in 1 .. n
        BY <1>6, <1>10, <2>1, <3>1 DEF AtName
      <3>2. CASE i = n + 1
        BY <1>1, <1>10, <3>2 DEF AtName
      <3> QED BY <1>2, <3>1, <3>2
    <2> QED BY <1>1, <1>2, <1>6, <1>10, <2>2 DEF WalkInv, CallersNeverPanic, Done
  <1> QED BY <1>4, <1>5, <1>9, <1>10, Visiting

\* The innermost call gone, with something returned that is an error only where a
\* slice passes one on.
LEMMA CallGone ==
  ASSUME WalkInv, stack # <<>>, stack' = Callers, root' = root, returned' \in Outcome,
         Kind(Top.value) \in {"struct", "map"} => ~returned'.err
  PROVE  WalkInv'
  <1>1. /\ SoundStack(Callers) /\ Len(Callers) = Len(stack) - 1
        /\ \A i \in 1 .. Len(Callers) : Callers[i] = stack[i]
        /\ Callers # <<>> => Len(stack) > 1
        /\ Len(stack) \in Nat \ {0}
    BY TopGone, TopSound DEF WalkInv
  <1>2. stack' # <<>> => stack'[1].value = root'
    BY <1>1 DEF WalkInv
  <1>3. \A i \in 1 .. Len(stack') : AtName(i)'
    BY <1>1 DEF WalkInv, AtName
  <1>4. CallersNeverPanic'
    <2>1. ASSUME stack' = <<>>
          PROVE  Top.value = root
      <3>1. Len(stack) = 1
        BY <1>1, <2>1
      <3> QED BY <3>1 DEF WalkInv, Top
    <2> QED BY <2>1 DEF CallersNeverPanic, Done
  <1> QED BY <1>1, <1>2, <1>3, <1>4 DEF WalkInv

LEMMA ReturnKeeps == ASSUME WalkInv, Return PROVE WalkInv'
  <1>1. Top.h = 0 /\ stack # <<>>
    BY TopSound DEF WalkInv, Return, SoundCall
  <1>2. returned' \in Outcome /\ ~returned'.err
    BY <1>1 DEF Return, Outcome, Result
  <1> QED BY <1>1, <1>2, CallGone DEF Return

LEMMA TakeErrorKeeps == ASSUME WalkInv, TakeError PROVE WalkInv'
  <1>1. returned' \in Outcome /\ (Kind(Top.value) \in {"struct", "map"} => ~returned'.err)
    BY DEF TakeError, Failed, Unhashable, Outcome, Result
  <1> QED BY <1>1, CallGone DEF TakeError

LEMMA TakeSumKeeps == ASSUME WalkInv, TakeSum PROVE WalkInv'
  <1> DEFINE n == Len(stack)
             call == Updated(Top, 0)
             s == [stack EXCEPT ![n] = call]
  <1>1. /\ SoundStack(stack) /\ stack # <<>> /\ returned # Unset /\ ~returned.err
        /\ root' = root /\ returned' = Unset
    BY DEF WalkInv, TakeSum
  <1>2. n \in Nat \ {0} /\ SoundCall(Top)
    BY <1>1, TopSound
  <1>3. SoundCall(call) /\ call.value = Top.value /\ call.at = Top.at
    BY <1>2, TurnSound
  <1>4. returned.sum = 0
    BY <1>1, OutcomeFields DEF WalkInv
  <1>5. stack' = s
    BY <1>4 DEF TakeSum, Top
  <1>6. /\ SoundStack(s) /\ Len(s) = n /\ s # <<>>
        /\ \A i \in 1 .. n : s[i] = IF i = n THEN call ELSE stack[i]
    BY <1>1, <1>3, TopReplaced
  <1>7. \A i \in 1 .. n : s[i].value = stack[i].value
    BY <1>3, <1>6 DEF Top
  <1>8. \A i \in 1 .. n : Kind(stack[i].value) # "struct"
    BY <1>1 DEF WalkInv, AtName
  <1> HIDE DEF s, call
  <1>9. \A i \in 1 .. Len(stack') : AtName(i)'
    BY <1>5, <1>6, <1>7, <1>8 DEF AtName
  <1>10. stack'[1].value = root
    BY <1>1, <1>2, <1>5, <1>7 DEF WalkInv
  <1> QED BY <1>1, <1>5, <1>6, <1>9, <1>10 DEF WalkInv, CallersNeverPanic, Done

-----------------------------------------------------------------------------
(* What the calls under way have found out about the hash.                  *)

\* The part a call is at, and how many parts it has the sums of.
Current(i) == stack[i].parts[stack[i].at]
Taken(i) == IF i = Len(stack) /\ returned = Unset THEN stack[i].at ELSE stack[i].at - 1

\* Each call is of the part its caller is at, and a slice's has met no error; what a call
\* has returned is the hash of its value.
SumsInv ==
  /\ \A i \in 1 .. Len(stack) : (i < Len(stack) \/ returned # Unset) => stack[i].at >= 1
  /\ \A i \in 1 .. Len(stack) - 1 : stack[i + 1].value = Current(i)
  /\ \A i \in 1 .. Len(stack) :
       Kind(stack[i].value) = "slice" =>
         \A j \in 1 .. Taken(i) : ~hash[stack[i].parts[j]].err
  /\ returned # Unset =>
       returned = hash[IF stack = <<>> THEN root ELSE Current(Len(stack))]

LEMMA HashSummed == ASSUME WalkInv, SumsInv, Hash PROVE SumsInv'
  <1>1. root \in Value /\ root' = root /\ stack = <<>> /\ Len(stack) = 0 /\ returned = Unset
    BY DEF Hash, WalkInv
  <1>2. SoundStack(stack) /\ visit(root, stack)
    BY DEF Hash, WalkInv
  <1>3. CASE Kind(root) \notin Composite /\ stack' = stack /\ returned' = Leaf(root)
    <2>1. returned' = hash[root]
      BY <1>1, <1>3, HashForms
    <2> QED BY <1>1, <1>3, <2>1 DEF SumsInv, Taken, Current
  <1>4. CASE /\ returned' = returned /\ Len(stack') = Len(stack) + 1
             /\ stack'[Len(stack) + 1].at = 0
    BY <1>1, <1>4 DEF SumsInv, Taken
  <1> QED BY <1>1, <1>2, <1>3, <1>4, Visiting

LEMMA VisitPartSummed == ASSUME WalkInv, SumsInv, VisitPart PROVE SumsInv'
  <1> DEFINE n == Len(stack)
             s == [stack EXCEPT ![n] = Advanced(Top)]
             v == Top.parts[Top.at + 1]
  <1>1. SoundStack(stack) /\ stack # <<>> /\ returned = Unset /\ root' = root
    BY DEF WalkInv, VisitPart
  <1>2. n \in Nat \ {0} /\ SoundCall(Top) /\ Top.at \in Nat /\ Top.parts \in Seq(Value)
    BY <1>1, TopSound DEF Call
  <1>3. /\ SoundCall(Advanced(Top)) /\ Advanced(Top).value = Top.value
        /\ Advanced(Top).at = Top.at + 1 /\ Advanced(Top).parts = Top.parts
    BY <1>2, TurnSound DEF VisitPart
  <1>4. /\ SoundStack(s) /\ Len(s) = n /\ s # <<>>
        /\ \A i \in 1 .. n : s[i] = IF i = n THEN Advanced(Top) ELSE stack[i]
    BY <1>1, <1>3, TopReplaced
  <1>5. v \in Value /\ visit(v, s)
    <2>1. v \in Value
      BY <1>2 DEF VisitPart
    <2> QED BY <2>1 DEF VisitPart, Top
  <1>6. \A i \in 1 .. n : /\ s[i].value = stack[i].value /\ s[i].parts = stack[i].parts
                          /\ s[i].at = IF i = n THEN stack[i].at + 1 ELSE stack[i].at
    <2> HIDE DEF s
    <2> SUFFICES ASSUME NEW i \in 1 .. n
                 PROVE  /\ s[i].value = stack[i].value /\ s[i].parts = stack[i].parts
                        /\ s[i].at = IF i = n THEN stack[i].at + 1 ELSE stack[i].at
      OBVIOUS
    <2>1. CASE i = n
      BY <1>3, <1>4, <2>1 DEF Top
    <2>2. CASE i # n
      BY <1>4, <2>2
    <2> QED BY <2>1, <2>2
  <1>7. \A i \in 1 .. n : stack[i].at \in Nat
    BY <1>1 DEF SoundStack, SoundCall, Call
  <1>8. v = s[n].parts[s[n].at]
    BY <1>2, <1>6 DEF Top
  <1> HIDE DEF s, v
  \* What is known of the calls there were.
  <1>9. /\ \A i \in 1 .. n : s[i].at >= 1
        /\ \A i \in 1 .. n - 1 : s[i + 1].value = s[i].parts[s[i].at]
        /\ \A i \in 1 .. n : Kind(s[i].value) = "slice" =>
             \A j \in 1 .. s[i].at - 1 : ~hash[s[i].parts[j]].err
    <2>1. \A i \in 1 .. n : s[i].at >= 1
      BY <1>1, <1>2, <1>6, <1>7 DEF SumsInv
    <2>2. \A i \in 1 .. n - 1 : s[i + 1].value = s[i].parts[s[i].at]
      BY <1>2, <1>6 DEF SumsInv, Current
    <2>3. \A i \in 1 .. n : Taken(i) = s[i].at - 1
      <3> SUFFICES ASSUME NEW i \in 1 .. n
                   PROVE  Taken(i) = s[i].at - 1
        OBVIOUS
      <3>1. CASE i = n
        BY <1>1, <1>6, <1>7, <3>1 DEF Taken
      <3>2. CASE i # n
        BY <1>6, <3>2 DEF Taken
      <3> QED BY <3>1, <3>2
    <2> QED BY <1>6, <2>1, <2>2, <2>3 DEF SumsInv
  <1>10. CASE Kind(v) \notin Composite /\ stack' = s /\ returned' = Leaf(v)
    <2>1. returned' = hash[v] /\ returned' # Unset
      BY <1>5, <1>10, HashForms, LeafOutcome, OutcomeFields
    <2> QED BY <1>4, <1>8, <1>9, <1>10, <2>1 DEF SumsInv, Taken, Current
  <1>11. CASE /\ Kind(v) \in Composite /\ returned' = returned
              /\ SoundStack(stack') /\ Len(stack') = n + 1 /\ stack' # <<>>
              /\ \A i \in 1 .. n : stack'[i] = s[i]
              /\ stack'[n + 1].value = v /\ stack'[n + 1].at = 0
    <2>1. \A i \in 1 .. Len(stack') - 1 : stack'[i + 1].value = stack'[i].parts[stack'[i].at]
      <3> SUFFICES ASSUME NEW i \in 1 .. n
                   PROVE  stack'[i + 1].value = stack'[i].parts[stack'[i].at]
        BY <1>2, <1>11
      <3>1. CASE i = n
        BY <1>8, <1>11, <3>1
      <3>2. CASE i \in 1 .. n - 1
        BY <1>2, <1>9, <1>11, <3>2
      <3> QED BY <1>2, <3>1, <3>2
    <2>2. \A i \in 1 .. Len(stack') : i \in 1 .. n \/ i = n + 1
      BY <1>2, <1>11
    <2>3. \A i \in 1 .. n : Taken(i)' = s[i].at - 1
      BY <1>2, <1>11 DEF Taken
    <2>4. \A i \in {n + 1} : Taken(i)' = 0
      BY <1>1, <1>11 DEF Taken
    <2>5. \A i \in 1 .. Len(stack') :
            (i < Len(stack') \/ returned' # Unset) => stack'[i].at >= 1
      BY <1>1, <1>2, <1>9, <1>11, <2>2
    <2>6. \A i \in 1 .. Len(stack') :
            Kind(stack'[i].value) = "slice" =>
              \A j \in 1 .. Taken(i)' : ~hash[stack'[i].parts[j]].err
      <3> SUFFICES ASSUME NEW i \in 1 .. Len(stack'), Kind(stack'[i].value) = "slice",
                          NEW j \in 1 .. Taken(i)'
                   PROVE  ~hash[stack'[i].parts[j]].err
        OBVIOUS
      <3>1. CASE i \in 1 .. n
        BY <1>9, <1>11, <2>3, <3>1
      <3>2. CASE i = n + 1
        BY <2>4, <3>2
      <3> QED BY <2>2, <3>1, <3>2
    <2> QED BY <1>1, <1>11, <2>1, <2>5, <2>6 DEF SumsInv, Current
  <1> QED BY <1>4, <1>5, <1>10, <1>11, Visiting

\* The innermost call gone, with the hash of its value returned.
LEMMA CallGoneSummed ==
  ASSUME WalkInv, SumsInv, stack # <<>>, stack' = Callers, root' = root,
         returned' \in Outcome, returned' = hash[Top.value]
  PROVE  SumsInv'
  <1> DEFINE n == Len(stack)
  <1>1. /\ Len(Callers) = n - 1 /\ n \in Nat \ {0}
        /\ \A i \in 1 .. n - 1 : Callers[i] = stack[i]
        /\ SoundStack(Callers)
    BY TopGone, TopSound DEF WalkInv
  <1>2. returned' # Unset
    BY OutcomeFields
  <1>3. Callers = <<>> <=> n = 1
    BY <1>1, EmptySeq DEF SoundStack
  <1>4. IF n = 1 THEN Top.value = root
        ELSE Top.value = Callers[n - 1].parts[Callers[n - 1].at]
    <2>1. CASE n = 1
      BY <2>1 DEF WalkInv, Top
    <2>2. CASE n # 1
      <3>1. n - 1 \in 1 .. n - 1 /\ n - 1 + 1 = n
        BY <1>1, <2>2
      <3>2. stack[n - 1 + 1].value = Current(n - 1)
        BY <3>1 DEF SumsInv
      <3> QED BY <1>1, <2>2, <3>1, <3>2 DEF Current, Top
    <2> QED BY <2>1, <2>2
  <1>5. \A i \in 1 .. n - 1 : Taken(i)' = Taken(i) /\ i \in 1 .. n /\ i < n
    BY <1>1, <1>2 DEF Taken
  <1>6. /\ \A i \in 1 .. n - 1 : Callers[i].at >= 1
        /\ \A i \in 1 .. n - 1 - 1 : Callers[i + 1].value = Callers[i].parts[Callers[i].at]
        /\ \A i \in 1 .. n - 1 : Kind(Callers[i].value) = "slice" =>
             \A j \in 1 .. Taken(i)' : ~hash[Callers[i].parts[j]].err
    <2>1. \A i \in 1 .. n - 1 : Callers[i].at >= 1
      BY <1>1, <1>5 DEF SumsInv
    <2>2. \A i \in 1 .. n - 1 - 1 : Callers[i + 1].value = Callers[i].parts[Callers[i].at]
      <3> SUFFICES ASSUME NEW i \in 1 .. n - 1 - 1
                   PROVE  Callers[i + 1].value = Callers[i].parts[Callers[i].at]
        OBVIOUS
      <3>1. i \in 1 .. n - 1 /\ i + 1 \in 1 .. n - 1
        BY <1>1
      <3> QED BY <1>1, <3>1 DEF SumsInv, Current
    <2>3. \A i \in 1 .. n - 1 : Kind(Callers[i].value) = "slice" =>
            \A j \in 1 .. Taken(i)' : ~hash[Callers[i].parts[j]].err
      BY <1>1, <1>5 DEF SumsInv
    <2> QED BY <2>1, <2>2, <2>3
  <1> QED BY <1>1, <1>3, <1>4, <1>6 DEF SumsInv, Current

LEMMA ReturnSummed == ASSUME WalkInv, SumsInv, Return PROVE SumsInv'
  <1>1. /\ stack # <<>> /\ returned = Unset /\ SoundStack(stack)
        /\ Top.at = Len(Top.parts)
    BY DEF WalkInv, Return
  <1>2. /\ Len(stack) \in Nat \ {0} /\ SoundCall(Top) /\ Top.value \in Value
    BY <1>1, TopSound
  <1>3. returned' = Result(0, FALSE) /\ returned' \in Outcome
    BY <1>2 DEF Return, SoundCall, Outcome
  <1>4. hash[Top.value] = Result(0, FALSE)
    <2>1. CASE Kind(Top.value) = "slice"
      <3>1. \A j \in 1 .. Len(Top.parts) : ~hash[Top.parts[j]].err
        BY <1>1, <1>2, <2>1 DEF SumsInv, Taken, Top
      <3> QED BY <1>2, <2>1, <3>1, HashForms DEF SoundCall
    <2>2. CASE Kind(Top.value) \in {"map", "struct"}
      BY <1>2, <2>2, HashForms
    <2> QED BY <1>2, <2>1, <2>2 DEF SoundCall, Composite
  <1> QED BY <1>1, <1>3, <1>4, CallGoneSummed DEF Return

LEMMA TakeErrorSummed == ASSUME WalkInv, SumsInv, TakeError PROVE SumsInv'
  <1> DEFINE n == Len(stack)
  <1>1. stack # <<>> /\ returned # Unset /\ returned.err /\ SoundStack(stack)
    BY DEF WalkInv, TakeError
  <1>2. n \in Nat \ {0} /\ SoundCall(Top) /\ Top.value \in Value /\ Top.at \in Nat
    BY <1>1, TopSound DEF Call
  <1>3. Top.at \in 1 .. Len(Top.parts) /\ hash[Top.parts[Top.at]].err
    <2>1. Top.at >= 1 /\ returned = hash[Top.parts[Top.at]]
      BY <1>1, <1>2 DEF SumsInv, Current, Top
    <2>2. Top.parts \in Seq(Value)
      BY <1>1, TopSound
    <2> QED BY <1>1, <1>2, <2>1, <2>2, LenProperties DEF SoundCall
  <1>4. Failed(Top) = hash[Top.value]
    <2>1. CASE Kind(Top.value) = "slice"
      BY <1>2, <1>3, <2>1, HashForms DEF SoundCall, Failed
    <2>2. CASE Kind(Top.value) \in {"map", "struct"}
      BY <1>2, <2>2, HashForms DEF Failed, Unhashable
    <2> QED BY <1>2, <2>1, <2>2 DEF SoundCall, Composite
  <1>5. Failed(Top) \in Outcome
    BY DEF Failed, Unhashable, Outcome
  <1> QED BY <1>1, <1>4, <1>5, CallGoneSummed DEF TakeError

LEMMA TakeSumSummed == ASSUME WalkInv, SumsInv, TakeSum PROVE SumsInv'
  <1> DEFINE n == Len(stack)
             s == [stack EXCEPT ![n] = Top]
  <1>1. /\ SoundStack(stack) /\ stack # <<>> /\ returned # Unset /\ ~returned.err
        /\ root' = root /\ returned' = Unset
    BY DEF WalkInv, TakeSum
  <1>2. n \in Nat \ {0} /\ SoundCall(Top)
    BY <1>1, TopSound
  <1>3. Updated(Top, 0) = Top
    BY <1>2, TurnSound
  <1>4. returned.sum = 0
    BY <1>1, OutcomeFields DEF WalkInv
  <1>5. stack' = s
    BY <1>3, <1>4 DEF TakeSum, Top
  <1>6. Len(s) = n /\ s # <<>> /\ \A i \in 1 .. n : s[i] = stack[i]
    BY <1>1, <1>2, TopReplaced DEF Top
  <1> HIDE DEF s
  <1>7. \A i \in 1 .. n : stack[i].at \in Nat
    BY <1>1 DEF SoundStack, SoundCall, Call
  <1>8. \A i \in 1 .. n : \A j \in 1 .. Taken(i)' :
          j \in 1 .. Taken(i) \/ (i = n /\ stack[i].parts[j] = Current(n))
    BY <1>1, <1>2, <1>5, <1>6, <1>7 DEF Taken, Current
  <1>9. ~hash[Current(n)].err
    BY <1>1 DEF SumsInv
  <1>10. \A i \in 1 .. n : Kind(stack[i].value) = "slice" =>
           \A j \in 1 .. Taken(i)' : ~hash[stack[i].parts[j]].err
    BY <1>8, <1>9 DEF SumsInv
  <1>11. \A i \in 1 .. n - 1 : stack[i + 1].value = stack[i].parts[stack[i].at]
    BY DEF SumsInv, Current
  <1> QED BY <1>1, <1>2, <1>5, <1>6, <1>10, <1>11 DEF SumsInv, Current

-----------------------------------------------------------------------------
(* The theorems.                                                            *)

LEMMA WalkAlways == Spec => []WalkInv
  <1>1. Init => WalkInv
    BY EmptySeq DEF Init, WalkInv, SoundStack, CallersNeverPanic, Done
  <1>2. WalkInv /\ [Next]_vars => WalkInv'
    <2>1. ASSUME WalkInv, UNCHANGED vars
          PROVE  WalkInv'
      BY <2>1 DEF vars, WalkInv, AtName, CallersNeverPanic, Done
    <2> QED BY <2>1, HashKeeps, VisitPartKeeps, ReturnKeeps, TakeSumKeeps, TakeErrorKeeps
            DEF Next
  <1> QED BY <1>1, <1>2, PTL DEF Spec

LEMMA SumsAlways == Spec => []SumsInv
  <1>1. Init => SumsInv
    BY EmptySeq DEF Init, SumsInv
  <1>2. WalkInv /\ SumsInv /\ [Next]_vars => SumsInv'
    <2>1. ASSUME SumsInv, UNCHANGED vars
          PROVE  SumsInv'
      BY <2>1 DEF vars, SumsInv, Current, Taken
    <2> QED BY <2>1, HashSummed, VisitPartSummed, ReturnSummed, TakeSumSummed, TakeErrorSummed
            DEF Next
  <1> QED BY <1>1, <1>2, WalkAlways, PTL DEF Spec

\* A walk never leaves the values it can meet, however deep it goes and whatever it meets.
THEOREM WalkTypeCorrect == Spec => []TypeOK
  <1>1. WalkInv => TypeOK
    <2> SUFFICES ASSUME WalkInv
                 PROVE  TypeOK
      OBVIOUS
    <2>1. returned \in {Unset} \cup [sum : Nat, err : BOOLEAN]
      BY OutcomeFields DEF WalkInv
    <2>2. stack \in Seq(Call) /\ DOMAIN stack = 1 .. Len(stack)
      BY LenProperties DEF WalkInv, SoundStack
    <2> QED BY <2>1, <2>2 DEF WalkInv, SoundStack, SoundCall, TypeOK
  <1> QED BY <1>1, WalkAlways, PTL

\* Whatever is hashed, and in whatever order the keys of its maps come, the sum is 0.
THEOREM DigestsCorrect == Spec => []DigestsCoincide
  <1>1. WalkInv => DigestsCoincide
    BY OutcomeFields DEF WalkInv, DigestsCoincide, Done
  <1> QED BY <1>1, WalkAlways, PTL

\* A struct or a map is never an error, although strings and functions are.
THEOREM CallersCorrect == Spec => []CallersNeverPanic
  <1>1. WalkInv => CallersNeverPanic
    BY DEF WalkInv
  <1> QED BY <1>1, WalkAlways, PTL

\* Whatever the walk of a value meets, and in whatever order it takes the keys of its
\* maps, what it returns is what the values of the parts alone determine.
THEOREM HashCorrect == Spec => []WalkComputesHash
  <1>1. SumsInv => WalkComputesHash
    BY DEF SumsInv, WalkComputesHash, Done
  <1> QED BY <1>1, SumsAlways, PTL
=============================================================================
