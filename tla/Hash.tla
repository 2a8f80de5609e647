-------------------------------- MODULE Hash --------------------------------
(***************************************************************************)
(* Hash of hashstructure.go as a function of a value: what module Walker   *)
(* computes in steps.                                                      *)
(***************************************************************************)
EXTENDS HashSums

CONSTANTS
  Value,       \* what a walk can meet, pointers and interfaces followed
  Kind(_),     \* "nil", "number", "string", "slice" (arrays too), "map", "struct", or other
  Content(_),  \* what is written of a number or a string
  Visits(_)    \* the sequences in which visit may take a value's parts: the items of a
               \* slice; the keys of a map in any order, each before its value; a
               \* struct's name, and of each exported field its name and its value

Composite == {"slice", "map", "struct"}

ASSUME ValueAssumption ==
  \A v \in Value :
    /\ Visits(v) \subseteq Seq(Value)
    /\ Kind(v) \in Composite => Visits(v) # {}
    /\ Kind(v) = "slice" => \A p, q \in Visits(v) : p = q
    /\ Kind(v) = "struct" =>
         \A parts \in Visits(v) : parts # <<>> /\ Kind(parts[1]) = "string"

Leaf(v) ==
  CASE Kind(v) = "nil"    -> visitNumber(0)
    [] Kind(v) = "number" -> visitNumber(Content(v))
    [] Kind(v) = "string" -> visitString(Content(v))
    [] OTHER              -> visitUnknown

sumOrdered(sums) ==
  LET h[i \in 0 .. Len(sums)] ==
        IF i = 0 THEN 0 ELSE hashUpdateOrdered(h[i - 1], sums[i])
  IN h[Len(sums)]

sumUnordered(start, sums) ==
  LET h[i \in 0 .. Len(sums)] ==
        IF i = 0 THEN start ELSE hashUpdateUnordered(h[i - 1], sums[i])
  IN h[Len(sums)]

\* The branches of visit for a value with parts, given the results of the parts.
visitItems(results) ==
  IF \E i \in 1 .. Len(results) : results[i].err THEN Result(0, TRUE)
  ELSE Result(sumOrdered([i \in 1 .. Len(results) |-> results[i].sum]), FALSE)

\* Keys and values, or names and values of fields, one after the other.
visitPairs(start, results) ==
  IF \E i \in 1 .. Len(results) : results[i].err THEN Unhashable
  ELSE Result(sumUnordered(start,
                [i \in 1 .. Len(results) \div 2 |->
                   hashUpdateOrdered(results[2 * i - 1].sum, results[2 * i].sum)]),
              FALSE)

visitStruct(results) ==
  IF results[1].err THEN Unhashable ELSE visitPairs(results[1].sum, Tail(results))

\* visit of a value, given what it returns for every part: h.  A map is taken in one of
\* its orders.
visitWith(h, v) ==
  LET parts == CHOOSE p \in Visits(v) : TRUE
      results == [i \in 1 .. Len(parts) |-> h[parts[i]]]
  IN CASE Kind(v) = "slice"  -> visitItems(results)
       [] Kind(v) = "map"    -> visitPairs(0, results)
       [] Kind(v) = "struct" -> visitStruct(results)
       [] OTHER              -> Leaf(v)

hash[v \in Value] == visitWith(hash, v)
=============================================================================
