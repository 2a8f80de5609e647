-------------------------------- MODULE Trees -------------------------------
(***************************************************************************)
(* Values for module Hash, as trees: what is left of a Go value once       *)
(* pointers and interfaces are followed.  An unexported struct field is    *)
(* not hashed and not in the tree.                                         *)
(***************************************************************************)
EXTENDS Integers, Sequences

LOCAL INSTANCE TLC
LOCAL INSTANCE SequencesExt

Nil        == [kind |-> "nil"]
Number(n)  == [kind |-> "number", content |-> n]
String(x)  == [kind |-> "string", content |-> x]
Func       == [kind |-> "func"]
Slice(vs)  == [kind |-> "slice", items |-> vs]
Map(kvs)   == [kind |-> "map", items |-> kvs]
Struct(fs) == [kind |-> "struct", items |-> fs]

KindOf(v) == v.kind
ContentOf(v) == v.content

\* The name of a struct, and that of its i-th field, are the strings 0 and i.
VisitsOf(v) ==
  CASE v.kind = "slice"  -> {v.items}
    [] v.kind = "map"    -> {FlattenSeq([i \in DOMAIN v.items |-> v.items[p[i]]]) :
                               p \in Permutations(DOMAIN v.items)}
    [] v.kind = "struct" -> {<<String(0)>> \o
                             FlattenSeq([i \in DOMAIN v.items |-> <<String(i), v.items[i]>>])}
    [] OTHER -> {}

\* Values and the parts they have.
WithParts(S) == S \cup UNION {UNION {{p[i] : i \in DOMAIN p} : p \in VisitsOf(v)} : v \in S}
=============================================================================
