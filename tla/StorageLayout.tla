---------------------------- MODULE StorageLayout ----------------------------
(***************************************************************************)
(* check.py on storage: whether what one set of declarations wrote can be  *)
(* read back through another.  A layout is solc's: variables at positions, *)
(* and a graph of types in which mappings and dynamic arrays may lead back *)
(* to the struct they are part of.                                         *)
(*                                                                         *)
(* A type is a record of the fields below; those its kind does not use     *)
(* hold the defaults of Type.  A type graph is a function from type ids.   *)
(***************************************************************************)
EXTENDS Integers, FiniteSets, Sequences, SequencesExt

CONSTANT SLOT     \* storage units in a slot, 32 bytes in the EVM

ASSUME SlotAssumption == SLOT \in Nat \ {0}

Type ==
  [ kind    |-> "value",   \* or "enum", "function", "bytes", "mapping", "array", "dynamic_array", "struct"
    size    |-> SLOT,
    label   |-> "",        \* of a value: its name
    parts   |-> <<>>,      \* mapping: key and value; arrays: base; struct: its members' types
    labels  |-> <<>>,      \* struct: its members' names; enum: its names in order
    at      |-> <<>>,      \* struct: its members' positions
    length  |-> 0 ]        \* array: how many elements

Kinds == {"value", "enum", "function", "bytes", "mapping", "array", "dynamic_array", "struct"}

(* solc's label, as _shape keeps it: contracts are addresses. *)
Contracts == {"contract A", "contract B"}
Normal(label) == IF label \in Contracts THEN "address" ELSE label

(* A type reached from a variable; ids differ between commits, so they are *)
(* only ever followed.                                                     *)
Shape(types, id) == [root |-> id, nodes |-> [i \in DOMAIN types |-> [types[i] EXCEPT !.label = Normal(@)]]]

-----------------------------------------------------------------------------
(* _fit.                                                                   *)

(* The pairs of types compared next, part by part. *)
PartPairs(a, b) ==
  IF a.kind # b.kind THEN {}
  ELSE {<<a.parts[i], b.parts[i]>> : i \in DOMAIN a.parts \intersect DOMAIN b.parts}

(* `compared`, when nothing has failed: each pair once, however types recur, *)
(* so after as many rounds as there are pairs no more come.                *)
Compared(old, new, pairs) ==
  LET after[n \in Nat] ==
        IF n = 0 THEN pairs
        ELSE LET before == after[n - 1]
             IN  before \union UNION {PartPairs(old.nodes[pair[1]], new.nodes[pair[2]]) : pair \in before}
  IN  after[Cardinality(DOMAIN old.nodes) * Cardinality(DOMAIN new.nodes)]

Pairs(old, new) == Compared(old, new, {<<old.root, new.root>>})

(* A bug: only types and positions are looked at. *)
NothingMoved(a, b) == FALSE

(* A same-type swap must not pass as two renames. *)
MemberMoved(a, b) ==
  \E i \in DOMAIN a.labels, j \in DOMAIN b.labels : a.labels[i] = b.labels[j] /\ a.at[i] # b.at[j]

(* One pair, its parts aside. *)
FitsAlone(old, new, a, b) ==
  /\ a.kind = b.kind
  /\ a.kind \in {"array", "dynamic_array"} =>
       /\ old.nodes[a.parts[1]].size = new.nodes[b.parts[1]].size
       /\ b.size >= a.size
       /\ b.length >= a.length
  /\ a.kind = "enum" => a.size = b.size /\ IsPrefix(a.labels, b.labels)
  /\ a.kind = "struct" => ~MemberMoved(a, b) /\ IsPrefix(a.at, b.at)
  /\ a.kind \in {"value", "function", "bytes"} => a = b

Fit(old, new) ==
  \A pair \in Pairs(old, new) : FitsAlone(old, new, old.nodes[pair[1]], new.nodes[pair[2]])

(* Types that fit, but were renamed in or grew. *)
Noted(old, new) ==
  \E pair \in Pairs(old, new) :
    LET a == old.nodes[pair[1]]
        b == new.nodes[pair[2]]
    IN  \/ a.labels # b.labels
        \/ a.length # b.length
        \/ a.kind = "struct" /\ a.size # b.size

SameShape(a, b) == Fit(a, b) /\ Fit(b, a) /\ ~Noted(a, b) /\ ~Noted(b, a)

-----------------------------------------------------------------------------
(* Declarations, and what check says of them.                              *)

(* `storage`: solc's variables, each of a source, with label, position, type. *)
Declarations(storage, types) ==
  {[ source |-> v.source, label |-> v.label, start |-> v.start,
     end |-> v.start + types[v.type].size, shape |-> Shape(types, v.type) ] : v \in storage}

Overlap(a, b) == a.start < b.end /\ b.start < a.end

(* A bug: what two facets declare over each other is taken to agree if it  *)
(* starts and ends together.                                               *)
StorageAgreesRoughly(declared) ==
  \A a, b \in declared : a.source # b.source /\ Overlap(a, b) => a.start = b.start /\ a.end = b.end

(* _check_storage: facets that declare the same bytes declare one variable. *)
StorageAgrees(declared) ==
  \A a, b \in declared : a.source # b.source /\ Overlap(a, b) =>
    a.start = b.start /\ a.end = b.end /\ a.label = b.label /\ SameShape(a.shape, b.shape)

(* A bug: variables are compared by name, whatever comes in the place of   *)
(* one that is gone.                                                       *)
StorageKeptByName(old, new) ==
  \A o \in old :
    LET named == {n \in new : n.label = o.label}
    IN  /\ named = {} \/ \E n \in named : n.start = o.start
        /\ \A n \in named : Overlap(o, n) => n.start = o.start /\ Fit(o.shape, n.shape)

(* _compare_storage: no old variable moves, and what is declared over one  *)
(* reads it back.  One that nothing declares any more only warns.          *)
StorageKept(old, new) ==
  \A o \in old :
    LET named == {n \in new : n.label = o.label}
    IN  /\ named = {} \/ \E n \in named : n.start = o.start
        /\ \A n \in new : Overlap(o, n) => n.start = o.start /\ Fit(o.shape, n.shape)

-----------------------------------------------------------------------------
(* The reference: what a declaration means.  A cell is a value in storage: *)
(* where it is (a region, the root or a hashed one, and a position in it), *)
(* what it is, and the path of names that leads to it.                     *)

(* Where an array has its element j. *)
Element(size, j) ==
  IF size >= SLOT THEN j * size ELSE (j \div (SLOT \div size)) * SLOT + (j % (SLOT \div size)) * size

(* What solc promises of the types of a commit: a struct's members have     *)
(* names and places of their own, and it and an array hold their parts.    *)
LaidOut(types) ==
  /\ IsFiniteSet(DOMAIN types)
  /\ \A id \in DOMAIN types :
       /\ types[id] \in [ kind : Kinds, size : Nat \ {0}, label : STRING, parts : Seq(DOMAIN types),
                         labels : Seq(STRING), at : Seq(Nat), length : Nat ]
       /\ LET t == types[id]
              size(i) == types[t.parts[i]].size
          IN  /\ Len(t.parts) = CASE t.kind = "mapping"                    -> 2
                                  [] t.kind \in {"array", "dynamic_array"} -> 1
                                  [] t.kind = "struct"                     -> Len(t.at)
                                  [] OTHER                                 -> 0
              /\ t.kind \notin {"value", "function", "bytes"} => t.label = ""
              /\ t.kind \in {"mapping", "dynamic_array"} => t.size = SLOT
              /\ t.kind = "array" => \A j \in 0 .. t.length - 1 : Element(size(1), j) + size(1) <= t.size
              /\ t.kind = "struct" =>
                   /\ Len(t.labels) = Len(t.at) /\ IsInjective(t.labels)
                   /\ \A i \in DOMAIN t.at : t.at[i] + size(i) <= t.size
                   /\ \A i, j \in DOMAIN t.at : i < j => t.at[i] + size(i) <= t.at[j]

(* The parts of a type at a place: which type, where, and under what name. *)
PartsAt(types, t, region, position) ==
  LET size == types[t.parts[1]].size
      hashed(what) == Append(region, <<position, what>>)
      elements(r, start, n) ==
        {[type |-> t.parts[1], region |-> r, start |-> start + Element(size, j), name |-> "element"] : j \in 0..n - 1}
  IN  CASE t.kind = "mapping"       ->
             {[type |-> t.parts[2], region |-> hashed(types[t.parts[1]].label), start |-> 0, name |-> "key"]}
        [] t.kind = "dynamic_array" -> elements(hashed("data"), 0, 2)
        [] t.kind = "array"         -> elements(region, position, t.length)
        [] t.kind = "struct"        ->
             {[type |-> t.parts[i], region |-> region, start |-> position + t.at[i], name |-> t.labels[i]] : i \in DOMAIN t.parts}
        [] OTHER                    -> {}

(* What the place itself holds. *)
Held(t) ==
  CASE t.kind \in {"mapping", "array", "struct"} -> {}
    [] t.kind = "enum" -> {<<"enum">> \o t.labels}
    [] OTHER           -> {<<t.kind, t.label>>}

CellsAtPlace(types, place) ==
  LET t == types[place.type]
  IN  {[region |-> place.region, start |-> place.start, end |-> place.start + t.size,
        what |-> what, path |-> place.path] : what \in Held(t)}

(* The places some steps from a declaration. *)
Places(d, depth) ==
  LET types == d.shape.nodes
      after[n \in Nat] ==
        IF n = 0
          THEN {[type |-> d.shape.root, region |-> <<>>, start |-> d.start, path |-> <<d.label>>]}
          ELSE UNION {{[type |-> part.type, region |-> part.region, start |-> part.start,
                        path |-> Append(place.path, part.name)]
                         : part \in PartsAt(types, types[place.type], place.region, place.start)}
                        : place \in after[n - 1]}
  IN  after[depth]

(* Everything a declaration reaches. *)
CellsOf(d, depth) ==
  UNION {CellsAtPlace(d.shape.nodes, place) : place \in UNION {Places(d, n) : n \in 0..depth}}

Meet(a, b) == a.region = b.region /\ a.start < b.end /\ b.start < a.end

(* What is written at one cell is read at the other, if they meet. *)
ReadsAs(written, read) ==
  Meet(written, read) =>
    /\ written.start = read.start /\ written.end = read.end
    /\ \/ written.what = read.what
       \/ Head(written.what) = "enum" /\ IsPrefix(written.what, read.what)
=============================================================================
