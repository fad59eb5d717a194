--------------------------- MODULE MCStorageCheck ---------------------------
(* Small projects, each about one way in which declarations change, with   *)
(* slots of two units; storage is laid out as solc does.                   *)
EXTENDS StorageCheck

(* Types as they are written, and variables: pairs of a label and a type.  *)
u8 == [Type EXCEPT !.label = "u8", !.size = 1]
u16 == [Type EXCEPT !.label = "u16"]
Word(label)           == [Type EXCEPT !.label = label]
Enum(labels)          == [Type EXCEPT !.kind = "enum", !.size = 1, !.labels = labels]
Mapping(key, value)   == [Type EXCEPT !.kind = "mapping", !.parts = <<key, value>>]
Dynamic(base)         == [Type EXCEPT !.kind = "dynamic_array", !.parts = <<base>>]
Fixed(base, n)        == [Type EXCEPT !.kind = "array", !.parts = <<base>>, !.length = n]
Struct(labels, parts) == [Type EXCEPT !.kind = "struct", !.labels = labels, !.parts = parts]
Bytes(labels)         == Struct(labels, [i \in DOMAIN labels |-> "u8"])

Plain(types) == [u8 |-> u8, u16 |-> u16] @@ types

x == <<"x", "u8">>
y == <<"y", "u8">>
w == <<"w", "u8">>
wide == <<"x", "u16">>

(* A commit: its types, what facet A declares and touches, what B declares *)
(* and what B touches.                                                     *)
Commit(types, a, b, touches) == [types |-> Plain(types), a |-> a, b |-> b, touches |-> touches]
Tree(types, variables, touches) == Commit(types, variables, variables, touches)
Alone(types, variables) == Commit(types, variables, <<>>, {})
None == [u8 |-> u8]

Packing ==
  << Tree(None, <<x, y>>, {}), Tree(None, <<y, x>>, {"x"}), Tree(None, <<w, y>>, {"y"}),
     Alone(None, <<wide>>), Alone(None, <<x, y, w>>) >>

(* A variable that goes, and what comes in its place. *)
Dropping ==
  << Tree(None, <<wide>>, {}), Tree(None, <<wide>>, {"x"}), Commit(None, <<wide>>, <<x, y>>, {"x", "y"}),
     Alone(None, <<w>>), Commit(None, <<x>>, <<x, y>>, {"x", "y"}) >>

Structs ==
  LET of(labels) == [s |-> Bytes(labels)]
      s == <<"s", "s">>
  IN  << Tree(of(<<"a", "b">>), <<s, wide>>, {"x"}), Tree(of(<<"b", "a">>), <<s, wide>>, {"x"}),
         Alone(of(<<"a", "b", "c">>), <<s, wide>>), Alone(of(<<"a", "b", "c">>), <<s>>),
         Tree(of(<<"a", "d">>), <<s>>, {}) >>

(* A struct with a mapping to itself; the mapping's keys, too, have types. *)
Recursive ==
  LET of(labels, parts, key) == [children |-> Mapping(key, "node"), node |-> Struct(labels, parts)]
      root == <<<<"root", "children">>>>
  IN  << Alone(of(<<"value", "next">>, <<"u8", "children">>, "u8"), root),
         Alone(of(<<"value", "next", "more">>, <<"u8", "children", "u8">>, "u8"), root),
         Alone(of(<<"value", "next">>, <<"u16", "children">>, "u8"), root),
         Tree(of(<<"value", "next">>, <<"u8", "children">>, "u16"), root, {}),
         Alone(of(<<"renamed", "next">>, <<"u8", "children">>, "u8"), root) >>

Arrays ==
  LET of(n, m) == [row |-> Fixed("u8", m), rows |-> Fixed("row", n), list |-> Dynamic("row")]
      rows == <<"rows", "rows">>
      list == <<"list", "list">>
  IN  << Alone(of(1, 2), <<rows, list>>), Alone(of(1, 3), <<rows, list>>), Alone(of(1, 1), <<rows, list>>),
         Alone(of(2, 2), <<rows>>), Alone(of(1, 2), <<list>>) >>

Enums ==
  LET of(labels) == [e |-> Enum(labels)]
      e == <<"e", "e">>
  IN  << Tree(of(<<"P", "Q">>), <<e, x>>, {}), Tree(of(<<"P", "Q", "R">>), <<e, x>>, {"e"}),
         Alone(of(<<"Q", "P">>), <<e>>), Alone(of(<<"P">>), <<e>>), Alone([e |-> u8], <<e>>) >>

(* Contracts are addresses; a function, and bytes, are neither. *)
Labels ==
  LET of(type) == [t |-> type]
      v == <<<<"x", "t">>>>
  IN  << Tree(of(Word("contract A")), v, {}), Tree(of(Word("contract B")), v, {"x"}), Alone(of(Word("address")), v),
         Alone(of([Type EXCEPT !.kind = "function", !.label = "external"]), v), Alone(of([Type EXCEPT !.kind = "bytes"]), v) >>

(* Facets that declare the same bytes: alike, under other names, swapped,  *)
(* as another type.                                                        *)
Sharing ==
  LET types == [s |-> Bytes(<<"a", "b">>), t |-> Bytes(<<"b", "a">>), m |-> Mapping("u8", "u16"), n |-> Mapping("u8", "s")]
      v(type) == <<"v", type>>
  IN  << Commit(types, <<v("s")>>, <<v("s")>>, {"v"}), Commit(types, <<v("s")>>, <<v("t")>>, {"v"}),
         Commit(types, <<v("m")>>, <<v("n")>>, {"v"}), Commit(types, <<x, y>>, <<x, w>>, {"x", "w"}),
         Commit(types, <<v("s"), <<"o", "m">>>>, <<v("s")>>, {"v"}) >>

(* The one project where git and forge fail. *)
Faulty == << Tree(None, <<wide>>, {}), Alone(None, <<wide, y>>) >>

All == <<Packing, Dropping, Structs, Recursive, Arrays, Enums, Labels, Sharing, Faulty>>

-----------------------------------------------------------------------------
(* solc's layout: what is small is packed while it fits, structs and       *)
(* arrays take slots of their own.                                         *)
RoundUp(n) == ((n + SLOT - 1) \div SLOT) * SLOT

Place(types, sizes) ==
  FoldLeftDomain(LAMBDA acc, i :
      LET own == types[i].kind \in {"struct", "array"}
          at == IF own \/ (acc.end % SLOT) + sizes[i] > SLOT THEN RoundUp(acc.end) ELSE acc.end
      IN  [at |-> Append(acc.at, at), end |-> IF own THEN RoundUp(at + sizes[i]) ELSE at + sizes[i]],
    [at |-> <<>>, end |-> 0], sizes)

Solc(commit) ==
  LET types == commit.types
      typesOf(ids) == [i \in DOMAIN ids |-> types[ids[i]]]
      size[id \in DOMAIN types] ==
        CASE types[id].kind = "struct" ->
               RoundUp(Place(typesOf(types[id].parts), [i \in DOMAIN types[id].parts |-> size[types[id].parts[i]]]).end)
          [] types[id].kind = "array"  ->
               RoundUp(Element(size[types[id].parts[1]], types[id].length - 1) + size[types[id].parts[1]])
          [] OTHER                     -> types[id].size
      place(ids) == Place(typesOf(ids), [i \in DOMAIN ids |-> size[ids[i]]]).at
      declare(source, variables) ==
        LET at == place([i \in DOMAIN variables |-> variables[i][2]])
        IN  {[source |-> source, label |-> variables[i][1], start |-> at[i], type |-> variables[i][2]] : i \in DOMAIN variables}
  IN  [ types    |-> [id \in DOMAIN types |->
                        [types[id] EXCEPT !.size = size[id], !.at = IF types[id].kind = "struct" THEN place(types[id].parts) ELSE <<>>]],
        declares |-> [A |-> declare("A", commit.a), B |-> declare("B", commit.b)],
        touches  |-> [A |-> {commit.a[i][1] : i \in DOMAIN commit.a}, B |-> commit.touches] ]

MCProjects == {{<<i, j>> : j \in DOMAIN All[i]} : i \in DOMAIN All}
MCCommits == UNION MCProjects
MCSources == [c \in MCCommits |-> Solc(All[c[1]][c[2]])]
MCWithSubmodules == {c \in MCCommits : c[2] % 2 = 1}
MCFragile == {c \in MCCommits : c[1] = Len(All)}
MCFacets == <<"A", "B">>
=============================================================================
