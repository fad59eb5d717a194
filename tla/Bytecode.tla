------------------------------ MODULE Bytecode ------------------------------
(***************************************************************************)
(* The bytecode josuke writes and reads itself: migration.py's script,     *)
(* with its reader, and erc8167.py's selectors().  Code is a sequence of   *)
(* instructions; the EVM runs it one at a time.  A word is its bytes, most *)
(* significant first.                                                      *)
(***************************************************************************)
EXTENDS Integers, Sequences, SequencesExt, FiniteSets

CONSTANTS
  Delegates,   \* addresses, 20 bytes
  Selectors,   \* 4 bytes
  Slots,       \* words
  Lists,       \* sequences of selectors that selectors() is generated for
  MaxPieces    \* bound on the pieces a script of another hand is made of

ASSUME DelegatesAssumption == \A d \in Delegates : d \in [1..20 -> 0..255]
ASSUME SelectorsAssumption == \A s \in Selectors : s \in [1..4 -> 0..255]
ASSUME SlotsAssumption == \A k \in Slots : k \in [1..32 -> 0..255]
ASSUME ListsAssumption == \A l \in Lists : l # <<>> /\ \A i \in DOMAIN l : l[i] \in [1..4 -> 0..255]
ASSUME MaxPiecesAssumption == MaxPieces \in Nat

VARIABLES
  asked,     \* what josuke wrote the code for; Foreign: it did not
  code, pc,
  stack,     \* top first
  memory,    \* as far as it was touched, in whole words
  storage, logs,
  outcome,   \* "running", "stopped", "returned" or "failed"
  returned

vars == <<asked, code, pc, stack, memory, storage, logs, outcome, returned>>

(* Code of another hand. *)
Foreign == [kind |-> "foreign", of |-> {}]

Zeros(n) == [i \in 1..n |-> 0]
Word(bytes) == Zeros(32 - Len(bytes)) \o bytes
Number(word) == 256 * word[31] + word[32]      \* of a word below 65536
Numeral(n) == Word(<<n \div 256, n % 256>>)

Op(name) == [op |-> name, data |-> <<>>]
Dup(n) == [op |-> "DUP", data |-> <<n>>]
Push(bytes) == [op |-> "PUSH", data |-> bytes] \* PUSH0, PUSH1, ... by their length
DUP1 == Dup(1)
PUSH0 == Push(<<>>)

-----------------------------------------------------------------------------
(* migration.py.                                                           *)

SIG == [i \in 1..32 |-> 124]   \* SELECTOR_DELEGATED_SIG

SetDelegates == [selector : Selectors, slot : Slots, delegate : Delegates]

(* A bug: the last block takes the topic from where the others do. *)
BlockOneDepth(sd, last) ==
  (IF last THEN <<DUP1>> ELSE <<DUP1, DUP1>>)
    \o <<Push(sd.selector), Push(<<224>>), Op("SHL"), Dup(5), PUSH0, PUSH0, Op("LOG3"), Push(sd.slot), Op("SSTORE")>>

(* SetDelegate._block: the last of a delegate consumes it. *)
Block(sd, last) ==
  (IF last THEN <<DUP1>> ELSE <<DUP1, DUP1>>)
    \o <<Push(sd.selector), Push(<<224>>), Op("SHL"), Dup(IF last THEN 4 ELSE 5), PUSH0, PUSH0, Op("LOG3"),
         Push(sd.slot), Op("SSTORE")>>

(* Less, most significant byte first. *)
Before(a, b) == \E i \in DOMAIN a : a[i] < b[i] /\ \A j \in 1..i - 1 : a[j] = b[j]

(* Migration.__init__: by delegate, then by selector. *)
SetDelegateBefore(a, b) ==
  \/ Before(a.delegate, b.delegate)
  \/ a.delegate = b.delegate /\ Before(a.selector, b.selector)

Sorted(sds) == SetToSortSeq(sds, SetDelegateBefore)

(* Migration.encode. *)
Encode(sds) ==
  LET sorted == Sorted(sds)
      first(i) == i = 1 \/ sorted[i - 1].delegate # sorted[i].delegate
      last(i) == i = Len(sorted) \/ sorted[i + 1].delegate # sorted[i].delegate
      piece(i) == (IF first(i) THEN <<Push(sorted[i].delegate)>> ELSE <<>>) \o Block(sorted[i], last(i))
  IN  <<Push(SIG)>> \o FlattenSeq([i \in DOMAIN sorted |-> piece(i)])

InvalidMigration == <<[selector |-> <<>>, slot |-> <<>>, delegate |-> <<>>]>>
NoDelegate == <<>>

(* A block of `last` at i, whichever selector and slot it has. *)
BlockAt(script, i, delegate, last) ==
  {sd \in [selector : Selectors, slot : Slots, delegate : {delegate}] :
     LET block == Block(sd, last)
     IN  i + Len(block) - 1 <= Len(script) /\ SubSeq(script, i, i + Len(block) - 1) = block}

(* Migration.decode: a delegate, then its blocks up to a last one; sorted as  *)
(* every Migration is.                                                      *)
Decode(script) ==
  LET cons(found, rest) == IF rest = InvalidMigration THEN rest ELSE <<CHOOSE sd \in found : TRUE>> \o rest
      from[i \in 1..Len(script) + 1, delegate \in Delegates \union {NoDelegate}] ==
        IF delegate = NoDelegate
        THEN IF i > Len(script) THEN <<>>
             ELSE IF script[i] \in {Push(d) : d \in Delegates} THEN from[i + 1, script[i].data]
             ELSE InvalidMigration
        ELSE LET normal == BlockAt(script, i, delegate, FALSE)
                 final == BlockAt(script, i, delegate, TRUE)
             IN  IF normal # {} THEN cons(normal, from[i + 11, delegate])
                 ELSE IF final # {} THEN cons(final, from[i + 10, NoDelegate])
                 ELSE InvalidMigration
  IN  IF script = <<>> \/ script[1] # Push(SIG) THEN InvalidMigration
      ELSE IF from[2, NoDelegate] = InvalidMigration THEN InvalidMigration
      ELSE SortSeq(from[2, NoDelegate], SetDelegateBefore)

-----------------------------------------------------------------------------
(* erc8167.py.                                                             *)

(* opcodes.push: as few bytes as hold it. *)
PushNumber(n) ==
  CASE n = 0 -> PUSH0
    [] n \in 1..255 -> Push(<<n>>)
    [] OTHER -> Push(<<n \div 256, n % 256>>)

(* The last selector does not advance the pointer. *)
SelectorsFrom(pointer, selectors) ==
  LET n == Len(selectors)
      round(s) == <<Push(s), Dup(2), Op("MSTORE"), Dup(2), Op("ADD")>>
      rounds == [j \in 1..5 * n |-> round(selectors[(j + 4) \div 5])[((j - 1) % 5) + 1]]
  IN  <<Push(<<32>>), Push(<<pointer>>)>> \o SubSeq(rounds, 1, 5 * n - 2)
        \o <<PushNumber(n), Dup(3), Op("MSTORE"), Op("SWAP1"), PUSH0, Op("MSTORE"),
             Op("MSIZE"), PUSH0, Op("RETURN")>>

(* A bug: selectors are written where words begin, not so that they end up *)
(* at the front of one.                                                    *)
SelectorsMethodAligned(selectors) == SelectorsFrom(64, selectors)

(* selectors_method. *)
SelectorsMethod(selectors) == SelectorsFrom(36, selectors)

-----------------------------------------------------------------------------
(* The EVM.                                                                *)

Migrations == {sds \in SUBSET SetDelegates :
                 \A a, b \in sds : a # b => a.selector # b.selector /\ a.slot # b.slot}

(* A foreign script: a delegate, blocks of both kinds, and a stray DUP1.   *)
Pieces ==
  {<<Push(d)>> : d \in Delegates} \union {Block(sd, last) : sd \in SetDelegates, last \in BOOLEAN}
    \union {<<DUP1>>}

Init ==
  /\ \/ asked \in [kind : {"migration"}, of : Migrations] /\ code = Encode(asked.of)
     \/ asked \in [kind : {"selectors"}, of : Lists] /\ code = SelectorsMethod(asked.of)
     \/ asked = Foreign /\ \E pieces \in BoundedSeq(Pieces, MaxPieces) : code = <<Push(SIG)>> \o FlattenSeq(pieces)
  /\ pc = 1 /\ stack = <<>> /\ memory = <<>>
  /\ storage = [k \in Slots |-> Zeros(32)]
  /\ logs = <<>> /\ returned = <<>>
  /\ outcome = "running"

Executing(name) == outcome = "running" /\ pc <= Len(code) /\ code[pc].op = name

(* An instruction that takes n words off the stack and leaves these. *)
Takes(n, left) ==
  /\ Len(stack) >= n
  /\ stack' = left \o SubSeq(stack, n + 1, Len(stack))
  /\ pc' = pc + 1
  /\ UNCHANGED <<asked, code, outcome, returned>>

Touched(size) == memory \o Zeros(IF size > Len(memory) THEN 32 * ((size + 31) \div 32) - Len(memory) ELSE 0)

ExecutePush == Executing("PUSH") /\ Takes(0, <<Word(code[pc].data)>>) /\ UNCHANGED <<memory, storage, logs>>

ExecuteDup ==
  LET n == code[pc].data[1]
  IN  Executing("DUP") /\ Takes(n, <<stack[n]>> \o SubSeq(stack, 1, n)) /\ UNCHANGED <<memory, storage, logs>>

ExecuteSwap == Executing("SWAP1") /\ Takes(2, <<stack[2], stack[1]>>) /\ UNCHANGED <<memory, storage, logs>>

ExecuteAdd ==
  /\ Executing("ADD")
  /\ Takes(2, <<Numeral(Number(stack[1]) + Number(stack[2]))>>)
  /\ UNCHANGED <<memory, storage, logs>>

(* By whole bytes. *)
ExecuteShl ==
  LET bytes == Number(stack[1]) \div 8
  IN  /\ Executing("SHL")
      /\ Takes(2, <<SubSeq(stack[2], bytes + 1, 32) \o Zeros(bytes)>>)
      /\ UNCHANGED <<memory, storage, logs>>

ExecuteMstore ==
  LET at == Number(stack[1])
      touched == Touched(at + 32)
  IN  /\ Executing("MSTORE")
      /\ Takes(2, <<>>)
      /\ memory' = SubSeq(touched, 1, at) \o stack[2] \o SubSeq(touched, at + 33, Len(touched))
      /\ UNCHANGED <<storage, logs>>

ExecuteMsize == Executing("MSIZE") /\ Takes(0, <<Numeral(Len(memory))>>) /\ UNCHANGED <<memory, storage, logs>>

(* LOG3 of no data. *)
ExecuteLog ==
  /\ Executing("LOG3")
  /\ Takes(5, <<>>)
  /\ logs' = Append(logs, <<stack[3], stack[4], stack[5]>>)
  /\ UNCHANGED <<memory, storage>>

ExecuteSstore ==
  /\ Executing("SSTORE")
  /\ Takes(2, <<>>)
  /\ storage' = [storage EXCEPT ![stack[1]] = stack[2]]
  /\ UNCHANGED <<memory, logs>>

Ends(how) == outcome' = how /\ UNCHANGED <<asked, code, pc, stack, memory, storage, logs>>

ExecuteReturn ==
  LET offset == Number(stack[1])
  IN  /\ Executing("RETURN") /\ Len(stack) >= 2
      /\ returned' = SubSeq(Touched(offset + Number(stack[2])), offset + 1, offset + Number(stack[2]))
      /\ Ends("returned")

Stop == outcome = "running" /\ pc > Len(code) /\ Ends("stopped") /\ UNCHANGED returned

Needs == [op \in {"PUSH", "DUP", "SWAP1", "ADD", "SHL", "MSTORE", "MSIZE", "LOG3", "SSTORE", "RETURN"} |->
            CASE op \in {"PUSH", "MSIZE"} -> 0 [] op = "DUP" -> code[pc].data[1] [] op = "LOG3" -> 5 [] OTHER -> 2]

Underflow ==
  /\ outcome = "running" /\ pc <= Len(code) /\ Len(stack) < Needs[code[pc].op]
  /\ Ends("failed")
  /\ UNCHANGED returned

Next ==
  \/ ExecutePush \/ ExecuteDup \/ ExecuteSwap \/ ExecuteAdd \/ ExecuteShl
  \/ ExecuteMstore \/ ExecuteMsize \/ ExecuteLog \/ ExecuteSstore \/ ExecuteReturn
  \/ Stop \/ Underflow

Spec == Init /\ [][Next]_vars

-----------------------------------------------------------------------------
(* What the bytecode must do.                                              *)

Announced(sd) == <<SIG, sd.selector \o Zeros(28), Word(sd.delegate)>>

(* The slots hold the delegates, one log announces each, and the stack is   *)
(* back to the signature.                                                   *)
Done(sds) ==
  /\ outcome = "stopped"
  /\ stack = <<SIG>>
  /\ Len(logs) = Len(sds) /\ ToSet(logs) = {Announced(sds[i]) : i \in DOMAIN sds}
  /\ \A k \in Slots :
       LET writes == {sd \in ToSet(sds) : sd.slot = k}
       IN  IF writes = {} THEN storage[k] = Zeros(32) ELSE storage[k] \in {Word(sd.delegate) : sd \in writes}

(* Migration.encode and decode (migration.py): the script josuke sends reads *)
(* back as what it was encoded from, and whatever script decode reads, of   *)
(* whatever hand, does exactly what was read: nothing more is written or    *)
(* announced, and it does not fail.  verify takes decode's word for what    *)
(* governance is about to execute.                                          *)
ScriptDoesWhatIsRead ==
  outcome # "running" /\ code[1] = Push(SIG) =>
    /\ asked.kind = "migration" => Decode(code) = Sorted(asked.of)
    /\ Decode(code) # InvalidMigration => Done(Decode(code))

(* selectors_method (erc8167.py) writes the selectors with one pointer that  *)
(* never aligns to a word, and the length and the offset over what those    *)
(* writes left: what it returns is the ABI encoding of the list, each       *)
(* selector at the front of a word and the rest zero.                       *)
SelectorsReturned ==
  outcome # "running" /\ asked.kind = "selectors" =>
    /\ outcome = "returned"
    /\ Len(returned) = 64 + 32 * Len(asked.of)
    /\ SubSeq(returned, 1, 64) = Numeral(32) \o Numeral(Len(asked.of))
    /\ \A i \in DOMAIN asked.of : SubSeq(returned, 33 + 32 * i, 64 + 32 * i) = asked.of[i] \o Zeros(28)
=============================================================================
