----------------------------- MODULE MCBytecode -----------------------------
(* Delegates of which one is zero, as a removal writes; lists on both sides *)
(* of where the pointer, and where the length, need a second byte.          *)
EXTENDS Bytecode

MCDelegates == {Zeros(20), [i \in 1..20 |-> 200 + i]}
MCSelectors == {<<1, 2, 3, 4>>, <<1, 2, 0, 255>>}
MCSlots == {[i \in 1..32 |-> 30 + i], [i \in 1..32 |-> 130 - i]}

FirstSelectors(n) == [i \in 1..n |-> <<i \div 256, i % 256, 7, 255>>]
MCLists == {FirstSelectors(n) : n \in 1..9 \union {255, 256}}
=============================================================================
