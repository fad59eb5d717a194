---------------------------- MODULE AtomicUpgrade ----------------------------
(***************************************************************************)
(* What josuke promises of an orderly operation: a proxy always serves     *)
(* exactly one commit, never a mixture of two; it moves to the next one in *)
(* a single step, only from a state the ledger has accepted; and what the  *)
(* ledger accepts is what the proxies serve, all of them at once.          *)
(***************************************************************************)
CONSTANTS
  Proxies,
  Commits,
  Nothing,           \* what a proxy serves before its first upgrade
  Behaviour(_, _)    \* commit, proxy |-> what the commit has the proxy serve

VARIABLES
  served,            \* proxy |-> what it serves
  accepted           \* proxy |-> what the ledger says it serves

Init ==
  /\ served = [p \in Proxies |-> Nothing]
  /\ accepted = [p \in Proxies |-> Nothing]

Install(p, c) ==
  /\ served[p] = accepted[p]
  /\ served' = [served EXCEPT ![p] = Behaviour(c, p)]
  /\ UNCHANGED accepted

Accept ==
  /\ accepted' = served
  /\ UNCHANGED served

Next ==
  \/ \E p \in Proxies, c \in Commits : Install(p, c)
  \/ Accept

Spec == Init /\ [][Next]_<<served, accepted>>
=============================================================================
