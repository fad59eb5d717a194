----------------------------- MODULE CheckLedger -----------------------------
(***************************************************************************)
(* check.py's account, before anything is run, of what `deploy` would do   *)
(* with the sources of a commit: which facets it would create, and whether *)
(* it would refuse their selectors.  A contract that does not exist yet is *)
(* known by its creation code, not by an address.                          *)
(***************************************************************************)
EXTENDS Upgrade

At(address) == [address |-> address, new |-> NoHash]
New(hash)   == [address |-> ZERO_ADDRESS, new |-> hash]
Nowhere     == At(ZERO_ADDRESS)

(* Before the first proxy of the chain. *)
NothingPlanned ==
  [ owners   |-> [f \in Facets |-> Nowhere],      \* of the proxy in hand: where each facet is
    deployed |-> [h \in Initcodes |-> Nowhere],   \* run_deployed
    fresh    |-> {} ]                             \* what deploy would create, so far

(* A bug: what a prior run staged is counted as new. *)
CheckFacetUnstaged(commit, p, entry, plan, f) ==
  LET hash == facet_initcode[commit][p][f]
      address == IF entry.current.facets[f].initcodeHash = hash THEN At(entry.current.facets[f].address)
                 ELSE IF plan.deployed[hash] # Nowhere THEN plan.deployed[hash]
                 ELSE New(hash)
  IN  [ owners   |-> [plan.owners EXCEPT ![f] = address],
        deployed |-> [plan.deployed EXCEPT ![hash] = IF @ = Nowhere THEN address ELSE @],
        fresh    |-> plan.fresh \union ({address.new} \ {NoHash}) ]

(* One facet of p: kept, staged, shared with another, or new. *)
CheckFacet(commit, p, entry, plan, f) ==
  LET hash == facet_initcode[commit][p][f]
      kept == {state \in {entry.current, entry.proposed} : state.facets[f].initcodeHash = hash}
      address == IF entry.current \in kept THEN At(entry.current.facets[f].address)
                 ELSE IF kept # {} THEN At(entry.proposed.facets[f].address)
                 ELSE IF plan.deployed[hash] # Nowhere THEN plan.deployed[hash]
                 ELSE New(hash)
  IN  [ owners   |-> [plan.owners EXCEPT ![f] = address],
        deployed |-> [plan.deployed EXCEPT ![hash] = IF @ = Nowhere THEN address ELSE @],
        fresh    |-> plan.fresh \union ({address.new} \ {NoHash}) ]

(* A bug: what an earlier proxy would deploy is forgotten. *)
CheckSourcesAlone(commit, p, entry, plan) ==
  LET source == facetSrc[commit][p]
      after[i \in 0..Len(source)] ==
        IF i = 0 THEN [NothingPlanned EXCEPT !.fresh = plan.fresh]
        ELSE CheckFacet(commit, p, entry, after[i - 1], source[i])
  IN  after

(* The plan after each facet of p's sources. *)
CheckSources(commit, p, entry, plan) ==
  LET source == facetSrc[commit][p]
      after[i \in 0..Len(source)] ==
        IF i = 0 THEN [owners |-> NothingPlanned.owners, deployed |-> plan.deployed, fresh |-> plan.fresh]
        ELSE CheckFacet(commit, p, entry, after[i - 1], source[i])
  IN  after

(* The plan after each proxy, in the ledger's order. *)
Checked(commit, entries) ==
  LET after[p \in 0..NProxies] ==
        IF p = 0 THEN NothingPlanned
        ELSE CheckSources(commit, p, entries[p], after[p - 1])[Len(facetSrc[commit][p])]
  IN  after

(* A selector is exported at two places. *)
ExportedTwice(commit, owners) ==
  \E s \in Selectors : \E f, g \in {f \in Facets : owners[f] # Nowhere /\ Exposes(commit, f, s)} :
    owners[f] # owners[g]

(***************************************************************************)
(* A clash check reports is one deploy raises, and one it does not report  *)
(* deploy gets past; and the facets it says deploy would create are those  *)
(* a plain deploy of the same ledger has planned, sharing between sources  *)
(* and proxies included.                                                   *)
(***************************************************************************)
CheckForetellsDeploy ==
  run.step = "migration" /\ ~run.redeploy_all =>
    LET plan == Checked(run.commit, ledger)[run.proxy]
        planned == {run.creations[i].code : i \in DOMAIN run.creations}
    IN  /\ ExportedTwice(run.commit, plan.owners) <=> Clash(Proposed(ZERO_ADDRESS))
        /\ {c \in planned : c.kind = "facet"} = {FacetCode(h) : h \in plan.fresh}

-----------------------------------------------------------------------------
(* The inductive invariant behind it: facet by facet, check's plan and the *)
(* run's memory say the same, a place of the one being an address of the   *)
(* other.                                                                  *)

PlanSoFar ==
  CheckSources(run.commit, run.proxy, ledger[run.proxy],
               Checked(run.commit, ledger)[run.proxy - 1])[run.facet - 1]

(* Contracts on chain, and the ones a run is to create. *)
Places(fresh, onchain) ==
  {Nowhere} \union {At(a) : a \in {a \in Addresses : onchain[a] # NoCode}} \union {New(h) : h \in fresh}

Where(place, deployed) == IF place.new = NoHash THEN place.address ELSE deployed[place.new].address

PlansAgree(plan, memory, onchain) ==
  /\ plan = [owners |-> plan.owners, deployed |-> plan.deployed, fresh |-> plan.fresh]
  /\ plan.owners \in [Facets -> Places(plan.fresh, onchain)]
  /\ plan.deployed \in [Initcodes -> Places(plan.fresh, onchain)]
  /\ \A f \in Facets : /\ plan.owners[f] = Nowhere <=> memory.proposed_facets[f] = NoRecord
                       /\ memory.proposed_facets[f].address = Where(plan.owners[f], memory.run_deployed)
  /\ \A h \in Initcodes : memory.run_deployed[h].address = Where(plan.deployed[h], memory.run_deployed)
  /\ plan.fresh
       = {h \in Initcodes : \E i \in DOMAIN memory.creations : memory.creations[i].code = FacetCode(h)}
  /\ \A h \in plan.fresh : \E i \in DOMAIN memory.creations :
       memory.creations[i].address = memory.run_deployed[h].address /\ memory.creations[i].code = FacetCode(h)

(* No two creations go to one address, nor one to where code is.           *)
CreationsApart ==
  /\ \A i \in DOMAIN run.creations :
       run.creations[i].address < run.next_nonce /\ code[run.creations[i].address] = NoCode
  /\ \A i, j \in DOMAIN run.creations : run.creations[i].address = run.creations[j].address => i = j
  /\ \A a \in Addresses : a >= NextNonce => code[a] = NoCode

ForetoldInv ==
  run.step \in {"facets", "migration"} =>
    CreationsApart /\ (~run.redeploy_all => PlansAgree(PlanSoFar, run, code))
=============================================================================
