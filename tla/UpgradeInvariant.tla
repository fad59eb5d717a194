-------------------------- MODULE UpgradeInvariant --------------------------
(***************************************************************************)
(* An inductive invariant of Upgrade: what the records, a run's memory and *)
(* the chain know of each other between any two steps.                     *)
(***************************************************************************)
EXTENDS Upgrade

(* The sender's next nonce is where the code on chain ends. *)
Unwritten == \A a \in Addresses : a >= nonce => code[a] = NoCode

(* A recorded facet has an address and a hash. *)
FilledIn(facets) ==
  \A f \in Facets : facets[f] # NoRecord =>
    facets[f].address \in Addresses /\ facets[f].initcodeHash \in Initcodes

(* A recorded state routes selectors() somewhere: deploy generates it when *)
(* no facet has it.                                                        *)
WellFormed(state) ==
  \/ state = NoState
  \/ /\ state.gitCommit \in Commits
     /\ FilledIn(state.facets)
     /\ SelectorOwners(state)[SELECTORS_SELECTOR] # ZERO_ADDRESS

RecordsWellFormed ==
  \A p \in Proxies : \A entry \in {ledger[p], run.ledger[p]} :
    WellFormed(entry.current) /\ WellFormed(entry.proposed)

(* deploy's loops: the facets before the one at hand are planned, and past *)
(* the last of them something serves selectors().                          *)
Planning ==
  run.step \in {"facets", "migration"} =>
    /\ run.commit \in Commits
    /\ run.proxy \in Proxies
    /\ FilledIn(run.proposed_facets)
    /\ \A i \in DOMAIN Source : i < run.facet => run.proposed_facets[Source[i]] # NoRecord
    /\ run.step = "migration" =>
         /\ run.facet = Len(Source) + 1
         /\ run.selectors_impl # ZERO_ADDRESS \/ \E f \in SourceFacets : Exposes(run.commit, f, SELECTORS_SELECTOR)

(* A record is kept for reuse under the hash of its creation code. *)
Reusable ==
  \A h \in Initcodes : run.run_deployed[h] # NoRecord =>
    run.run_deployed[h].address \in Addresses /\ run.run_deployed[h].initcodeHash = h

(* A run only ever edits what is proposed, and accept not even that. *)
Memory ==
  /\ run.step # "idle" =>
       \A p \in Proxies : run.ledger[p].current = ledger[p].current /\ run.ledger[p].history = ledger[p].history
  /\ run.step = "check" => run.ledger = ledger /\ run.creations = <<>> /\ ~run.reverted

IsMigration(c) == c \in [kind : {"migration"}, sets : Migrations]

(* What the ledger proposes, and what may be voted on, is a migration on   *)
(* chain; what a run proposes is that or will be, unless a creation failed. *)
MigrationsHeld ==
  /\ \A p \in Proxies : \A m \in ballots[p] : IsMigration(code[m])
  /\ \A p \in Proxies : ledger[p].proposed.migration # ZERO_ADDRESS =>
       IsMigration(code[ledger[p].proposed.migration])
  /\ \A p \in Proxies : run.ledger[p].proposed.migration # ZERO_ADDRESS =>
       \/ IsMigration(code[run.ledger[p].proposed.migration])
       \/ run.reverted
       \/ \E i \in DOMAIN run.creations :
            /\ run.creations[i].address = run.ledger[p].proposed.migration
            /\ IsMigration(run.creations[i].code)

IInv ==
  TypeOK /\ Unwritten /\ RecordsWellFormed /\ Planning /\ Reusable /\ Memory /\ MigrationsHeld

-----------------------------------------------------------------------------
(* What the records say is on chain.  A run reads a contract's address off *)
(* the nonce it reserved before the contract is there, so what it plans to *)
(* record holds once its creations are sent, unless one of them fails.     *)

(* c is at address a, or a planned creation puts it there. *)
Lands(a, c, onchain, creations) ==
  \/ onchain[a] = c
  \/ \E i \in DOMAIN creations : creations[i].address = a /\ creations[i].code = c

FacetLands(p, commit, f, record, onchain, creations) ==
  /\ record.initcodeHash = facet_initcode[commit][p][f]
  /\ Lands(record.address, FacetCode(record.initcodeHash), onchain, creations)

SourcesAt(commit, p) == {facetSrc[commit][p][i] : i \in DOMAIN facetSrc[commit][p]}

SelectorsLand(state, onchain, creations) ==
  LET runtime == SelectorsRuntime(state.gitCommit, FacetsOf(state))
  IN  state.selectors # ZERO_ADDRESS => runtime # NoCode /\ Lands(state.selectors, runtime, onchain, creations)

StateLands(p, state, onchain, creations) ==
  /\ \A f \in FacetsOf(state) : FacetLands(p, state.gitCommit, f, state.facets[f], onchain, creations)
  /\ SelectorsLand(state, onchain, creations)
  /\ state # NoState => FacetsOf(state) = SourcesAt(state.gitCommit, p)

EntryHolds(p, a, entry, onchain) ==
  /\ entry.initcodeHash = NoHash => onchain[a] = SelectorsRuntime(entry.gitCommit, entry.source)
  /\ entry.initcodeHash # NoHash =>
       /\ entry.source # {}
       /\ \A f \in entry.source : entry.initcodeHash = facet_initcode[entry.gitCommit][p][f]
       /\ onchain[a] = FacetCode(entry.initcodeHash)

HistoryHolds(p, entry, onchain) ==
  \A a \in Archived(entry) : EntryHolds(p, a, entry.history[a], onchain) /\ onchain[a] # NoCode

LedgerHolds ==
  \A p \in Proxies :
    /\ StateLands(p, ledger[p].current, code, <<>>)
    /\ StateLands(p, ledger[p].proposed, code, <<>>)
    /\ HistoryHolds(p, ledger[p], code)

MemoryLands == ~run.reverted => \A p \in Proxies : StateLands(p, run.ledger[p].proposed, code, run.creations)

PlanLands ==
  run.step \in {"facets", "migration"} =>
    /\ \A f \in Facets : run.proposed_facets[f] # NoRecord =>
         f \in SourceFacets /\ FacetLands(run.proxy, run.commit, f, run.proposed_facets[f], code, run.creations)
    /\ run.step = "migration" => SelectorsLand(Proposed(ZERO_ADDRESS), code, run.creations)

(* So does what it keeps for reuse. *)
ReusableLands ==
  Deploying /\ (run.step = "send" => ~run.reverted) =>
    \A h \in Initcodes : run.run_deployed[h] # NoRecord =>
      Lands(run.run_deployed[h].address, FacetCode(h), code, run.creations)

(* What is proposed for the proxies still to plan is as it was loaded. *)
Untouched == Deploying => \A p \in Proxies : p >= run.proxy => run.ledger[p].proposed = ledger[p].proposed

RecordsInv == LedgerHolds /\ MemoryLands /\ PlanLands /\ ReusableLands /\ Untouched

(* What else a record says of its facet.  The record of one that a run     *)
(* creates is the one kept for reuse, and is read once all is mined.       *)
Complete(hash, address, record) ==
  /\ record.codeHash = Runtime(hash, address)
  /\ record.creation = deploy_environment(hash, address)
  /\ hash \in Fragile => address \in warned

CompleteOrUnread(record) ==
  \/ Complete(record.initcodeHash, record.address, record)
  \/ record = Unread(record.address, record.initcodeHash) /\ run.run_deployed[record.initcodeHash] = record

LedgerComplete ==
  \A p \in Proxies :
    /\ \A state \in {ledger[p].current, ledger[p].proposed} : \A f \in FacetsOf(state) :
         Complete(state.facets[f].initcodeHash, state.facets[f].address, state.facets[f])
    /\ \A a \in Archived(ledger[p]) : ledger[p].history[a].initcodeHash # NoHash =>
         Complete(ledger[p].history[a].initcodeHash, a, ledger[p].history[a])

MemoryComplete ==
  Deploying =>
    /\ \A p \in Proxies : \A f \in FacetsOf(run.ledger[p].proposed) :
         CompleteOrUnread(run.ledger[p].proposed.facets[f])
    /\ \A f \in Facets : run.proposed_facets[f] # NoRecord => CompleteOrUnread(run.proposed_facets[f])
    /\ \A h \in Initcodes : run.run_deployed[h] # NoRecord => CompleteOrUnread(run.run_deployed[h])

(* The warning is for facets whose constructor does not replay. *)
WarnedAreFragile == \A a \in warned : \E h \in Fragile : code[a] = FacetCode(h)

DetailsInv == LedgerComplete /\ MemoryComplete /\ WarnedAreFragile

(* A re-run of the commit that is staged takes each contract from what is  *)
(* installed or staged, for the proxies behind and the one at hand.        *)
ReusesFacet(entry, f, record) == record \in {entry.current.facets[f], entry.proposed.facets[f]}
ReusesSelectors(entry, selectors) == selectors \in {entry.current.selectors, entry.proposed.selectors}

RerunPlans ==
  Deploying /\ ~run.redeploy_all =>
    \A p \in Proxies : ledger[p].proposed.gitCommit = run.commit =>
      LET planned == run.ledger[p].proposed
      IN  /\ p < run.proxy /\ planned # NoState =>
               /\ \A f \in Facets : ReusesFacet(ledger[p], f, planned.facets[f])
               /\ ReusesSelectors(ledger[p], planned.selectors)
          /\ p = run.proxy =>
               /\ \A f \in Facets : run.proposed_facets[f] # NoRecord =>
                    ReusesFacet(ledger[p], f, run.proposed_facets[f])
               /\ run.step = "migration" => ReusesSelectors(ledger[p], run.selectors_impl)

(* Nothing is sent before every proxy is planned. *)
AllPlanned == run.step = "send" => run.proxy = NProxies + 1

RerunInv == RerunPlans /\ AllPlanned

-----------------------------------------------------------------------------
(* The logs against the records, whoever votes.                            *)

(* No slot was ever written without its log. *)
RoutesAnnounced == \A p \in Proxies : \A s \in Selectors : routes[p][s] # ZERO_ADDRESS => routes[p][s] \in announced[p]

RecordsClear ==
  \A p \in Proxies : ~Clash(ledger[p].current) /\ ~Clash(ledger[p].proposed) /\ ~Clash(run.ledger[p].proposed)

(* A proxy passes accept's check with all of what is proposed routed, so   *)
(* its delegates are in the logs by then, even if votes reroute it since.  *)
PassedWereInstalled == run.step = "check" => \A p \in run.pending : OwnersAnnounced(p, ledger[p].proposed)

InstalledInv == RoutesAnnounced /\ RecordsClear /\ PassedWereInstalled /\ RecordedWereInstalled

-----------------------------------------------------------------------------
(* The orderly environment: what the proxies route is what the ledger says *)
(* is installed, or, once the vote is through, what it says is proposed.   *)

(* The migration of `state`, once on chain, takes a proxy there from       *)
(* `current`, and it has something to do.                                  *)
MigrationLands(current, state, onchain, creations) ==
  LET sets == BuildMigration(current, state, SelectorOwners(current), OwnSlots, {})
  IN  /\ DOMAIN sets # {}
      /\ state.migration \in Addresses
      /\ Lands(state.migration, MigrationCode(sets), onchain, creations)

Installed(p) == routes[p] = SelectorOwners(ledger[p].current)

RoutesFollow ==
  \A p \in Proxies :
    LET entry == ledger[p]
    IN  IF Executed(p) THEN routes[p] = SelectorOwners(entry.proposed)
        ELSE Installed(p) /\ (entry.proposed # NoState => MigrationLands(entry.current, entry.proposed, code, <<>>))

DeployFollows ==
  Deploying =>
    /\ \A p \in Proxies : ~Executed(p)
    /\ run.step # "send" /\ run.proxy > 1 => run.slots = routes
    /\ ~run.reverted =>
         \A p \in Proxies : p < run.proxy /\ run.ledger[p].proposed # NoState =>
           MigrationLands(ledger[p].current, run.ledger[p].proposed, code, run.creations)

AcceptFollows ==
  run.step = "check" =>
    /\ \A p \in run.pending : Executed(p)
    /\ ~run.failed => \A p \in Proxies : p < run.proxy /\ ledger[p].proposed # NoState => p \in run.pending

OrderlyInv == RoutesFollow /\ DeployFollows /\ AcceptFollows

(* Every delegate the logs name is installed, was, or has just been voted  *)
(* in.                                                                     *)
AnnouncedAreRecorded ==
  \A p \in Proxies :
    announced[p] \subseteq StateDelegates(ledger[p].current) \union Archived(ledger[p])
                              \union (IF Executed(p) THEN StateDelegates(ledger[p].proposed) ELSE {})
=============================================================================
