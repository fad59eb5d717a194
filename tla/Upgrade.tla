------------------------------- MODULE Upgrade -------------------------------
(***************************************************************************)
(* The upgrade lifecycle of the proxies on one chain: a developer moves    *)
(* HEAD, an operator runs `josuke deploy` and `josuke accept`, governance  *)
(* executes deployed migrations, and other transactions spend the sender's *)
(* nonces.  A run of the tool keeps its ledger in memory and writes the    *)
(* file once, at its end; until then it can be stopped at any point, with  *)
(* whatever it has sent already on chain.                                  *)
(***************************************************************************)
EXTENDS Deployment

CONSTANTS
  MaxRequests,   \* bound: moves of HEAD and `--all` redeploys
  MaxFaults,     \* bound: crashes, foreign transactions, reverted creations, misread slots and facets
  MaxEvents      \* bound: both together

ASSUME BoundsAssumption == MaxRequests \in Nat /\ MaxFaults \in Nat /\ MaxEvents \in Nat

VARIABLES
  head,        \* the commit checked out
  ledger,      \* josuke.json: proxy |-> its deployments on this chain
  run,         \* the running command's memory, Idle when none runs
  code,        \* chain: address |-> code
  nonce,       \* chain: the sender's next nonce
  routes,      \* chain: proxy |-> the address in each selector's slot
  announced,   \* chain: proxy |-> delegates its SelectorDelegated logs name
  ballots,     \* governance: proxy |-> published migrations not yet executed
  warned,      \* history: where deploy has said "`verify` will fail"
  requests,    \* bounded by MaxRequests
  faults       \* bounded by MaxFaults

chain == <<code, nonce, routes, announced>>
vars == <<head, ledger, run, code, nonce, routes, announced, ballots, warned, requests, faults>>

-----------------------------------------------------------------------------
(* A run's local variables.                                                *)

Creation == [address : Addresses, code : Code]

Run ==
  [ step            : {"idle", "facets", "migration", "send", "check"},
    commit          : Commits \union {NoCommit},
    redeploy_all    : BOOLEAN,
    ledger          : [Proxies -> Entry],              \* as loaded, then edited
    proxy           : 1..NProxies + 1,                 \* loop over the proxies
    facet           : Nat,                             \* loop over facetSrc
    proposed_facets : [Facets -> FacetRecord],
    run_deployed    : [Initcodes -> FacetRecord],      \* reusable, this run
    selectors_impl  : MaybeAddress,
    slots           : [Proxies -> Routes],             \* planning_cache: storage at its block
    next_nonce      : Nat,                             \* 0 before the first create
    creations       : Seq(Creation),                   \* planned and not yet sent
    reverted        : BOOLEAN,                         \* a sent creation failed
    pending         : SUBSET Proxies,                  \* accept: proxies that passed
    failed          : BOOLEAN ]                        \* accept: some proxy did not

Idle ==
  [ step            |-> "idle",
    commit          |-> NoCommit,
    redeploy_all    |-> FALSE,
    ledger          |-> [p \in Proxies |-> NoDeployment],
    proxy           |-> 1,
    facet           |-> 1,
    proposed_facets |-> NoState.facets,
    run_deployed    |-> [h \in Initcodes |-> NoRecord],
    selectors_impl  |-> ZERO_ADDRESS,
    slots           |-> [p \in Proxies |-> [s \in Selectors |-> ZERO_ADDRESS]],
    next_nonce      |-> 0,
    creations       |-> <<>>,
    reverted        |-> FALSE,
    pending         |-> {},
    failed          |-> FALSE ]

(* The proxy being planned, its facets, and what the ledger holds of it. *)
Source == facetSrc[run.commit][run.proxy]
SourceFacets == {Source[i] : i \in DOMAIN Source}
Loaded == run.ledger[run.proxy]

(* What the bounds leave. *)
CanRequest == requests < MaxRequests /\ requests + faults < MaxEvents
CanFail == faults < MaxFaults /\ requests + faults < MaxEvents

Init ==
  /\ head \in Commits
  /\ ledger = [p \in Proxies |-> NoDeployment]
  /\ run = Idle
  /\ code = [a \in Addresses |-> NoCode]
  /\ nonce = 1
  /\ routes = [p \in Proxies |-> [s \in Selectors |-> ZERO_ADDRESS]]
  /\ announced = [p \in Proxies |-> {}]
  /\ ballots = [p \in Proxies |-> {}]
  /\ warned = {}
  /\ requests = 0
  /\ faults = 0

-----------------------------------------------------------------------------
(* josuke deploy: planning.  Nothing is sent; `create` only reserves the   *)
(* next nonce, reading the chain's on the first call.                      *)

NextNonce == IF run.next_nonce = 0 THEN nonce ELSE run.next_nonce

(* Contracts the model has room for. *)
CanCreate == NextNonce <= MaxNonce

(* The creations planned, with one more at the next nonce. *)
Reserve(c) == Append(run.creations, [address |-> NextNonce, code |-> c])

StartDeploy(all) ==
  /\ run.step = "idle"
  /\ all => CanRequest
  /\ requests' = IF all THEN requests + 1 ELSE requests
  /\ run' = [Idle EXCEPT !.step = "facets", !.commit = head, !.redeploy_all = all, !.ledger = ledger]
  /\ UNCHANGED <<head, ledger, chain, ballots, warned, faults>>

(* A bug: what a prior run staged is forgotten. *)
ExistingDeploymentUnstaged(f, hash) ==
  LET live == Loaded.current.facets[f]
  IN  IF ~run.redeploy_all /\ live.initcodeHash = hash THEN live
      ELSE run.run_deployed[hash]

(* The record reused for this bytecode: the installed one, else the staged *)
(* one, else one already made this run.                                    *)
ExistingDeployment(f, hash) ==
  LET live == Loaded.current.facets[f]
      staged == Loaded.proposed.facets[f]
  IN  IF ~run.redeploy_all /\ live.initcodeHash = hash THEN live
      ELSE IF ~run.redeploy_all /\ staged.initcodeHash = hash THEN staged
      ELSE run.run_deployed[hash]

(* dict.setdefault *)
SetDefault(deployed, hash, record) ==
  IF deployed[hash] = NoRecord THEN [deployed EXCEPT ![hash] = record] ELSE deployed

(* The record of a facet to create, the rest of it read once it is mined. *)
Unread(address, hash) ==
  [address |-> address, initcodeHash |-> hash, codeHash |-> NoRuntime, creation |-> ZERO_ADDRESS]

PlanFacet ==
  /\ run.step = "facets"
  /\ run.facet \in DOMAIN Source
  /\ LET f == Source[run.facet]
         hash == facet_initcode[run.commit][run.proxy][f]
         existing == ExistingDeployment(f, hash)
         created == Unread(NextNonce, hash)
         Use(rec, next_nonce, creations) ==
           [run EXCEPT !.facet = @ + 1,
                       !.proposed_facets = [@ EXCEPT ![f] = rec],
                       !.run_deployed = SetDefault(@, hash, rec),
                       !.next_nonce = next_nonce,
                       !.creations = creations]
     IN  \/ /\ existing # NoRecord
            /\ run' = Use(existing, run.next_nonce, run.creations)
         \/ /\ existing = NoRecord
            /\ CanCreate
            /\ run' = Use(created, NextNonce + 1, Reserve(FacetCode(hash)))
  /\ UNCHANGED <<head, ledger, chain, ballots, warned, requests, faults>>

(* The generated selectors() delegate: none when a facet has its own, the  *)
(* prior one if its code is what is generated now, else a new one.         *)
PlanSelectors ==
  /\ run.step = "facets"
  /\ run.facet = Len(Source) + 1
  /\ LET runtime == SelectorsRuntime(run.commit, SourceFacets)
         prior == IF Loaded.proposed.selectors # ZERO_ADDRESS
                  THEN Loaded.proposed.selectors ELSE Loaded.current.selectors
         reusable == ~run.redeploy_all /\ prior # ZERO_ADDRESS /\ code[prior] = runtime
     IN  \/ /\ runtime = NoCode
            /\ run' = [run EXCEPT !.step = "migration", !.selectors_impl = ZERO_ADDRESS]
         \/ /\ runtime # NoCode
            /\ reusable
            /\ run' = [run EXCEPT !.step = "migration", !.selectors_impl = prior]
         \/ /\ runtime # NoCode
            /\ ~reusable
            /\ CanCreate
            /\ run' = [run EXCEPT !.step = "migration", !.selectors_impl = NextNonce,
                                  !.next_nonce = NextNonce + 1, !.creations = Reserve(runtime)]
  /\ UNCHANGED <<head, ledger, chain, ballots, warned, requests, faults>>

Proposed(migration) ==
  [ gitCommit |-> run.commit,
    facets    |-> run.proposed_facets,
    selectors |-> run.selectors_impl,
    migration |-> migration ]

(* planning_cache fixes the block when the first proxy's slots are read, so *)
(* the later proxies are planned against that block too.                   *)
PlanningSlots == IF run.proxy = 1 THEN routes ELSE run.slots

(* The next iteration of the loop over proxies, with `state` proposed; past *)
(* the last, the planning cache has served.                                *)
NextProxy(state, next_nonce, creations) ==
  [run EXCEPT !.step = IF run.proxy = NProxies THEN "send" ELSE "facets",
              !.proxy = @ + 1,
              !.facet = 1,
              !.proposed_facets = NoState.facets,
              !.selectors_impl = ZERO_ADDRESS,
              !.slots = IF run.proxy = NProxies THEN Idle.slots ELSE PlanningSlots,
              !.ledger = [@ EXCEPT ![run.proxy] = [Loaded EXCEPT !.proposed = state]],
              !.next_nonce = next_nonce,
              !.creations = creations]

(* The slots as planning finds them, and the installed facets it can read:  *)
(* `evm -nx` may take one slot for another, and a facet's artifact may be   *)
(* missing.  Either counts as a fault.                                      *)
Misread(storage_keys, unread) == storage_keys # OwnSlots \/ unread # {}

Planned(storage_keys, unread) ==
  BuildMigration(Loaded.current, Proposed(ZERO_ADDRESS), PlanningSlots[run.proxy], storage_keys, unread)

(* build_migration raises on a wrong slot, or the rehearsal finds one. *)
Refused(storage_keys, unread) ==
  \/ SlotsAreWrong(Loaded.current, Proposed(ZERO_ADDRESS), PlanningSlots[run.proxy], storage_keys, unread)
  \/ /\ DOMAIN Planned(storage_keys, unread) # {}
     /\ ~Rehearse(Loaded.current, Proposed(ZERO_ADDRESS), PlanningSlots[run.proxy],
                  Planned(storage_keys, unread), unread)

(* build_migration against the slots, the rehearsal, and the script:  *)
(* none when nothing needs writing, the prior one if its code is the same. *)
PlanMigration(storage_keys, unread) ==
  /\ run.step = "migration"
  /\ Misread(storage_keys, unread) => CanFail
  /\ faults' = IF Misread(storage_keys, unread) THEN faults + 1 ELSE faults
  /\ ~Clash(Proposed(ZERO_ADDRESS))
  /\ ~Refused(storage_keys, unread)
  /\ LET sets == Planned(storage_keys, unread)
         prior == Loaded.proposed.migration
         reusable == prior # ZERO_ADDRESS /\ code[prior] = MigrationCode(sets)
     IN  \/ /\ DOMAIN sets = {}
            /\ run' = NextProxy(NoState, run.next_nonce, run.creations)
         \/ /\ DOMAIN sets # {}
            /\ reusable
            /\ run' = NextProxy(Proposed(prior), run.next_nonce, run.creations)
         \/ /\ DOMAIN sets # {}
            /\ ~reusable
            /\ CanCreate
            /\ run' = NextProxy(Proposed(NextNonce), NextNonce + 1, Reserve(MigrationCode(sets)))
  /\ UNCHANGED <<head, ledger, chain, ballots, warned, requests>>

(* The run raises, before anything is sent: "a wrong storage slot costs no *)
(* gas".                                                                   *)
RefuseMigration(storage_keys, unread) ==
  /\ run.step = "migration"
  /\ CanFail
  /\ faults' = faults + 1
  /\ ~Clash(Proposed(ZERO_ADDRESS))
  /\ Refused(storage_keys, unread)
  /\ run' = Idle
  /\ UNCHANGED <<head, ledger, chain, ballots, warned, requests>>

-----------------------------------------------------------------------------
(* josuke deploy: broadcasting, and the write at the end.                  *)

(* The next creation goes out under its reserved nonce; a node takes it    *)
(* only if that is still the sender's next one.                            *)
Send ==
  /\ run.step = "send"
  /\ run.creations # <<>>
  /\ Head(run.creations).address = nonce
  /\ nonce' = nonce + 1
  /\ \/ /\ code' = [code EXCEPT ![nonce] = Head(run.creations).code]
        /\ run' = [run EXCEPT !.creations = Tail(@)]
        /\ UNCHANGED faults
     \/ /\ CanFail
        /\ faults' = faults + 1
        /\ run' = [run EXCEPT !.creations = Tail(@), !.reverted = TRUE]
        /\ UNCHANGED code
  /\ UNCHANGED <<head, ledger, routes, announced, ballots, warned, requests>>

Published(entries) ==
  [p \in Proxies |->
     ballots[p] \union ({entries[p].proposed.migration} \ {ZERO_ADDRESS})]

(* The records of the facets this run created. *)
Unmined ==
  {record \in {run.run_deployed[h] : h \in Initcodes} : record # NoRecord /\ record.codeHash = NoRuntime}

Mine(record) ==
  [record EXCEPT !.codeHash = code_hash(record.address, code),
                 !.creation = deploy_environment(record.initcodeHash, record.address)]

(* Each is one dict, for every source and proxy that shares the facet, so   *)
(* what is read of it once it is mined is in all of them.                   *)
Mined(state) ==
  [state EXCEPT !.facets = [f \in Facets |-> IF @[f] \in Unmined THEN Mine(@[f]) ELSE @[f]]]

(* Replaying the constructor as it is recorded does not rebuild the code. *)
Unreproduced ==
  {record.address : record \in
     {r \in Unmined : Replay(r.initcodeHash, Mine(r).creation) # Mine(r).codeHash}}

(* A bug: what the constructor read is not recorded. *)
FinishDeployWithoutEnvironment ==
  /\ run.step = "send"
  /\ run.creations = <<>>
  /\ ~run.reverted
  /\ ledger' = [p \in Proxies |->
       [run.ledger[p] EXCEPT !.proposed.facets = [f \in Facets |-> [Mined(run.ledger[p].proposed).facets[f] EXCEPT !.creation = ZERO_ADDRESS]]]]
  /\ ballots' = Published(run.ledger)
  /\ warned' = warned \union Unreproduced
  /\ run' = Idle
  /\ UNCHANGED <<head, chain, requests, faults>>

(* A bug: a record is copied where it is shared, and only the first filled in. *)
FinishDeployFirstCopy ==
  /\ run.step = "send"
  /\ run.creations = <<>>
  /\ ~run.reverted
  /\ ledger' = [run.ledger EXCEPT ![1].proposed = Mined(@)]
  /\ ballots' = Published(run.ledger)
  /\ warned' = warned \union Unreproduced
  /\ run' = Idle
  /\ UNCHANGED <<head, chain, requests, faults>>

(* Every receipt is in and none failed: the records are completed, and      *)
(* write_ledger, whether or not the constructors replayed; if one did not,  *)
(* the run then raises.  What is proposed is published with the ledger, and *)
(* may be voted on.                                                         *)
FinishDeploy ==
  /\ run.step = "send"
  /\ run.creations = <<>>
  /\ ~run.reverted
  /\ ledger' = [p \in Proxies |-> [run.ledger[p] EXCEPT !.proposed = Mined(@)]]
  /\ ballots' = Published(run.ledger)
  /\ warned' = warned \union Unreproduced
  /\ run' = Idle
  /\ UNCHANGED <<head, chain, requests, faults>>

(* The run raises and writes nothing: selectors clash, a send is rejected  *)
(* for its nonce, a receipt failed, or the model has no nonce left.        *)
FailDeploy ==
  /\ \/ run.step = "migration" /\ Clash(Proposed(ZERO_ADDRESS))
     \/ run.step = "send" /\ run.creations # <<>> /\ Head(run.creations).address # nonce
     \/ run.step = "send" /\ run.creations = <<>> /\ run.reverted
     \/ run.step \in {"facets", "migration"} /\ ~CanCreate
  /\ run' = Idle
  /\ UNCHANGED <<head, ledger, chain, ballots, warned, requests, faults>>

-----------------------------------------------------------------------------
(* josuke accept.                                                          *)

StartAccept ==
  /\ run.step = "idle"
  /\ run' = [Idle EXCEPT !.step = "check", !.ledger = ledger]
  /\ UNCHANGED <<head, ledger, chain, ballots, warned, requests, faults>>

(* A proxy with nothing proposed is passed over.                           *)
CheckProxy ==
  /\ run.step = "check"
  /\ run.proxy <= NProxies
  /\ LET passed == VerifyMigrated(Loaded.current, Loaded.proposed, routes[run.proxy])
     IN  \/ /\ Loaded.proposed = NoState
            /\ run' = [run EXCEPT !.proxy = @ + 1]
         \/ /\ Loaded.proposed # NoState
            /\ passed
            /\ run' = [run EXCEPT !.proxy = @ + 1, !.pending = @ \union {run.proxy}]
         \/ /\ Loaded.proposed # NoState
            /\ ~passed
            /\ run' = [run EXCEPT !.proxy = @ + 1, !.failed = TRUE]
  /\ UNCHANGED <<head, ledger, chain, ballots, warned, requests, faults>>

(* All or nothing: one failure leaves every proxy's state as it was. *)
FinishAccept ==
  /\ run.step = "check"
  /\ run.proxy = NProxies + 1
  /\ ledger' = IF run.failed THEN ledger
               ELSE [p \in Proxies |-> IF p \in run.pending THEN AcceptEntry(run.ledger[p]) ELSE run.ledger[p]]
  /\ run' = Idle
  /\ UNCHANGED <<head, chain, ballots, warned, requests, faults>>

-----------------------------------------------------------------------------
(* What the tool does not control.                                         *)

(* A source edit or a revert, between runs. *)
MoveHead(c) ==
  /\ run.step = "idle"
  /\ c # head
  /\ CanRequest
  /\ requests' = requests + 1
  /\ head' = c
  /\ UNCHANGED <<ledger, run, chain, ballots, warned, faults>>

(* The process is killed, or a request it makes fails for good. *)
Crash ==
  /\ run.step # "idle"
  /\ CanFail
  /\ faults' = faults + 1
  /\ run' = Idle
  /\ UNCHANGED <<head, ledger, chain, ballots, warned, requests>>

(* Another transaction from the same sender. *)
ForeignTransaction ==
  /\ CanFail
  /\ nonce <= MaxNonce
  /\ faults' = faults + 1
  /\ nonce' = nonce + 1
  /\ UNCHANGED <<head, ledger, run, code, routes, announced, ballots, warned, requests>>

(* A bug: a cleared slot counts as a delegate. *)
ExecuteAnnouncingZero(p, migration) ==
  /\ migration \in ballots[p]
  /\ ballots' = [ballots EXCEPT ![p] = @ \ {migration}]
  /\ LET sets == code[migration].sets
     IN  /\ routes' = [routes EXCEPT ![p] = Migrate(@, sets)]
         /\ announced' = [announced EXCEPT ![p] = @ \union {sets[s] : s \in DOMAIN sets}]
  /\ UNCHANGED <<head, ledger, run, code, nonce, warned, requests, faults>>

(* Governance has proxy p run a published migration; each vote runs once. *)
Execute(p, migration) ==
  /\ migration \in ballots[p]
  /\ ballots' = [ballots EXCEPT ![p] = @ \ {migration}]
  /\ LET sets == code[migration].sets
     IN  /\ routes' = [routes EXCEPT ![p] = Migrate(@, sets)]
         /\ announced' = [announced EXCEPT ![p] = @ \union ({sets[s] : s \in DOMAIN sets} \ {ZERO_ADDRESS})]
  /\ UNCHANGED <<head, ledger, run, code, nonce, warned, requests, faults>>

-----------------------------------------------------------------------------

Tool ==
  \/ PlanFacet \/ PlanSelectors
  \/ Send \/ FinishDeploy \/ FailDeploy
  \/ StartAccept \/ CheckProxy \/ FinishAccept

Next ==
  \/ \E all \in BOOLEAN : StartDeploy(all)
  \/ Tool
  \/ \E storage_keys \in Detections : \E unread \in SUBSET Facets :
       PlanMigration(storage_keys, unread) \/ RefuseMigration(storage_keys, unread)
  \/ \E c \in Commits : MoveHead(c)
  \/ Crash
  \/ ForeignTransaction
  \/ \E p \in Proxies : \E m \in Addresses : Execute(p, m)

Spec == Init /\ [][Next]_vars

(***************************************************************************)
(* The orderly environment README.md asks for: `accept` runs once the      *)
(* migration has executed, before the next deploy, and governance executes *)
(* only the migration the ledger proposes, not during a deploy.  Planning  *)
(* finds each selector's own slot and reads every installed facet: nothing *)
(* is published after the warning that a selector is not zeroed.           *)
(***************************************************************************)
Executed(p) == ledger[p].proposed # NoState /\ ledger[p].proposed.migration \notin ballots[p]

Deploying == run.step \in {"facets", "migration", "send"}

OrderlyDeploy(all) == StartDeploy(all) /\ \A p \in Proxies : ~Executed(p)

OrderlyExecute(p) == ~Deploying /\ Execute(p, ledger[p].proposed.migration)

OrderlyRest ==
  \/ Tool
  \/ PlanMigration(OwnSlots, {})
  \/ \E c \in Commits : MoveHead(c)
  \/ Crash
  \/ ForeignTransaction
  \/ \E p \in Proxies : OrderlyExecute(p)

OrderlyNext == OrderlyRest \/ \E all \in BOOLEAN : OrderlyDeploy(all)

OrderlySpec == Init /\ [][OrderlyNext]_vars

(* Governance is orderly, but deploy may run again before accept does. *)
HastySpec == Init /\ [][OrderlyRest \/ \E all \in BOOLEAN : StartDeploy(all)]_vars

(***************************************************************************)
(* A run goes on until it ends; the operator runs both commands again and  *)
(* again, and governance gets to every vote.  deploy and accept exclude    *)
(* one another, so each needs strong fairness.                             *)
(***************************************************************************)
Fairness ==
  /\ WF_vars(PlanFacet \/ PlanSelectors \/ PlanMigration(OwnSlots, {}) \/ Send \/ FinishDeploy \/ FailDeploy)
  /\ WF_vars(CheckProxy \/ FinishAccept)
  /\ SF_vars(OrderlyDeploy(FALSE))
  /\ SF_vars(StartAccept)
  /\ \A p \in Proxies : SF_vars(OrderlyExecute(p))

FairSpec == OrderlySpec /\ Fairness

-----------------------------------------------------------------------------
(* Properties.                                                             *)

TypeOK ==
  /\ head \in Commits
  /\ ledger \in [Proxies -> Entry]
  /\ run \in Run
  /\ code \in [Addresses -> Code]
  /\ nonce \in Nat \ {0}
  /\ routes \in [Proxies -> Routes]
  /\ announced \in [Proxies -> SUBSET Addresses]
  /\ ballots \in [Proxies -> SUBSET Addresses]
  /\ warned \in SUBSET Addresses
  /\ requests \in 0..MaxRequests
  /\ faults \in 0..MaxFaults

(***************************************************************************)
(* Whatever was deployed, reused, shared between proxies, raced by other   *)
(* transactions, lost to a crash or archived: of the facets the ledger     *)
(* records in `current`, `proposed` and `history`, verify_facets fails on  *)
(* exactly those of which deploy said that "`verify` will fail for" them,  *)
(* and the rest of what is recorded passes verify_selectors,               *)
(* verify_proposed_set and verify_history_entry.                           *)
(***************************************************************************)
RecordsVerify ==
  \A p \in Proxies :
    /\ \A state \in {ledger[p].current, ledger[p].proposed} :
         /\ VerifySelectors(state, code)
         /\ \A f \in FacetsOf(state) :
              LET record == state.facets[f]
              IN  VerifyFacet(facet_initcode[state.gitCommit][p][f], record.address, record, code)
                    <=> record.address \notin warned
    /\ ledger[p].proposed # NoState => VerifyProposedSet(p, ledger[p].proposed)
    /\ \A a \in Archived(ledger[p]) : VerifyHistoryEntry(p, a, ledger[p].history[a], code) <=> a \notin warned

(***************************************************************************)
(* audit's warning "was never installed per the logs" is due only for a    *)
(* facet without functions, which deploy creates and routes nothing to:    *)
(* every other delegate accept records as current, or archives, a          *)
(* migration installed on that proxy, even if votes on superseded          *)
(* migrations run meanwhile.                                               *)
(***************************************************************************)
OwnersAnnounced(p, state) ==
  \A s \in Selectors : SelectorOwners(state)[s] # ZERO_ADDRESS => SelectorOwners(state)[s] \in announced[p]

Dispatches(entry) ==
  entry.initcodeHash = NoHash \/ \E f \in entry.source : facet_selectors[entry.gitCommit][f] # {}

RecordedWereInstalled ==
  \A p \in Proxies :
    /\ OwnersAnnounced(p, ledger[p].current)
    /\ \A a \in Archived(ledger[p]) : Dispatches(ledger[p].history[a]) => a \in announced[p]

(***************************************************************************)
(* A delegate once accepted stays in the ledger for audit to verify: no    *)
(* deploy or accept takes it out of both `current` and `history`.          *)
(***************************************************************************)
RetiredStayRecorded ==
  [][\A p \in Proxies :
       StateDelegates(ledger[p].current) \union Archived(ledger[p])
         \subseteq StateDelegates(ledger'[p].current) \union Archived(ledger'[p])]_ledger

(***************************************************************************)
(* If accept would refuse a proposed migration even once it has run on the *)
(* live slots, then verify refuses it now, while governance can still turn *)
(* it down: also where deploy staged it though it could not read an        *)
(* installed facet, since verify reads every facet or stops, or on a wrong *)
(* slot, if verify finds the right ones or asks the dispatcher             *)
(* (verify_rehearsal).                                                     *)
(***************************************************************************)
VerifiedMigrationIsAcceptable ==
  \A p \in Proxies :
    LET current == ledger[p].current
        proposed == ledger[p].proposed
        sets == code[proposed.migration].sets
    IN  proposed # NoState /\ ~VerifyMigrated(current, proposed, Migrate(routes[p], sets)) =>
          \A storage_keys \in Detections : \A unread \in SUBSET Facets :
            (storage_keys = OwnSlots \/ Rehearse(current, proposed, routes[p], sets, unread)) =>
              ~VerifyMigration(current, proposed, routes[p], code, storage_keys, unread)

(***************************************************************************)
(* existing_deployment "keeps re-runs before promotion idempotent": with   *)
(* the commit already proposed, a plan without `--all` creates no second   *)
(* copy of a facet or of selectors().  It may still turn from the staged   *)
(* copy to the installed one, after an `--all` run staged a redundant one. *)
(***************************************************************************)
RerunReuses ==
  run.step = "send" /\ ~run.redeploy_all =>
    \A p \in Proxies :
      LET live == ledger[p].current
          staged == ledger[p].proposed
          planned == run.ledger[p].proposed
      IN  staged.gitCommit = run.commit /\ planned # NoState =>
            /\ \A f \in Facets : planned.facets[f] \in {live.facets[f], staged.facets[f]}
            /\ planned.selectors \in {live.selectors, staged.selectors}

(***************************************************************************)
(* "requires every delegate they name to be recorded somewhere in the      *)
(* ledger" (README.md on audit): audit reports no UNRECORDED delegate.     *)
(***************************************************************************)
AuditIsClean ==
  \A p \in Proxies : Unrecorded(ledger[p], announced[p]) = {}

(***************************************************************************)
(* The orderly lifecycle implements AtomicUpgrade.                         *)
(***************************************************************************)
CodeAt(a) == IF a = ZERO_ADDRESS THEN NoCode ELSE code[a]

Serves(owners) == [s \in Selectors |-> CodeAt(owners[s])]

(* What `commit`, deployed in full, has proxy p serve. *)
Behaviour(commit, p) ==
  LET facets == {facetSrc[commit][p][i] : i \in DOMAIN facetSrc[commit][p]}
      serving(s) == {f \in facets : Exposes(commit, f, s)}
  IN  [s \in Selectors |->
         IF serving(s) # {} THEN FacetCode(facet_initcode[commit][p][CHOOSE f \in serving(s) : TRUE])
         ELSE IF s = SELECTORS_SELECTOR THEN SelectorsRuntime(commit, facets)
         ELSE NoCode]

Atomic ==
  INSTANCE AtomicUpgrade WITH
    Nothing <- [s \in Selectors |-> NoCode],
    served <- [p \in Proxies |-> Serves(routes[p])],
    accepted <- [p \in Proxies |-> Serves(SelectorOwners(ledger[p].current))]

ServesOneCommit == Atomic!Spec

(***************************************************************************)
(* Once HEAD stays at a commit, every proxy ends up serving it, the ledger *)
(* recording it as current with nothing pending, and `check --strict`      *)
(* seeing no drift, whatever crashes, foreign transactions and reverted    *)
(* creations there were.                                                   *)
(***************************************************************************)
Upgraded(c) ==
  \A p \in Proxies :
    /\ Serves(routes[p]) = Behaviour(c, p)
    /\ SelectorOwners(ledger[p].current) = routes[p]
    /\ ledger[p].proposed = NoState
    /\ Drift(c, p, ledger[p]) = {}

UpgradeCompletes == \A c \in Commits : <>[](head = c) => <>[]Upgraded(c)
=============================================================================
