--------------------------- MODULE Upgrade_proofs ---------------------------
(***************************************************************************)
(* Theorems about Upgrade, for every number of proxies, every source       *)
(* history and every bound.                                                *)
(***************************************************************************)
EXTENDS UpgradeInvariant, TLAPS

-----------------------------------------------------------------------------
(* What the functions of Deployment return.                                *)

(* An absent deployment state is one.                                      *)
LEMMA NoStateType == NoState \in DeploymentState
BY DEF NoState, DeploymentState, NoRecord, NoRuntime, FacetRecord, RuntimeHash, MaybeAddress

(* An absent record is one.                                                *)
LEMMA NoRecordType == NoRecord \in FacetRecord /\ NoRuntime \in RuntimeHash
BY DEF NoRecord, NoRuntime, FacetRecord, RuntimeHash, MaybeAddress

(* So is the entry made of a record.                                       *)
LEMMA ArchivedType ==
  ASSUME NEW commit \in Commits \union {NoCommit}, NEW source \in SUBSET Facets, NEW record \in FacetRecord
  PROVE  ArchivedAs(commit, source, record) \in HistoryEntry
BY DEF ArchivedAs, HistoryEntry, FacetRecord

(* The entry of a delegate never retired. *)
LEMMA NoEntryType == NoEntry \in HistoryEntry
BY NoRecordType, ArchivedType DEF NoEntry

(* A proxy nothing was deployed to has an entry.                           *)
LEMMA NoDeploymentType == NoDeployment \in Entry
BY NoStateType, NoEntryType DEF NoDeployment, Entry

(* selector_owners routes every selector to an address, or nowhere.        *)
LEMMA OwnersType ==
  ASSUME NEW state \in DeploymentState
  PROVE  SelectorOwners(state) \in Routes
<1>1. ASSUME NEW s \in Selectors, Serving(state, s) # {}
      PROVE  state.facets[CHOOSE f \in Serving(state, s) : TRUE].address \in MaybeAddress
  <2>1. (CHOOSE f \in Serving(state, s) : TRUE) \in Facets
    BY <1>1 DEF Serving, FacetsOf
  <2>2. QED
    BY <2>1 DEF DeploymentState, FacetRecord
<1>2. state.selectors \in MaybeAddress /\ ZERO_ADDRESS \in MaybeAddress
  BY DEF DeploymentState, MaybeAddress
<1>3. QED
  BY <1>1, <1>2 DEF SelectorOwners, Routes

(* build_migration writes addresses, or zeros, to some slots, unless it    *)
(* raises.                                                                 *)
LEMMA BuildMigrationType ==
  ASSUME NEW current \in DeploymentState, NEW proposed \in DeploymentState, NEW slots \in Routes,
         NEW storage_keys \in Detections, NEW unread,
         ~SlotsAreWrong(current, proposed, slots, storage_keys, unread)
  PROVE  BuildMigration(current, proposed, slots, storage_keys, unread) \in Migrations
<1> DEFINE new == SelectorOwners(proposed)
           written == SetDelegates(current, proposed, slots, storage_keys, unread)
           writer(slot) == CHOOSE s \in written : storage_keys[s] = slot
           sets == [slot \in {storage_keys[s] : s \in written} |-> new[writer(slot)]]
<1>1. written \in SUBSET Selectors
  BY DEF SetDelegates, CurrentSelectors
<1>2. {storage_keys[s] : s \in written} \in SUBSET Selectors
  <2> SUFFICES ASSUME NEW s \in written PROVE storage_keys[s] \in Selectors
    OBVIOUS
  <2>1. storage_keys[s] \in Selectors \union {NoSlot}
    BY <1>1, DetectionsAssumption
  <2>2. storage_keys[s] # NoSlot
    BY <1>1 DEF SetDelegates, SlotsAreWrong, Held
  <2>3. QED
    BY <2>1, <2>2
<1>3. ASSUME NEW slot \in {storage_keys[s] : s \in written}
      PROVE  new[writer(slot)] \in MaybeAddress
  <2>1. writer(slot) \in written
    OBVIOUS
  <2>2. QED
    BY <1>1, <2>1, OwnersType DEF Routes
<1>4. BuildMigration(current, proposed, slots, storage_keys, unread) = sets
  BY DEF BuildMigration
<1> HIDE DEF written
<1>5. sets \in [{storage_keys[s] : s \in written} -> MaybeAddress]
  BY <1>3
<1>6. QED
  BY <1>2, <1>4, <1>5 DEF Migrations

(* Executing a migration leaves addresses in the slots and logs some.      *)
LEMMA MigrateType ==
  ASSUME NEW slots \in Routes, NEW sets \in Migrations
  PROVE  /\ Migrate(slots, sets) \in Routes
         /\ {sets[s] : s \in DOMAIN sets} \ {ZERO_ADDRESS} \subseteq Addresses
BY DEF Migrate, Routes, Migrations, MaybeAddress

(* The generated selectors() is code, when it is needed.                   *)
LEMMA SelectorsRuntimeType ==
  ASSUME NEW commit \in Commits, NEW facets \in SUBSET Facets
  PROVE  SelectorsRuntime(commit, facets) \in Code
<1>1. {SELECTORS_SELECTOR} \union UNION {facet_selectors[commit][f] : f \in facets} \in SUBSET Selectors
  BY NamesAssumption, SourcesAssumption
<1>2. QED
  BY <1>1 DEF SelectorsRuntime, SelectorsCode, Code

(* What accept retires a delegate with is a history entry.                 *)
LEMMA HistoryEntriesType ==
  ASSUME NEW state \in DeploymentState
  PROVE  HistoryEntries(state) \in [Addresses -> HistoryEntry]
<1>1. ASSUME NEW a \in Addresses
      PROVE  HistoryEntries(state)[a] \in HistoryEntry
  <2>1. CASE a = state.selectors
    <3>1. HistoryEntries(state)[a] = ArchivedAs(state.gitCommit, FacetsOf(state), NoRecord)
      BY <2>1 DEF HistoryEntries
    <3>2. state.gitCommit \in Commits \union {NoCommit} /\ FacetsOf(state) \in SUBSET Facets
      BY DEF DeploymentState, FacetsOf
    <3>3. QED
      BY <3>1, <3>2, ArchivedType, NoRecordType
  <2>2. CASE a # state.selectors /\ \E f \in Facets : state.facets[f].address = a
    <3> DEFINE f == CHOOSE f \in Facets : state.facets[f].address = a
    <3>1. f \in Facets
      BY <2>2
    <3>2. HistoryEntries(state)[a] =
            ArchivedAs(state.gitCommit, {f}, state.facets[f])
      BY <2>2 DEF HistoryEntries
    <3>3. QED
      <4> HIDE DEF f
      <4>1. state.facets[f] \in FacetRecord /\ {f} \in SUBSET Facets /\ state.gitCommit \in Commits \union {NoCommit}
        BY <3>1 DEF DeploymentState
      <4>2. QED
        BY <3>2, <4>1, ArchivedType
  <2>3. CASE a # state.selectors /\ ~\E f \in Facets : state.facets[f].address = a
    BY <2>3, NoEntryType DEF HistoryEntries
  <2>4. QED
    BY <2>1, <2>2, <2>3
<1>2. QED
  BY <1>1 DEF HistoryEntries

(* accept's swap makes a proxy's entry of one.                             *)
LEMMA AcceptEntryType ==
  ASSUME NEW entry \in Entry
  PROVE  AcceptEntry(entry) \in Entry
<1>1. RetiredEntries(entry.current, entry.proposed) \in [Addresses -> HistoryEntry]
  BY HistoryEntriesType, NoEntryType DEF Entry, RetiredEntries
<1>2. UpdateHistory(entry.history, RetiredEntries(entry.current, entry.proposed))
        \in [Addresses -> HistoryEntry]
  BY <1>1 DEF UpdateHistory, Entry
<1>3. QED
  BY <1>2, NoStateType DEF AcceptEntry, Entry

-----------------------------------------------------------------------------
(* The inductive invariant holds initially.                                *)

(* A state that is absent is well formed.                                  *)
LEMMA NoStateWellFormed == WellFormed(NoState)
BY DEF WellFormed

(* Between two commands the memory has its type.                           *)
LEMMA IdleType == Idle \in Run
<1>1. NoState.facets \in [Facets -> FacetRecord]
  BY NoStateType DEF DeploymentState
<1>2. 1 \in 1..NProxies + 1
  BY SizesAssumption
<1>3. [p \in Proxies |-> [s \in Selectors |-> ZERO_ADDRESS]] \in [Proxies -> Routes]
  BY DEF Routes, MaybeAddress
<1>4. QED
  BY <1>1, <1>2, <1>3, NoDeploymentType, NoRecordType DEF Idle, Run, MaybeAddress

(* The invariant holds before the first command.                           *)
LEMMA InitIInv == Init => IInv
<1> SUFFICES ASSUME Init PROVE IInv
  OBVIOUS
<1>1. TypeOK
  BY IdleType, NoDeploymentType, BoundsAssumption DEF Init, TypeOK, Code, Routes, MaybeAddress
<1>2. Unwritten
  BY DEF Init, Unwritten
<1>3. RecordsWellFormed
  BY NoStateWellFormed DEF Init, Idle, NoDeployment, RecordsWellFormed
<1>4. Planning /\ Reusable /\ Memory
  BY DEF Init, Idle, Planning, Reusable, Memory
<1>5. MigrationsHeld
  BY DEF Init, Idle, NoDeployment, NoState, MigrationsHeld
<1>6. QED
  BY <1>1, <1>2, <1>3, <1>4, <1>5 DEF IInv

-----------------------------------------------------------------------------
(* Planning a facet.                                                       *)

(* The facets of the proxy being planned are facets.                       *)
LEMMA SourceType ==
  ASSUME run.commit \in Commits, run.proxy \in Proxies
  PROVE  Source \in Seq(Facets) /\ SourceFacets \in SUBSET Facets
<1>1. Source \in Seq(Facets)
  BY SourcesAssumption DEF Source
<1>2. QED
  BY <1>1 DEF SourceFacets

(* What the ledger held of that proxy when it was loaded is well formed.   *)
LEMMA LoadedWellFormed ==
  ASSUME IInv, run.proxy \in Proxies
  PROVE  /\ Loaded \in Entry
         /\ WellFormed(Loaded.current)
         /\ WellFormed(Loaded.proposed)
BY DEF IInv, TypeOK, Run, RecordsWellFormed, Loaded

(* A recorded facet has an address and a hash.                             *)
LEMMA RecordedFilledIn ==
  ASSUME NEW state \in DeploymentState, WellFormed(state), NEW f \in Facets, state.facets[f] # NoRecord
  PROVE  state.facets[f].address \in Addresses /\ state.facets[f].initcodeHash \in Initcodes
BY DEF WellFormed, FilledIn, NoState

(* existing_deployment returns a whole record, or none.                    *)
LEMMA ExistingType ==
  ASSUME IInv, run.proxy \in Proxies, NEW f \in Facets, NEW hash \in Initcodes
  PROVE  LET existing == ExistingDeployment(f, hash)
         IN  /\ existing \in FacetRecord
             /\ existing # NoRecord => existing.address \in Addresses /\ existing.initcodeHash \in Initcodes
<1> DEFINE live == Loaded.current.facets[f]
           staged == Loaded.proposed.facets[f]
           shared == run.run_deployed[hash]
<1>1. live \in FacetRecord /\ staged \in FacetRecord
  BY LoadedWellFormed DEF Entry, DeploymentState
<1>2. /\ live # NoRecord => live.address \in Addresses /\ live.initcodeHash \in Initcodes
      /\ staged # NoRecord => staged.address \in Addresses /\ staged.initcodeHash \in Initcodes
  BY LoadedWellFormed, RecordedFilledIn DEF Entry
<1>3. shared \in FacetRecord
  BY DEF IInv, TypeOK, Run
<1>4. shared # NoRecord => shared.address \in Addresses /\ shared.initcodeHash \in Initcodes
  BY DEF IInv, Reusable
<1>5. QED
  BY <1>1, <1>2, <1>3, <1>4 DEF ExistingDeployment

(* It is the record of that creation code.                                 *)
LEMMA ExistingHash ==
  ASSUME IInv, NEW f \in Facets, NEW hash \in Initcodes, ExistingDeployment(f, hash) # NoRecord
  PROVE  ExistingDeployment(f, hash).initcodeHash = hash
BY DEF ExistingDeployment, IInv, Reusable

(* The record of a facet to create is one.                                 *)
LEMMA UnreadType ==
  ASSUME NEW address \in Addresses, NEW hash \in Initcodes
  PROVE  /\ Unread(address, hash) \in FacetRecord
         /\ Unread(address, hash).address = address
         /\ Unread(address, hash).initcodeHash = hash
BY NoRecordType DEF Unread, FacetRecord, MaybeAddress

(* What a plan can rely on: the next nonce is an address no code is at.    *)
LEMMA CanCreateType ==
  ASSUME IInv, CanCreate
  PROVE  NextNonce \in Addresses
BY SizesAssumption DEF IInv, TypeOK, Run, CanCreate, NextNonce, Addresses

(* Planning a facet keeps the invariant: it ends up with a record.         *)
LEMMA PlanFacetStep == IInv /\ PlanFacet => IInv'
<1> SUFFICES ASSUME IInv, PlanFacet PROVE IInv'
  OBVIOUS
<1> DEFINE f == Source[run.facet]
           hash == facet_initcode[run.commit][run.proxy][f]
           existing == ExistingDeployment(f, hash)
           created == Unread(NextNonce, hash)
<1>1. run \in Run /\ run.step = "facets" /\ run.commit \in Commits /\ run.proxy \in Proxies
  BY DEF IInv, TypeOK, PlanFacet, Planning
<1>2. f \in Facets /\ hash \in Initcodes
  BY <1>1, SourceType, SourcesAssumption DEF PlanFacet
<1>3. PICK rec \in FacetRecord, next_nonce \in Nat, creations \in Seq(Creation) :
        /\ rec.address \in Addresses /\ rec.initcodeHash = hash
        /\ \A i \in DOMAIN run.creations : i \in DOMAIN creations /\ creations[i] = run.creations[i]
        /\ run' = [run EXCEPT !.facet = @ + 1,
                              !.proposed_facets = [@ EXCEPT ![f] = rec],
                              !.run_deployed = SetDefault(@, hash, rec),
                              !.next_nonce = next_nonce,
                              !.creations = creations]
  <2>1. CASE existing # NoRecord
    <3>1. run.next_nonce \in Nat /\ run.creations \in Seq(Creation)
      BY <1>1 DEF Run
    <3>2. run' = [run EXCEPT !.facet = @ + 1,
                             !.proposed_facets = [@ EXCEPT ![f] = existing],
                             !.run_deployed = SetDefault(@, hash, existing),
                             !.next_nonce = run.next_nonce,
                             !.creations = run.creations]
      BY <2>1 DEF PlanFacet
    <3>3. existing \in FacetRecord /\ existing.address \in Addresses /\ existing.initcodeHash = hash
      BY <1>1, <1>2, <2>1, ExistingType, ExistingHash
    <3> HIDE DEF existing, hash, f
    <3>4. QED
      BY <3>1, <3>2, <3>3
  <2>2. CASE existing = NoRecord
    <3>1. created \in FacetRecord /\ created.address \in Addresses /\ created.initcodeHash = hash
      BY <1>2, <2>2, CanCreateType, UnreadType DEF PlanFacet
    <3>2. [address |-> NextNonce, code |-> FacetCode(hash)] \in Creation /\ NextNonce + 1 \in Nat
      BY <1>2, <2>2, CanCreateType DEF Creation, Code, FacetCode, Addresses, PlanFacet
    <3>3. /\ Reserve(FacetCode(hash)) \in Seq(Creation)
          /\ \A i \in DOMAIN run.creations :
               i \in DOMAIN Reserve(FacetCode(hash)) /\ Reserve(FacetCode(hash))[i] = run.creations[i]
      BY <1>1, <3>2 DEF Reserve, Run
    <3>4. run' = [run EXCEPT !.facet = @ + 1,
                             !.proposed_facets = [@ EXCEPT ![f] = created],
                             !.run_deployed = SetDefault(@, hash, created),
                             !.next_nonce = NextNonce + 1,
                             !.creations = Reserve(FacetCode(hash))]
      BY <2>2 DEF PlanFacet
    <3> HIDE DEF created, hash, f
    <3>5. QED
      BY <3>1, <3>2, <3>3, <3>4
  <2>3. QED
    BY <2>1, <2>2
<1>4. run'.proposed_facets = [run.proposed_facets EXCEPT ![f] = rec]
  BY <1>1, <1>3 DEF Run
<1>5. [run.proposed_facets EXCEPT ![f] = rec] \in [Facets -> FacetRecord]
  BY <1>1, <1>2, <1>3 DEF Run
<1>6. SetDefault(run.run_deployed, hash, rec) \in [Initcodes -> FacetRecord]
  BY <1>1, <1>2, <1>3 DEF SetDefault, Run
<1>7. run.facet + 1 \in Nat
  BY <1>1 DEF Run
<1>8. run' \in Run
  BY <1>1, <1>3, <1>5, <1>6, <1>7 DEF Run
<1>9. /\ run'.step = "facets" /\ run'.commit = run.commit /\ run'.proxy = run.proxy
      /\ run'.ledger = run.ledger /\ run'.facet = run.facet + 1 /\ run'.reverted = run.reverted
      /\ \A i \in DOMAIN run.creations : i \in DOMAIN run'.creations /\ run'.creations[i] = run.creations[i]
  BY <1>1, <1>3 DEF Run
<1>10. TypeOK'
  BY <1>8 DEF IInv, TypeOK, PlanFacet, chain
<1>11. Unwritten' /\ RecordsWellFormed' /\ Memory'
  BY <1>9 DEF IInv, Unwritten, RecordsWellFormed, Memory, PlanFacet, chain
<1>12. Planning'
  <2>1. Source' = Source /\ Source \in Seq(Facets)
    BY <1>1, <1>9, SourceType DEF Source
  <2>2. FilledIn(run'.proposed_facets)
    BY <1>1, <1>2, <1>3, <1>4 DEF IInv, Planning, FilledIn, Run
  <2>3. ASSUME NEW i \in DOMAIN Source, i < run.facet + 1
        PROVE  run'.proposed_facets[Source[i]] # NoRecord
    <3>1. rec # NoRecord
      BY <1>3 DEF NoRecord, Addresses, ZERO_ADDRESS
    <3>2. i < run.facet \/ i = run.facet
      BY <1>1, <2>1, <2>3 DEF Run
    <3>3. QED
      BY <1>1, <1>2, <1>4, <2>1, <3>1, <3>2 DEF IInv, Planning, Run
  <2>4. QED
    BY <1>1, <1>9, <2>1, <2>2, <2>3 DEF Planning
<1>13. MigrationsHeld'
  BY <1>9 DEF IInv, MigrationsHeld, PlanFacet, chain
<1>14. Reusable'
  <2>1. run'.run_deployed = SetDefault(run.run_deployed, hash, rec)
    BY <1>1, <1>3 DEF Run
  <2>2. QED
    BY <1>1, <1>2, <1>3, <2>1 DEF IInv, Reusable, SetDefault, Run
<1>15. QED
  BY <1>10, <1>11, <1>12, <1>13, <1>14 DEF IInv

-----------------------------------------------------------------------------
(* Planning selectors() and the migration.                                 *)

(* A creation planned at the next nonce has its type.                      *)
LEMMA ReserveType ==
  ASSUME IInv, CanCreate, NEW c \in Code
  PROVE  /\ NextNonce + 1 \in Nat
         /\ Reserve(c) \in Seq(Creation)
         /\ \A i \in DOMAIN run.creations : i \in DOMAIN Reserve(c) /\ Reserve(c)[i] = run.creations[i]
         /\ \E i \in DOMAIN Reserve(c) : Reserve(c)[i].address = NextNonce /\ Reserve(c)[i].code = c
<1>1. NextNonce \in Addresses /\ [address |-> NextNonce, code |-> c] \in Creation
  BY CanCreateType DEF Creation
<1>2. run.creations \in Seq(Creation)
  BY DEF IInv, TypeOK, Run
<1> DEFINE new == [address |-> NextNonce, code |-> c]
<1>3. new \in Creation /\ new.address = NextNonce /\ new.code = c
  BY <1>1
<1>4. Reserve(c) = Append(run.creations, new)
  BY DEF Reserve
<1> HIDE DEF new
<1>5. /\ Append(run.creations, new) \in Seq(Creation)
      /\ \A i \in DOMAIN run.creations :
           i \in DOMAIN Append(run.creations, new) /\ Append(run.creations, new)[i] = run.creations[i]
      /\ Len(run.creations) + 1 \in DOMAIN Append(run.creations, new)
      /\ Append(run.creations, new)[Len(run.creations) + 1] = new
  BY <1>2, <1>3
<1>6. QED
  BY <1>1, <1>3, <1>4, <1>5 DEF Addresses

(* Planning selectors() keeps it: something serves the selector.           *)
LEMMA PlanSelectorsStep == IInv /\ PlanSelectors => IInv'
<1> SUFFICES ASSUME IInv, PlanSelectors PROVE IInv'
  OBVIOUS
<1> DEFINE runtime == SelectorsRuntime(run.commit, SourceFacets)
           prior == IF Loaded.proposed.selectors # ZERO_ADDRESS
                    THEN Loaded.proposed.selectors ELSE Loaded.current.selectors
<1>1. /\ run \in Run /\ run.step = "facets" /\ run.commit \in Commits /\ run.proxy \in Proxies
      /\ run.facet = Len(Source) + 1
  BY DEF IInv, TypeOK, PlanSelectors, Planning
<1>2. runtime \in Code
  BY <1>1, SourceType, SelectorsRuntimeType
<1>3. PICK impl \in MaybeAddress, next_nonce \in Nat, creations \in Seq(Creation) :
        /\ impl = ZERO_ADDRESS => runtime = NoCode
        /\ \A i \in DOMAIN run.creations : i \in DOMAIN creations /\ creations[i] = run.creations[i]
        /\ run' = [run EXCEPT !.step = "migration", !.selectors_impl = impl,
                              !.next_nonce = next_nonce, !.creations = creations]
  <2>2. run.next_nonce \in Nat /\ run.creations \in Seq(Creation)
    BY <1>1 DEF Run
  <2>3. CASE /\ runtime = NoCode
             /\ run' = [run EXCEPT !.step = "migration", !.selectors_impl = ZERO_ADDRESS]
    <3>1. run' = [run EXCEPT !.step = "migration", !.selectors_impl = ZERO_ADDRESS,
                             !.next_nonce = run.next_nonce, !.creations = run.creations]
      BY <1>1, <2>3 DEF Run
    <3>2. ZERO_ADDRESS \in MaybeAddress
      BY DEF MaybeAddress
    <3>3. QED
      BY <2>2, <2>3, <3>1, <3>2
  <2>4. CASE /\ prior # ZERO_ADDRESS
             /\ run' = [run EXCEPT !.step = "migration", !.selectors_impl = prior]
    <3>1. run' = [run EXCEPT !.step = "migration", !.selectors_impl = prior,
                             !.next_nonce = run.next_nonce, !.creations = run.creations]
      BY <1>1, <2>4 DEF Run
    <3>2. prior \in MaybeAddress
      BY <1>1, LoadedWellFormed DEF Entry, DeploymentState
    <3> HIDE DEF prior, runtime
    <3>3. QED
      BY <2>2, <2>4, <3>1, <3>2
  <2>5. CASE /\ CanCreate
             /\ run' = [run EXCEPT !.step = "migration", !.selectors_impl = NextNonce,
                                   !.next_nonce = NextNonce + 1, !.creations = Reserve(runtime)]
    <3>1. NextNonce \in MaybeAddress /\ NextNonce # ZERO_ADDRESS
      BY <2>5, CanCreateType DEF MaybeAddress, Addresses, ZERO_ADDRESS
    <3> HIDE DEF runtime
    <3>2. QED
      BY <1>2, <2>5, <3>1, ReserveType
  <2>6. QED
    BY <2>3, <2>4, <2>5 DEF PlanSelectors
<1>4. run' \in Run
  BY <1>1, <1>3 DEF Run
<1>5. /\ run'.step = "migration" /\ run'.commit = run.commit /\ run'.proxy = run.proxy
      /\ run'.ledger = run.ledger /\ run'.facet = run.facet /\ run'.reverted = run.reverted
      /\ run'.proposed_facets = run.proposed_facets /\ run'.run_deployed = run.run_deployed
      /\ run'.selectors_impl = ZERO_ADDRESS => runtime = NoCode
      /\ \A i \in DOMAIN run.creations : i \in DOMAIN run'.creations /\ run'.creations[i] = run.creations[i]
  BY <1>1, <1>3 DEF Run
<1>6. TypeOK'
  BY <1>4 DEF IInv, TypeOK, PlanSelectors, chain
<1>7. Unwritten' /\ RecordsWellFormed' /\ Reusable' /\ Memory'
  BY <1>5 DEF IInv, Unwritten, RecordsWellFormed, Reusable, Memory, PlanSelectors, chain
<1>8. Planning'
  <2>1. Source' = Source /\ SourceFacets' = SourceFacets
    BY <1>5 DEF Source, SourceFacets
  <2>2. runtime = NoCode => \E f \in SourceFacets : Exposes(run.commit, f, SELECTORS_SELECTOR)
    BY DEF SelectorsRuntime, NoCode, SelectorsCode
  <2>3. QED
    BY <1>1, <1>5, <2>1, <2>2 DEF IInv, Planning
<1>9. MigrationsHeld'
  BY <1>5 DEF IInv, MigrationsHeld, PlanSelectors, chain
<1>10. QED
  BY <1>6, <1>7, <1>8, <1>9 DEF IInv

(* What deploy proposes routes selectors().                                *)
LEMMA ProposedWellFormed ==
  ASSUME IInv, run.step = "migration", NEW m \in MaybeAddress
  PROVE  Proposed(m) \in DeploymentState /\ WellFormed(Proposed(m))
<1> DEFINE state == Proposed(m)
           serving == Serving(state, SELECTORS_SELECTOR)
<1>1. /\ run \in Run /\ run.commit \in Commits /\ run.proxy \in Proxies
      /\ FilledIn(run.proposed_facets) /\ run.facet = Len(Source) + 1
  BY DEF IInv, TypeOK, Planning
<1>2. Source \in Seq(Facets)
  BY <1>1, SourceType
<1>3. state \in DeploymentState
  BY <1>1 DEF Proposed, DeploymentState, Run
<1>4. /\ state.facets = run.proposed_facets /\ state.gitCommit = run.commit
      /\ state.selectors = run.selectors_impl
  BY DEF Proposed
<1>5. CASE serving # {}
  <2>1. (CHOOSE f \in serving : TRUE) \in serving
    BY <1>5
  <2>2. state.facets[CHOOSE f \in serving : TRUE].address \in Addresses
    BY <1>1, <1>4, <2>1 DEF Serving, FacetsOf, FilledIn
  <2>3. SelectorOwners(state)[SELECTORS_SELECTOR] = state.facets[CHOOSE f \in serving : TRUE].address
    BY <1>5, NamesAssumption DEF SelectorOwners
  <2>4. QED
    BY <1>1, <1>3, <1>4, <2>2, <2>3 DEF WellFormed, Addresses, ZERO_ADDRESS
<1>6. CASE serving = {}
  <2>1. ~\E f \in SourceFacets : Exposes(run.commit, f, SELECTORS_SELECTOR)
    <3> SUFFICES ASSUME NEW i \in DOMAIN Source, Exposes(run.commit, Source[i], SELECTORS_SELECTOR)
                 PROVE  FALSE
      BY DEF SourceFacets
    <3>1. i < run.facet
      BY <1>1, <1>2
    <3>2. run.proposed_facets[Source[i]] # NoRecord /\ Source[i] \in Facets
      BY <1>2, <3>1 DEF IInv, Planning
    <3>3. QED
      BY <1>4, <1>6, <3>2 DEF Serving, FacetsOf
  <2>2. run.selectors_impl # ZERO_ADDRESS
    BY <2>1 DEF IInv, Planning
  <2>3. SelectorOwners(state)[SELECTORS_SELECTOR] = run.selectors_impl
    BY <1>4, <1>6, NamesAssumption DEF SelectorOwners
  <2>4. QED
    BY <1>1, <1>3, <1>4, <2>2, <2>3 DEF WellFormed
<1>7. QED
  BY <1>5, <1>6

(* Staging a proposal keeps it: its migration is on chain, or planned.     *)
LEMMA PlanMigrationStep ==
  ASSUME IInv, NEW storage_keys \in Detections, NEW unread, PlanMigration(storage_keys, unread)
  PROVE  IInv'
<1> DEFINE sets == Planned(storage_keys, unread)
           prior == Loaded.proposed.migration
<1>1. /\ run \in Run /\ run.step = "migration" /\ run.commit \in Commits /\ run.proxy \in Proxies
      /\ Loaded \in Entry /\ Loaded = run.ledger[run.proxy]
  BY LoadedWellFormed DEF IInv, TypeOK, PlanMigration, Planning, Loaded
<1>2. sets \in Migrations
  <2>1. Proposed(ZERO_ADDRESS) \in DeploymentState
    BY <1>1, ProposedWellFormed DEF MaybeAddress
  <2>2. PlanningSlots[run.proxy] \in Routes /\ Loaded.current \in DeploymentState
    BY <1>1 DEF IInv, TypeOK, Entry, Run, PlanningSlots
  <2>3. QED
    BY <2>1, <2>2, BuildMigrationType DEF PlanMigration, Planned, Refused
<1>3. MigrationCode(sets) \in Code /\ IsMigration(MigrationCode(sets))
  <2> HIDE DEF sets
  <2>1. QED
    BY <1>2 DEF Code, IsMigration, MigrationCode
<1>4. PICK state \in DeploymentState, next_nonce \in Nat, creations \in Seq(Creation) :
        /\ WellFormed(state)
        /\ state.migration # ZERO_ADDRESS =>
             \/ IsMigration(code[state.migration])
             \/ \E i \in DOMAIN creations :
                  creations[i].address = state.migration /\ IsMigration(creations[i].code)
        /\ \A i \in DOMAIN run.creations : i \in DOMAIN creations /\ creations[i] = run.creations[i]
        /\ run' = NextProxy(state, next_nonce, creations)
  <2>1. run.next_nonce \in Nat /\ run.creations \in Seq(Creation)
    BY <1>1 DEF Run
  <2>2. CASE run' = NextProxy(NoState, run.next_nonce, run.creations)
    <3>1. NoState.migration = ZERO_ADDRESS
      BY DEF NoState
    <3>2. QED
      BY <2>1, <2>2, <3>1, NoStateType, NoStateWellFormed
  <2>3. CASE /\ prior # ZERO_ADDRESS /\ code[prior] = MigrationCode(sets)
             /\ run' = NextProxy(Proposed(prior), run.next_nonce, run.creations)
    <3>1. prior \in MaybeAddress
      BY <1>1 DEF Entry, DeploymentState
    <3>2. Proposed(prior) \in DeploymentState /\ WellFormed(Proposed(prior))
      BY <1>1, <3>1, ProposedWellFormed
    <3>3. Proposed(prior).migration = prior
      BY DEF Proposed
    <3>4. QED
      BY <1>3, <2>1, <2>3, <3>2, <3>3
  <2>4. CASE /\ CanCreate
             /\ run' = NextProxy(Proposed(NextNonce), NextNonce + 1, Reserve(MigrationCode(sets)))
    <3>1. NextNonce \in MaybeAddress
      BY <2>4, CanCreateType DEF MaybeAddress
    <3>2. Proposed(NextNonce) \in DeploymentState /\ WellFormed(Proposed(NextNonce))
      BY <1>1, <3>1, ProposedWellFormed
    <3>3. Proposed(NextNonce).migration = NextNonce
      BY DEF Proposed
    <3> HIDE DEF sets
    <3>4. QED
      BY <1>3, <2>4, <3>2, <3>3, ReserveType
  <2>5. QED
    BY <2>2, <2>3, <2>4 DEF PlanMigration
<1> DEFINE edited == [run.ledger EXCEPT ![run.proxy] = [Loaded EXCEPT !.proposed = state]]
<1>5. edited \in [Proxies -> Entry]
  <2>1. [Loaded EXCEPT !.proposed = state] \in Entry
    BY <1>1, <1>4 DEF Entry
  <2>2. QED
    BY <1>1, <2>1 DEF Run
<1>6. /\ run'.ledger = edited /\ run'.creations = creations /\ run'.reverted = run.reverted
      /\ run'.commit = run.commit /\ run'.proxy = run.proxy + 1 /\ run'.facet = 1
      /\ run'.step = IF run.proxy = NProxies THEN "send" ELSE "facets"
      /\ run'.proposed_facets = NoState.facets /\ run'.run_deployed = run.run_deployed
  BY <1>1, <1>4 DEF Run, NextProxy
<1>7. run' \in Run
  <2>1. NoState.facets \in [Facets -> FacetRecord] /\ ZERO_ADDRESS \in MaybeAddress
    BY NoStateType DEF DeploymentState, MaybeAddress
  <2>2. run.proxy + 1 \in 1..NProxies + 1
    BY <1>1, SizesAssumption DEF Proxies
  <2> DEFINE step == IF run.proxy = NProxies THEN "send" ELSE "facets"
             noFacets == NoState.facets
             slots == IF run.proxy = NProxies THEN Idle.slots ELSE PlanningSlots
  <2>3. step \in {"send", "facets"} /\ noFacets \in [Facets -> FacetRecord] /\ slots \in [Proxies -> Routes]
    <3>1. Idle.slots \in [Proxies -> Routes] /\ PlanningSlots \in [Proxies -> Routes]
      BY <1>1, IdleType DEF Run, PlanningSlots, IInv, TypeOK
    <3>2. QED
      BY <2>1, <3>1
  <2>4. run' = [run EXCEPT !.step = step,
                           !.proxy = run.proxy + 1,
                           !.facet = 1,
                           !.proposed_facets = noFacets,
                           !.selectors_impl = ZERO_ADDRESS,
                           !.slots = slots,
                           !.ledger = edited,
                           !.next_nonce = next_nonce,
                           !.creations = creations]
    BY <1>1, <1>4 DEF NextProxy
  <2>5. next_nonce \in Nat /\ creations \in Seq(Creation)
    BY <1>4
  <2> HIDE DEF edited, step, noFacets, slots
  <2> DEFINE moved == [run EXCEPT !.step = step, !.proxy = run.proxy + 1, !.facet = 1, !.ledger = edited,
                                  !.slots = slots]
             cleared == [moved EXCEPT !.proposed_facets = noFacets, !.selectors_impl = ZERO_ADDRESS,
                                      !.next_nonce = next_nonce, !.creations = creations]
  <2>6. moved \in Run
    BY <1>1, <1>5, <2>2, <2>3 DEF Run
  <2>7. run' = cleared
    BY <1>1, <2>4 DEF Run
  <2> HIDE DEF moved
  <2>8. QED
    BY <2>1, <2>3, <2>5, <2>6, <2>7 DEF Run
<1>8. TypeOK' /\ Unwritten' /\ Reusable'
  <2>1. faults' \in 0..MaxFaults
    BY BoundsAssumption DEF IInv, TypeOK, PlanMigration, CanFail
  <2>2. UNCHANGED <<head, ledger, code, nonce, routes, announced, ballots, warned, requests>>
    BY DEF PlanMigration, chain
  <2>3. QED
    BY <1>6, <1>7, <2>1, <2>2 DEF IInv, TypeOK, Unwritten, Reusable
<1>9. \A p \in Proxies :
        /\ edited[p].current = run.ledger[p].current
        /\ edited[p].history = run.ledger[p].history
        /\ edited[p].proposed = IF p = run.proxy THEN state ELSE run.ledger[p].proposed
  BY <1>1 DEF Run, Entry
<1>10. RecordsWellFormed'
  <2>1. ledger' = ledger
    BY DEF PlanMigration
  <2> HIDE DEF edited
  <2>2. QED
    BY <1>4, <1>6, <1>9, <2>1 DEF IInv, RecordsWellFormed
<1>11. Memory'
  <2>1. ledger' = ledger /\ run'.step # "check"
    BY <1>6 DEF PlanMigration
  <2> HIDE DEF edited
  <2>2. QED
    BY <1>1, <1>6, <1>9, <2>1 DEF IInv, Memory
<1>12. Planning'
  <2>1. FilledIn(NoState.facets)
    BY DEF FilledIn, NoState
  <2>2. CASE run.proxy = NProxies
    BY <1>6, <2>2 DEF Planning
  <2>3. CASE run.proxy # NProxies
    <3>1. run.commit \in Commits /\ run.proxy + 1 \in Proxies
      BY <1>1, <2>3, SizesAssumption DEF Proxies
    <3>2. Source' \in Seq(Facets)
      BY <1>6, <3>1, SourcesAssumption DEF Source
    <3>3. QED
      BY <1>6, <2>1, <2>3, <3>1, <3>2 DEF Planning
  <2>4. QED
    BY <2>2, <2>3
<1>13. MigrationsHeld'
  <2>1. UNCHANGED <<ledger, code, ballots>>
    BY DEF PlanMigration, chain
  <2> HIDE DEF edited
  <2>2. QED
    BY <1>4, <1>6, <1>9, <2>1 DEF IInv, MigrationsHeld
<1>14. QED
  BY <1>8, <1>10, <1>11, <1>12, <1>13 DEF IInv

-----------------------------------------------------------------------------
(* Broadcasting.                                                           *)

(* Sending a creation keeps it: code appears at the nonce planned, or the  *)
(* run is marked.                                                          *)
LEMMA SendStep == IInv /\ Send => IInv'
<1> SUFFICES ASSUME IInv, Send PROVE IInv'
  OBVIOUS
<1> DEFINE first == Head(run.creations)
           rest == Tail(run.creations)
<1>1. run \in Run /\ run.step = "send" /\ run.creations \in Seq(Creation) /\ run.creations # <<>>
  BY DEF IInv, TypeOK, Run, Send
<1>2. /\ first \in Creation /\ first = run.creations[1] /\ rest \in Seq(Creation)
      /\ \A i \in DOMAIN run.creations : i # 1 =>
           i - 1 \in DOMAIN rest /\ rest[i - 1] = run.creations[i]
  BY <1>1
<1>3. nonce \in Addresses /\ first.address = nonce /\ first.code \in Code
  BY <1>2 DEF Creation, Send
<1>4. code \in [Addresses -> Code] /\ code[nonce] = NoCode /\ nonce \in Nat
  BY <1>3 DEF IInv, TypeOK, Unwritten, Addresses
<1>5. /\ run'.step = "send" /\ run'.ledger = run.ledger /\ run'.creations = rest
      /\ run'.run_deployed = run.run_deployed
      /\ \/ run'.reverted = run.reverted /\ code' = [code EXCEPT ![nonce] = first.code]
         \/ run'.reverted = TRUE /\ code' = code
  BY <1>1 DEF Run, Send
<1>6. run' \in Run
  <2>1. CASE run' = [run EXCEPT !.creations = rest]
    BY <1>1, <1>2, <2>1 DEF Run
  <2>2. CASE run' = [run EXCEPT !.creations = rest, !.reverted = TRUE]
    BY <1>1, <1>2, <2>2 DEF Run
  <2>3. QED
    BY <2>1, <2>2 DEF Send
<1>7. code' \in [Addresses -> Code] /\ \A a \in Addresses : a # nonce => code'[a] = code[a]
  BY <1>3, <1>4, <1>5
<1>8. /\ UNCHANGED <<head, ledger, routes, announced, ballots, warned, requests>>
      /\ nonce' = nonce + 1 /\ faults' \in 0..MaxFaults
  BY BoundsAssumption DEF Send, CanFail, IInv, TypeOK
<1>9. TypeOK'
  BY <1>4, <1>6, <1>7, <1>8 DEF IInv, TypeOK
<1>10. Unwritten'
  BY <1>3, <1>4, <1>7, <1>8 DEF IInv, Unwritten, Addresses
<1>11. RecordsWellFormed' /\ Planning' /\ Reusable' /\ Memory'
  BY <1>1, <1>5, <1>8 DEF IInv, RecordsWellFormed, Planning, Reusable, Memory
<1>12. MigrationsHeld'
  <2>1. ~IsMigration(NoCode)
    BY DEF IsMigration, NoCode, MigrationCode
  <2>2. ASSUME NEW m \in Addresses, IsMigration(code[m])
        PROVE  IsMigration(code'[m])
    BY <1>4, <1>7, <2>1, <2>2
  <2>3. \A p \in Proxies : /\ ledger[p].proposed.migration \in MaybeAddress
                           /\ run.ledger[p].proposed.migration \in MaybeAddress
                           /\ ballots[p] \subseteq Addresses
    BY <1>1 DEF IInv, TypeOK, Run, Entry, DeploymentState
  <2>4. ASSUME NEW p \in Proxies, run.ledger[p].proposed.migration # ZERO_ADDRESS, run'.reverted # TRUE
        PROVE  \/ IsMigration(code'[run.ledger[p].proposed.migration])
               \/ \E i \in DOMAIN rest :
                    rest[i].address = run.ledger[p].proposed.migration /\ IsMigration(rest[i].code)
    <3> DEFINE m == run.ledger[p].proposed.migration
    <3>1. m \in Addresses /\ run.reverted # TRUE /\ code' = [code EXCEPT ![nonce] = first.code]
      BY <1>5, <2>3, <2>4 DEF MaybeAddress
    <3>2. CASE IsMigration(code[m])
      BY <2>2, <3>1, <3>2
    <3>3. ASSUME NEW i \in DOMAIN run.creations,
                 run.creations[i].address = m, IsMigration(run.creations[i].code)
          PROVE  \/ IsMigration(code'[m])
                 \/ \E j \in DOMAIN rest : rest[j].address = m /\ IsMigration(rest[j].code)
      <4>1. CASE i = 1
        <5>1. m = nonce /\ code'[m] = first.code
          BY <1>2, <1>3, <1>4, <3>1, <3>3, <4>1
        <5>2. QED
          BY <1>2, <3>3, <4>1, <5>1
      <4>2. CASE i # 1
        <5> HIDE DEF rest, m
        <5>1. QED
          BY <1>2, <3>3, <4>2
      <4>3. QED
        BY <4>1, <4>2
    <3>4. IsMigration(code[m]) \/ \E i \in DOMAIN run.creations :
            run.creations[i].address = m /\ IsMigration(run.creations[i].code)
      BY <2>4, <3>1 DEF IInv, MigrationsHeld
    <3>5. QED
      BY <3>2, <3>3, <3>4
  <2>5. \A p \in Proxies : \A m \in ballots[p] : IsMigration(code'[m])
    BY <2>2, <2>3 DEF IInv, MigrationsHeld
  <2>6. \A p \in Proxies : ledger[p].proposed.migration # ZERO_ADDRESS =>
          IsMigration(code'[ledger[p].proposed.migration])
    BY <2>2, <2>3 DEF IInv, MigrationsHeld, MaybeAddress
  <2> HIDE DEF rest
  <2>7. QED
    BY <1>5, <1>8, <2>4, <2>5, <2>6 DEF MigrationsHeld
<1>13. QED
  BY <1>9, <1>10, <1>11, <1>12 DEF IInv

(* A run that ends, whatever it did, leaves nothing in memory to hold.     *)
LEMMA IdleInvariant ==
  ASSUME TypeOK', Unwritten', run' = Idle,
         \A p \in Proxies : WellFormed(ledger'[p].current) /\ WellFormed(ledger'[p].proposed),
         \A p \in Proxies : \A m \in ballots'[p] : IsMigration(code'[m]),
         \A p \in Proxies : ledger'[p].proposed.migration # ZERO_ADDRESS =>
           IsMigration(code'[ledger'[p].proposed.migration])
  PROVE  IInv'
<1>1. \A p \in Proxies : run'.ledger[p].current = NoState /\ run'.ledger[p].proposed = NoState
  BY DEF Idle, NoDeployment
<1>2. RecordsWellFormed'
  BY <1>1, NoStateWellFormed DEF RecordsWellFormed
<1>3. Planning' /\ Reusable' /\ Memory'
  BY DEF Planning, Reusable, Memory, Idle
<1>4. MigrationsHeld'
  BY <1>1 DEF MigrationsHeld, NoState
<1>5. QED
  BY <1>2, <1>3, <1>4 DEF IInv

(* What is read of a facet once it is mined makes a whole record of its.   *)
LEMMA MineType ==
  ASSUME IInv, NEW record \in Unmined
  PROVE  /\ Mine(record) \in FacetRecord
         /\ record \in FacetRecord /\ record # NoRecord
         /\ record.address \in Addresses /\ record.initcodeHash \in Initcodes
         /\ run.run_deployed[record.initcodeHash] = record
         /\ Mine(record).address = record.address /\ Mine(record).initcodeHash = record.initcodeHash
<1>1. PICK h \in Initcodes : record = run.run_deployed[h] /\ record # NoRecord
  BY DEF Unmined
<1>2. record \in FacetRecord /\ record.address \in Addresses /\ record.initcodeHash = h
  BY <1>1 DEF IInv, TypeOK, Run, Reusable
<1>3. code[record.address] \in Code
  BY <1>2 DEF IInv, TypeOK
<1>4. code[record.address].kind = "facet" => code[record.address].initcode \in Initcodes
  BY <1>3 DEF Code, NoCode
<1>5. code_hash(record.address, code) \in RuntimeHash
  BY <1>2, <1>4, NoRecordType DEF code_hash, Runtime, RuntimeHash, MaybeAddress
<1>6. deploy_environment(record.initcodeHash, record.address) \in MaybeAddress
  BY <1>2 DEF deploy_environment, MaybeAddress
<1>7. QED
  BY <1>1, <1>2, <1>5, <1>6 DEF Mine, FacetRecord

(* Completing the records moves no facet and adds none.                    *)
LEMMA MinedSame ==
  ASSUME IInv, NEW state \in DeploymentState
  PROVE  /\ Mined(state) \in DeploymentState
         /\ Mined(state).gitCommit = state.gitCommit
         /\ Mined(state).selectors = state.selectors
         /\ Mined(state).migration = state.migration
         /\ \A f \in Facets :
              /\ Mined(state).facets[f] = IF state.facets[f] \in Unmined THEN Mine(state.facets[f]) ELSE state.facets[f]
              /\ Mined(state).facets[f].address = state.facets[f].address
              /\ Mined(state).facets[f].initcodeHash = state.facets[f].initcodeHash
              /\ Mined(state).facets[f] = NoRecord <=> state.facets[f] = NoRecord
<1> DEFINE mined == [f \in Facets |-> IF state.facets[f] \in Unmined THEN Mine(state.facets[f]) ELSE state.facets[f]]
<1>1. state.facets \in [Facets -> FacetRecord]
  BY DEF DeploymentState
<1>2. ASSUME NEW f \in Facets
      PROVE  /\ mined[f] \in FacetRecord
             /\ mined[f].address = state.facets[f].address
             /\ mined[f].initcodeHash = state.facets[f].initcodeHash
             /\ mined[f] = NoRecord <=> state.facets[f] = NoRecord
  <2>1. CASE state.facets[f] \in Unmined
    <3>1. /\ Mine(state.facets[f]) \in FacetRecord
          /\ state.facets[f] # NoRecord /\ state.facets[f].address \in Addresses
          /\ Mine(state.facets[f]).address = state.facets[f].address
          /\ Mine(state.facets[f]).initcodeHash = state.facets[f].initcodeHash
      BY <2>1, MineType
    <3>2. NoRecord.address \notin Addresses
      BY DEF NoRecord, Addresses, ZERO_ADDRESS
    <3>3. QED
      BY <2>1, <3>1, <3>2
  <2>2. CASE state.facets[f] \notin Unmined
    BY <1>1, <2>2
  <2>3. QED
    BY <2>1, <2>2
<1>3. Mined(state) = [state EXCEPT !.facets = mined]
  BY DEF Mined
<1> HIDE DEF mined
<1>4. mined \in [Facets -> FacetRecord]
  BY <1>2 DEF mined
<1>5. /\ Mined(state) \in DeploymentState /\ Mined(state).facets = mined
      /\ Mined(state).gitCommit = state.gitCommit
      /\ Mined(state).selectors = state.selectors
      /\ Mined(state).migration = state.migration
  BY <1>3, <1>4 DEF DeploymentState
<1>6. \A f \in Facets : mined[f] = IF state.facets[f] \in Unmined THEN Mine(state.facets[f]) ELSE state.facets[f]
  BY DEF mined
<1>7. QED
  BY <1>2, <1>5, <1>6

(* So it routes what it did.                                               *)
LEMMA MinedRoutes ==
  ASSUME IInv, NEW state \in DeploymentState
  PROVE  /\ FacetsOf(Mined(state)) = FacetsOf(state)
         /\ \A s : Serving(Mined(state), s) = Serving(state, s)
         /\ SelectorOwners(Mined(state)) = SelectorOwners(state)
         /\ Clash(Mined(state)) <=> Clash(state)
         /\ StateDelegates(Mined(state)) = StateDelegates(state)
<1> DEFINE mined == Mined(state)
<1>1. FacetsOf(mined) = FacetsOf(state)
  BY MinedSame DEF FacetsOf
<1>2. ASSUME NEW s PROVE Serving(mined, s) = Serving(state, s)
  BY <1>1, MinedSame DEF Serving
<1>3. ASSUME NEW s \in Selectors, Serving(state, s) # {}
      PROVE  mined.facets[CHOOSE f \in Serving(state, s) : TRUE].address
               = state.facets[CHOOSE f \in Serving(state, s) : TRUE].address
  <2>1. (CHOOSE f \in Serving(state, s) : TRUE) \in Facets
    BY <1>3 DEF Serving, FacetsOf
  <2>2. QED
    BY <2>1, MinedSame
<1>4. SelectorOwners(mined) = SelectorOwners(state)
  BY <1>2, <1>3, MinedSame DEF SelectorOwners
<1>5. Clash(mined) <=> Clash(state)
  <2>1. ASSUME NEW s \in Selectors, NEW f \in Serving(state, s)
        PROVE  mined.facets[f].address = state.facets[f].address
    BY MinedSame DEF Serving, FacetsOf
  <2>2. QED
    BY <1>2, <2>1 DEF Clash
<1>6. StateDelegates(mined) = StateDelegates(state)
  BY MinedSame DEF StateDelegates
<1>7. QED
  BY <1>1, <1>2, <1>4, <1>5, <1>6

(* An absent state stays absent, and one that is well formed so.           *)
LEMMA MinedWellFormed ==
  ASSUME IInv, NEW state \in DeploymentState
  PROVE  /\ Mined(NoState) = NoState
         /\ Mined(state) = NoState => state = NoState
         /\ WellFormed(state) => WellFormed(Mined(state))
<1>1. Mined(NoState) = NoState
  <2>1. NoRecord \notin Unmined
    BY DEF Unmined
  <2>2. [f \in Facets |-> IF NoState.facets[f] \in Unmined THEN Mine(NoState.facets[f]) ELSE NoState.facets[f]]
          = NoState.facets
    BY <2>1 DEF NoState
  <2>3. [NoState EXCEPT !.facets = NoState.facets] = NoState
    BY DEF NoState
  <2>4. QED
    BY <2>2, <2>3 DEF Mined
<1>2. ASSUME Mined(state) = NoState PROVE state = NoState
  <2>1. \A f \in Facets : state.facets[f] = NoRecord
    BY <1>2, MinedSame DEF NoState
  <2>2. state.facets = NoState.facets
    BY <2>1 DEF NoState, DeploymentState
  <2>3. /\ state.gitCommit = NoState.gitCommit /\ state.selectors = NoState.selectors
        /\ state.migration = NoState.migration
    BY <1>2, MinedSame
  <2>4. QED
    BY <2>2, <2>3, NoStateType DEF DeploymentState
<1>3. ASSUME WellFormed(state), state # NoState PROVE WellFormed(Mined(state))
  <2>1. FilledIn(Mined(state).facets)
    BY <1>3, MinedSame DEF WellFormed, FilledIn
  <2>2. QED
    BY <1>3, <2>1, MinedSame, MinedRoutes DEF WellFormed
<1>4. QED
  BY <1>1, <1>2, <1>3

(* What the ledger holds once a deploy is through.                         *)
LEMMA FinishDeployEffect ==
  ASSUME IInv, FinishDeploy
  PROVE  /\ ledger' \in [Proxies -> Entry]
         /\ \A p \in Proxies :
              /\ ledger'[p].current = ledger[p].current
              /\ ledger'[p].history = ledger[p].history
              /\ run.ledger[p].proposed \in DeploymentState
              /\ ledger'[p].proposed = Mined(run.ledger[p].proposed)
<1>1. run.ledger \in [Proxies -> Entry] /\ run.step # "idle"
  BY DEF IInv, TypeOK, Run, FinishDeploy
<1>2. ledger' = [p \in Proxies |-> [run.ledger[p] EXCEPT !.proposed = Mined(@)]]
  BY DEF FinishDeploy
<1>3. ASSUME NEW p \in Proxies
      PROVE  /\ ledger'[p] \in Entry
             /\ ledger'[p].current = ledger[p].current
             /\ ledger'[p].history = ledger[p].history
             /\ run.ledger[p].proposed \in DeploymentState
             /\ ledger'[p].proposed = Mined(run.ledger[p].proposed)
  <2>1. run.ledger[p] \in Entry /\ run.ledger[p].proposed \in DeploymentState
    BY <1>1 DEF Entry
  <2>2. Mined(run.ledger[p].proposed) \in DeploymentState
    BY <2>1, MinedSame
  <2>3. ledger'[p] = [run.ledger[p] EXCEPT !.proposed = Mined(run.ledger[p].proposed)]
    BY <1>2
  <2>4. run.ledger[p].current = ledger[p].current /\ run.ledger[p].history = ledger[p].history
    BY <1>1 DEF IInv, Memory
  <2>5. QED
    BY <2>1, <2>2, <2>3, <2>4 DEF Entry
<1>4. QED
  BY <1>2, <1>3

(* Writing the ledger keeps it: every migration it proposes is on chain.   *)
LEMMA FinishDeployStep == IInv /\ FinishDeploy => IInv'
<1> SUFFICES ASSUME IInv, FinishDeploy PROVE IInv'
  OBVIOUS
<1>1. run \in Run /\ run.creations = <<>> /\ ~run.reverted
  BY DEF IInv, TypeOK, FinishDeploy
<1>2. /\ run' = Idle /\ ballots' = Published(run.ledger) /\ warned' = warned \union Unreproduced
      /\ UNCHANGED <<head, code, nonce, routes, announced, requests, faults>>
  BY DEF FinishDeploy, chain
<1>3. Published(run.ledger) \in [Proxies -> SUBSET Addresses]
  BY <1>1 DEF IInv, TypeOK, Run, Published, Entry, DeploymentState, MaybeAddress
<1>4. Unreproduced \in SUBSET Addresses
  BY MineType DEF Unreproduced
<1>5. TypeOK' /\ Unwritten'
  BY <1>1, <1>2, <1>3, <1>4, IdleType, FinishDeployEffect DEF IInv, TypeOK, Unwritten
<1>6. \A p \in Proxies : run.ledger[p].proposed.migration # ZERO_ADDRESS =>
        IsMigration(code[run.ledger[p].proposed.migration])
  BY <1>1 DEF IInv, MigrationsHeld
<1>7. \A p \in Proxies : \A m \in Published(run.ledger)[p] : IsMigration(code[m])
  BY <1>6 DEF IInv, MigrationsHeld, Published
<1>8. \A p \in Proxies : WellFormed(ledger'[p].current) /\ WellFormed(ledger'[p].proposed)
  BY FinishDeployEffect, MinedWellFormed DEF IInv, RecordsWellFormed
<1>9. \A p \in Proxies : ledger'[p].proposed.migration = run.ledger[p].proposed.migration
  BY FinishDeployEffect, MinedSame
<1>10. QED
  BY <1>2, <1>5, <1>6, <1>7, <1>8, <1>9, IdleInvariant

(* A run that fails or is killed. *)
LEMMA StopStep ==
  ASSUME IInv,
         FailDeploy \/ Crash \/ \E storage_keys \in Detections, unread \in SUBSET Facets :
                                 RefuseMigration(storage_keys, unread)
  PROVE  IInv'
<1>1. /\ run' = Idle /\ faults' \in 0..MaxFaults
      /\ UNCHANGED <<head, ledger, code, nonce, routes, announced, ballots, warned, requests>>
  BY BoundsAssumption DEF IInv, TypeOK, FailDeploy, RefuseMigration, Crash, CanFail, chain
<1>2. TypeOK' /\ Unwritten'
  BY <1>1, IdleType DEF IInv, TypeOK, Unwritten
<1>3. QED
  BY <1>1, <1>2, IdleInvariant DEF IInv, RecordsWellFormed, MigrationsHeld

-----------------------------------------------------------------------------
(* Starting a run, and accept.                                             *)

(* Starting a deploy keeps it: the memory is what was loaded.              *)
LEMMA StartDeployStep ==
  ASSUME IInv, NEW all \in BOOLEAN, StartDeploy(all)
  PROVE  IInv'
<1>1. /\ head \in Commits /\ ledger \in [Proxies -> Entry]
      /\ UNCHANGED <<head, ledger, code, nonce, routes, announced, ballots, warned, faults>>
      /\ requests' \in 0..MaxRequests
  BY BoundsAssumption DEF IInv, TypeOK, StartDeploy, CanRequest, chain
<1>2. /\ run' \in Run
      /\ run'.ledger = ledger /\ run'.proxy = 1 /\ run'.facet = 1 /\ run'.step = "facets"
      /\ run'.commit = head /\ run'.proposed_facets = NoState.facets
      /\ run'.run_deployed = [h \in Initcodes |-> NoRecord]
  BY <1>1, IdleType DEF StartDeploy, Run, Idle
<1>3. TypeOK' /\ Unwritten'
  BY <1>1, <1>2 DEF IInv, TypeOK, Unwritten
<1>4. RecordsWellFormed' /\ Reusable' /\ Memory' /\ MigrationsHeld'
  BY <1>1, <1>2 DEF IInv, RecordsWellFormed, Reusable, Memory, MigrationsHeld
<1>5. Planning'
  <2>1. 1 \in Proxies
    BY SizesAssumption DEF Proxies
  <2>2. Source' \in Seq(Facets)
    BY <1>1, <1>2, <2>1, SourcesAssumption DEF Source
  <2>3. FilledIn(NoState.facets)
    BY DEF FilledIn, NoState
  <2>4. QED
    BY <1>1, <1>2, <2>1, <2>2, <2>3 DEF Planning
<1>6. QED
  BY <1>3, <1>4, <1>5 DEF IInv

(* So does starting an accept.                                             *)
LEMMA StartAcceptStep == IInv /\ StartAccept => IInv'
<1> SUFFICES ASSUME IInv, StartAccept PROVE IInv'
  OBVIOUS
<1>1. /\ ledger \in [Proxies -> Entry]
      /\ UNCHANGED <<head, ledger, code, nonce, routes, announced, ballots, warned, requests, faults>>
  BY DEF IInv, TypeOK, StartAccept, chain
<1>2. /\ run' \in Run
      /\ run'.ledger = ledger /\ run'.step = "check" /\ run'.creations = <<>> /\ ~run'.reverted
      /\ run'.run_deployed = [h \in Initcodes |-> NoRecord]
  BY <1>1, IdleType DEF StartAccept, Run, Idle
<1>3. TypeOK' /\ Unwritten'
  BY <1>1, <1>2 DEF IInv, TypeOK, Unwritten
<1>4. RecordsWellFormed' /\ Planning' /\ Reusable' /\ Memory' /\ MigrationsHeld'
  BY <1>1, <1>2 DEF IInv, RecordsWellFormed, Planning, Reusable, Memory, MigrationsHeld
<1>5. QED
  BY <1>3, <1>4 DEF IInv

(* Checking a proxy only counts it as passed or failed.                    *)
LEMMA CheckProxyStep == IInv /\ CheckProxy => IInv'
<1> SUFFICES ASSUME IInv, CheckProxy PROVE IInv'
  OBVIOUS
<1>1. run \in Run /\ run.step = "check" /\ run.proxy \in Proxies /\ run.proxy + 1 \in 1..NProxies + 1
  BY SizesAssumption DEF IInv, TypeOK, Run, CheckProxy, Proxies
<1>2. UNCHANGED <<head, ledger, code, nonce, routes, announced, ballots, warned, requests, faults>>
  BY DEF CheckProxy, chain
<1>3. /\ run' \in Run
      /\ run'.step = "check" /\ run'.ledger = run.ledger
      /\ run'.creations = run.creations /\ run'.reverted = run.reverted
      /\ run'.run_deployed = run.run_deployed
  <2>1. CASE run' = [run EXCEPT !.proxy = @ + 1]
    BY <1>1, <2>1 DEF Run
  <2>2. CASE run' = [run EXCEPT !.proxy = @ + 1, !.pending = @ \union {run.proxy}]
    BY <1>1, <2>2 DEF Run
  <2>3. CASE run' = [run EXCEPT !.proxy = @ + 1, !.failed = TRUE]
    BY <1>1, <2>3 DEF Run
  <2>4. QED
    BY <2>1, <2>2, <2>3 DEF CheckProxy
<1>4. TypeOK' /\ Unwritten'
  BY <1>2, <1>3 DEF IInv, TypeOK, Unwritten
<1>5. RecordsWellFormed' /\ Planning' /\ Reusable' /\ Memory' /\ MigrationsHeld'
  BY <1>1, <1>2, <1>3 DEF IInv, RecordsWellFormed, Planning, Reusable, Memory, MigrationsHeld
<1>6. QED
  BY <1>4, <1>5 DEF IInv

(* What the ledger holds of a proxy after accept. *)
LEMMA FinishAcceptEffect ==
  ASSUME IInv, FinishAccept
  PROVE  /\ ledger' \in [Proxies -> Entry]
         /\ \A p \in Proxies : ledger'[p] = ledger[p] \/ ledger'[p] = AcceptEntry(ledger[p])
<1>1. ledger \in [Proxies -> Entry] /\ run.ledger = ledger
  BY DEF IInv, TypeOK, Memory, FinishAccept
<1>2. \A p \in Proxies : AcceptEntry(ledger[p]) \in Entry
  BY <1>1, AcceptEntryType
<1>3. QED
  BY <1>1, <1>2 DEF FinishAccept

(* Accepting keeps it: a proposed state is as well formed as a current     *)
(* one.                                                                    *)
LEMMA FinishAcceptStep == IInv /\ FinishAccept => IInv'
<1> SUFFICES ASSUME IInv, FinishAccept PROVE IInv'
  OBVIOUS
<1>1. run' = Idle /\ UNCHANGED <<head, code, nonce, routes, announced, ballots, warned, requests, faults>>
  BY DEF FinishAccept, chain
<1>2. TypeOK' /\ Unwritten'
  BY <1>1, IdleType, FinishAcceptEffect DEF IInv, TypeOK, Unwritten
<1>3. \A p \in Proxies : WellFormed(ledger'[p].current) /\ WellFormed(ledger'[p].proposed)
  <2> SUFFICES ASSUME NEW p \in Proxies
               PROVE  WellFormed(ledger'[p].current) /\ WellFormed(ledger'[p].proposed)
    OBVIOUS
  <2>1. WellFormed(ledger[p].current) /\ WellFormed(ledger[p].proposed)
    BY DEF IInv, RecordsWellFormed
  <2>2. AcceptEntry(ledger[p]).current = ledger[p].proposed /\ AcceptEntry(ledger[p]).proposed = NoState
    BY DEF AcceptEntry
  <2>3. CASE ledger'[p] = ledger[p]
    BY <2>1, <2>3
  <2>4. CASE ledger'[p] = AcceptEntry(ledger[p])
    BY <2>1, <2>2, <2>4, NoStateWellFormed
  <2>5. QED
    BY <2>3, <2>4, FinishAcceptEffect
<1>4. \A p \in Proxies : ledger'[p].proposed.migration # ZERO_ADDRESS =>
        IsMigration(code[ledger'[p].proposed.migration])
  <2> SUFFICES ASSUME NEW p \in Proxies, ledger'[p].proposed.migration # ZERO_ADDRESS
               PROVE  IsMigration(code[ledger'[p].proposed.migration])
    OBVIOUS
  <2>1. AcceptEntry(ledger[p]).proposed = NoState /\ NoState.migration = ZERO_ADDRESS
    BY DEF AcceptEntry, NoState
  <2>2. ledger'[p] = ledger[p]
    BY <2>1, FinishAcceptEffect
  <2>3. QED
    BY <2>2 DEF IInv, MigrationsHeld
<1>5. QED
  BY <1>1, <1>2, <1>3, <1>4, IdleInvariant DEF IInv, MigrationsHeld

-----------------------------------------------------------------------------
(* The environment.                                                        *)

(* Moving HEAD between two runs keeps it.                                  *)
LEMMA MoveHeadStep ==
  ASSUME IInv, NEW c \in Commits, MoveHead(c)
  PROVE  IInv'
<1>1. TypeOK' /\ Unwritten'
  BY BoundsAssumption DEF IInv, TypeOK, Unwritten, MoveHead, CanRequest, chain
<1>2. RecordsWellFormed' /\ Reusable' /\ Memory' /\ MigrationsHeld' /\ Planning'
  BY DEF IInv, RecordsWellFormed, Reusable, Memory, MigrationsHeld, Planning, Source, SourceFacets, MoveHead, chain
<1>3. QED
  BY <1>1, <1>2 DEF IInv

(* Another wallet's transaction keeps it: no code appears.                 *)
LEMMA ForeignTransactionStep == IInv /\ ForeignTransaction => IInv'
<1> SUFFICES ASSUME IInv, ForeignTransaction PROVE IInv'
  OBVIOUS
<1>1. TypeOK' /\ Unwritten'
  BY BoundsAssumption, SizesAssumption DEF IInv, TypeOK, Unwritten, ForeignTransaction, CanFail, Addresses
<1>2. RecordsWellFormed' /\ Reusable' /\ Memory' /\ MigrationsHeld' /\ Planning'
  BY DEF IInv, RecordsWellFormed, Reusable, Memory, MigrationsHeld, Planning, Source, SourceFacets, ForeignTransaction
<1>3. QED
  BY <1>1, <1>2 DEF IInv

(* A vote keeps it: what is executed is a migration on chain.              *)
LEMMA ExecuteStep ==
  ASSUME IInv, NEW p \in Proxies, NEW m, Execute(p, m)
  PROVE  IInv'
<1> DEFINE sets == code[m].sets
<1>1. sets \in Migrations
  <2>1. m \in ballots[p]
    BY DEF Execute
  <2>2. IsMigration(code[m])
    BY <2>1 DEF IInv, MigrationsHeld
  <2>3. QED
    BY <2>2 DEF IsMigration
<1>2. /\ UNCHANGED <<head, ledger, run, code, nonce, warned, requests, faults>>
      /\ ballots' = [ballots EXCEPT ![p] = @ \ {m}]
      /\ routes' = [routes EXCEPT ![p] = Migrate(routes[p], sets)]
      /\ announced' = [announced EXCEPT ![p] = @ \union ({sets[s] : s \in DOMAIN sets} \ {ZERO_ADDRESS})]
  BY DEF Execute
<1>3. Migrate(routes[p], sets) \in Routes /\ {sets[s] : s \in DOMAIN sets} \ {ZERO_ADDRESS} \subseteq Addresses
  BY <1>1, MigrateType DEF IInv, TypeOK
<1> HIDE DEF sets
<1>4. TypeOK'
  BY <1>2, <1>3 DEF IInv, TypeOK
<1>5. \A q \in Proxies : ballots'[q] \subseteq ballots[q]
  BY <1>2 DEF IInv, TypeOK
<1>6. Unwritten' /\ RecordsWellFormed' /\ Reusable' /\ Memory' /\ MigrationsHeld' /\ Planning'
  BY <1>2, <1>5 DEF IInv, Unwritten, RecordsWellFormed, Reusable, Memory, MigrationsHeld, Planning, Source, SourceFacets
<1>7. QED
  BY <1>4, <1>6 DEF IInv

-----------------------------------------------------------------------------
(* The theorems.                                                           *)

(* Every step keeps the invariant.                                         *)
LEMMA NextIInv == IInv /\ [Next]_vars => IInv'
<1> SUFFICES ASSUME IInv, [Next]_vars PROVE IInv'
  OBVIOUS
<1>1. ASSUME NEW all \in BOOLEAN, StartDeploy(all) PROVE IInv'
  BY <1>1, StartDeployStep
<1>2. CASE PlanFacet \/ PlanSelectors
  BY <1>2, PlanFacetStep, PlanSelectorsStep
<1>3. CASE Send \/ FinishDeploy \/ FailDeploy
  BY <1>3, SendStep, FinishDeployStep, StopStep
<1>4. CASE StartAccept \/ CheckProxy \/ FinishAccept
  BY <1>4, StartAcceptStep, CheckProxyStep, FinishAcceptStep
<1>5. ASSUME NEW c \in Commits, MoveHead(c) PROVE IInv'
  BY <1>5, MoveHeadStep
<1>6. CASE Crash \/ ForeignTransaction
  BY <1>6, StopStep, ForeignTransactionStep
<1>7. ASSUME NEW p \in Proxies, NEW m \in Addresses, Execute(p, m) PROVE IInv'
  BY <1>7, ExecuteStep
<1>8. ASSUME NEW storage_keys \in Detections, NEW unread \in SUBSET Facets,
             PlanMigration(storage_keys, unread) \/ RefuseMigration(storage_keys, unread)
      PROVE  IInv'
  BY <1>8, PlanMigrationStep, StopStep
<1>9. CASE UNCHANGED vars
  BY <1>9 DEF vars, IInv, TypeOK, Unwritten, RecordsWellFormed, Planning, Reusable, Memory, MigrationsHeld, Source, SourceFacets
<1>10. QED
  BY <1>1, <1>2, <1>3, <1>4, <1>5, <1>6, <1>7, <1>8, <1>9 DEF Next, Tool

(* The records, a run's memory and the chain fit together in every state,  *)
(* whatever deploy, accept, governance, crashes and foreign transactions   *)
(* do and in whatever order.                                               *)
THEOREM InvariantHolds == Spec => []IInv
<1>1. Init => IInv
  BY InitIInv
<1>2. IInv /\ [Next]_vars => IInv'
  BY NextIInv
<1>3. QED
  BY <1>1, <1>2, PTL DEF Spec

(* Every variable keeps its type; in particular a migration governance may *)
(* execute is always a migration's code on chain.                          *)
THEOREM TypeCorrect == Spec => []TypeOK
<1>1. IInv => TypeOK
  BY DEF IInv
<1>2. QED
  BY <1>1, InvariantHolds, PTL

-----------------------------------------------------------------------------
(* What deploy builds, verify and accept agree on.                         *)

(* The selectors whose slot has to be written, when each slot found is the *)
(* selector's own.                                                         *)
ToWrite(current, proposed, routes_, unread) ==
  {s \in Selectors :
     /\ SelectorOwners(proposed)[s] # ZERO_ADDRESS \/ s \in CurrentSelectors(current, unread)
     /\ routes_[s] # SelectorOwners(proposed)[s]}

(* Then those are the ones written, and nothing stops the plan.            *)
LEMMA RightlyBuilt ==
  ASSUME NEW current, NEW proposed, NEW routes_ \in Routes, NEW unread
  PROVE  /\ BuildMigration(current, proposed, routes_, OwnSlots, unread)
              = [s \in ToWrite(current, proposed, routes_, unread) |-> SelectorOwners(proposed)[s]]
         /\ ~SlotsAreWrong(current, proposed, routes_, OwnSlots, unread)
<1> DEFINE new == SelectorOwners(proposed)
           written == ToWrite(current, proposed, routes_, unread)
           set == SetDelegates(current, proposed, routes_, OwnSlots, unread)
<1>1. \A s \in Selectors : OwnSlots[s] = s /\ s # NoSlot
  BY NamesAssumption DEF OwnSlots
<1>2. \A s \in Selectors : Held(routes_, OwnSlots, s) = routes_[s]
  BY <1>1 DEF Held
<1>3. set = written
  <2>1. set \subseteq Selectors /\ written \subseteq Selectors
    BY DEF SetDelegates, CurrentSelectors, ToWrite
  <2>2. ASSUME NEW s \in Selectors PROVE s \in set <=> s \in written
    <3>1. s \in set <=> \/ new[s] # ZERO_ADDRESS /\ routes_[s] # new[s]
                       \/ /\ s \in CurrentSelectors(current, unread)
                          /\ new[s] = ZERO_ADDRESS /\ routes_[s] # ZERO_ADDRESS
      BY <1>2 DEF SetDelegates
    <3> HIDE DEF new, set
    <3>2. QED
      BY <3>1 DEF ToWrite, new
  <2>3. QED
    BY <2>1, <2>2
<1>4. ~SlotsAreWrong(current, proposed, routes_, OwnSlots, unread)
  <2>1. \A s \in set : s \in Selectors
    BY <1>3 DEF ToWrite
  <2> HIDE DEF set
  <2>2. \A s, t \in set : s # t => OwnSlots[s] # OwnSlots[t]
    BY <1>1, <2>1
  <2>3. QED
    BY <1>1, <2>2 DEF SlotsAreWrong, set
<1>5. \A s \in set : s \in Selectors
  BY <1>3 DEF ToWrite
<1> HIDE DEF set
<1>6. {OwnSlots[s] : s \in set} = set
  BY <1>1, <1>5
<1>7. \A slot \in set : (CHOOSE s \in set : OwnSlots[s] = slot) = slot
  BY <1>1, <1>5
<1>8. BuildMigration(current, proposed, routes_, OwnSlots, unread) = [s \in set |-> new[s]]
  BY <1>6, <1>7 DEF BuildMigration, set
<1>9. QED
  BY <1>3, <1>4, <1>8

(* The rehearsal compares a script, whatever slots it was built on, with   *)
(* the one the right slots give: it passes exactly if the two leave every  *)
(* selector proposed, or known to be dropped, at the same address.  So it  *)
(* refuses a wrong slot that such a selector notices, never a right one,   *)
(* and does not see a write that only other selectors notice.              *)
THEOREM RehearsalDecides ==
  ASSUME NEW current, NEW proposed, NEW routes_ \in Routes, NEW unread, NEW sets
  PROVE  Rehearse(current, proposed, routes_, sets, unread) <=>
           \A s \in Selectors :
             SelectorOwners(proposed)[s] # ZERO_ADDRESS \/ s \in CurrentSelectors(current, unread) =>
               Migrate(routes_, sets)[s]
                 = Migrate(routes_, BuildMigration(current, proposed, routes_, OwnSlots, unread))[s]
<1> DEFINE new == SelectorOwners(proposed)
           written == ToWrite(current, proposed, routes_, unread)
           right == [s \in written |-> new[s]]
<1>1. BuildMigration(current, proposed, routes_, OwnSlots, unread) = right
  BY RightlyBuilt
<1>2. \A s \in Selectors : Migrate(routes_, right)[s] = IF s \in written THEN new[s] ELSE routes_[s]
  BY DEF Migrate
<1>3. ASSUME NEW s \in Selectors, new[s] # ZERO_ADDRESS \/ s \in CurrentSelectors(current, unread)
      PROVE  Migrate(routes_, right)[s] = new[s]
  BY <1>2, <1>3 DEF ToWrite
<1>4. CurrentSelectors(current, unread) \subseteq Selectors
  BY DEF CurrentSelectors
<1> DEFINE after == Migrate(routes_, sets)
           left == Migrate(routes_, right)
<1>5. Rehearse(current, proposed, routes_, sets, unread) <=>
        /\ \A s \in Selectors : new[s] # ZERO_ADDRESS => after[s] = new[s]
        /\ \A s \in CurrentSelectors(current, unread) : new[s] = ZERO_ADDRESS => after[s] = ZERO_ADDRESS
  BY DEF Rehearse
<1> HIDE DEF new, right, after, left
<1>6. QED
  BY <1>1, <1>3, <1>4, <1>5 DEF after, left, new

(* Everything the installed facets serve is known to verify, which reads   *)
(* each of them or stops.                                                  *)
LEMMA ReadInFull ==
  ASSUME NEW current, NEW unread, FacetsOf(current) \intersect unread = {},
         NEW s \in Selectors, Serving(current, s) # {}
  PROVE  s \in CurrentSelectors(current, unread)
BY DEF CurrentSelectors, Serving

(* `accept` never strands a vote that `verify` passed: if verify_migration, *)
(* reading every installed facet, rebuilds the script on chain, and the     *)
(* slots it found are right or the dispatcher confirms them, then once      *)
(* governance executes it verify_migrated passes.  So a script staged with  *)
(* a facet unread, or on a wrong slot, that would leave a dropped selector  *)
(* routed is refused by verify first.                                       *)
THEOREM VerifiedIsAcceptable == Spec => []VerifiedMigrationIsAcceptable
<1>1. IInv => VerifiedMigrationIsAcceptable
  <2> SUFFICES ASSUME IInv, NEW p \in Proxies, NEW storage_keys \in Detections, NEW unread \in SUBSET Facets,
                      ledger[p].proposed # NoState,
                      VerifyMigration(ledger[p].current, ledger[p].proposed, routes[p], code, storage_keys, unread),
                      \/ storage_keys = OwnSlots
                      \/ Rehearse(ledger[p].current, ledger[p].proposed, routes[p],
                                  code[ledger[p].proposed.migration].sets, unread)
               PROVE  VerifyMigrated(ledger[p].current, ledger[p].proposed,
                                     Migrate(routes[p], code[ledger[p].proposed.migration].sets))
    BY DEF VerifiedMigrationIsAcceptable
  <2> DEFINE current == ledger[p].current
             proposed == ledger[p].proposed
             sets == code[proposed.migration].sets
             after == Migrate(routes[p], sets)
  <2>1. sets = BuildMigration(current, proposed, routes[p], storage_keys, unread)
    BY DEF VerifyMigration, MigrationCode
  <2>2. Rehearse(current, proposed, routes[p], sets, unread)
    <3>1. routes[p] \in Routes
      BY DEF IInv, TypeOK
    <3>2. CASE storage_keys = OwnSlots
      BY <2>1, <3>1, <3>2, RehearsalDecides
    <3>3. QED
      BY <3>2
  <2>3. SelectorOwners(proposed)[SELECTORS_SELECTOR] # ZERO_ADDRESS
    BY DEF IInv, RecordsWellFormed, WellFormed
  <2>4. ASSUME NEW s \in Selectors,
               SelectorOwners(current)[s] # ZERO_ADDRESS, SelectorOwners(proposed)[s] = ZERO_ADDRESS
        PROVE  after[s] = ZERO_ADDRESS
    <3>1. s # SELECTORS_SELECTOR
      BY <2>3, <2>4
    <3>2. Serving(current, s) # {}
      BY <2>4, <3>1 DEF SelectorOwners
    <3>3. s \in CurrentSelectors(current, unread)
      BY <3>2, ReadInFull DEF VerifyMigration
    <3>4. QED
      BY <2>2, <2>4, <3>3 DEF Rehearse
  <2>5. \A s \in Selectors : SelectorOwners(proposed)[s] # ZERO_ADDRESS => after[s] = SelectorOwners(proposed)[s]
    BY <2>2 DEF Rehearse
  <2>6. VerifyMigrated(current, proposed, after)
    BY <2>4, <2>5 DEF VerifyMigrated
  <2>7. QED
    BY <2>6
<1>2. QED
  BY <1>1, InvariantHolds, PTL

(* What deploy stages with some installed facets unread, `accept` refuses   *)
(* for ever exactly if a selector that only they served is dropped and      *)
(* still routed: the rehearsal, which asks about no more than deploy read,  *)
(* has passed.                                                              *)
THEOREM UnreadIsNotAccepted ==
  ASSUME NEW current \in DeploymentState, NEW proposed \in DeploymentState,
         SelectorOwners(proposed)[SELECTORS_SELECTOR] # ZERO_ADDRESS,
         NEW routes_ \in Routes, NEW unread
  PROVE  LET sets == BuildMigration(current, proposed, routes_, OwnSlots, unread)
         IN  /\ Rehearse(current, proposed, routes_, sets, unread)
             /\ VerifyMigrated(current, proposed, Migrate(routes_, sets)) <=>
                  \A s \in Selectors :
                    /\ SelectorOwners(current)[s] # ZERO_ADDRESS /\ SelectorOwners(proposed)[s] = ZERO_ADDRESS
                    /\ Serving(current, s) \subseteq unread
                    => routes_[s] = ZERO_ADDRESS
<1> DEFINE new == SelectorOwners(proposed)
           old == SelectorOwners(current)
           written == ToWrite(current, proposed, routes_, unread)
           sets == BuildMigration(current, proposed, routes_, OwnSlots, unread)
           after == Migrate(routes_, sets)
<1>1. sets = [s \in written |-> new[s]]
  BY RightlyBuilt
<1>2. \A s \in Selectors : after[s] = IF s \in written THEN new[s] ELSE routes_[s]
  BY <1>1 DEF Migrate
<1>3. Rehearse(current, proposed, routes_, sets, unread)
  BY RehearsalDecides
<1>4. \A s \in Selectors : new[s] # ZERO_ADDRESS => after[s] = new[s]
  BY <1>3 DEF Rehearse
<1>5. ASSUME NEW s \in Selectors, old[s] # ZERO_ADDRESS, new[s] = ZERO_ADDRESS
      PROVE  after[s] = IF Serving(current, s) \subseteq unread THEN routes_[s] ELSE ZERO_ADDRESS
  <2>1. s \in CurrentSelectors(current, unread) <=> ~(Serving(current, s) \subseteq unread)
    BY DEF CurrentSelectors
  <2>2. s \in written <=> s \in CurrentSelectors(current, unread) /\ routes_[s] # ZERO_ADDRESS
    BY <1>5 DEF ToWrite
  <2> HIDE DEF new, old, sets, after, written
  <2>3. QED
    BY <1>2, <1>5, <2>1, <2>2
<1>6. VerifyMigrated(current, proposed, after) <=>
        \A s \in Selectors : old[s] # ZERO_ADDRESS /\ new[s] = ZERO_ADDRESS => after[s] = ZERO_ADDRESS
  BY <1>4 DEF VerifyMigrated
<1> HIDE DEF new, old, sets, after
<1>7. QED
  BY <1>3, <1>5, <1>6 DEF new, old, sets, after

-----------------------------------------------------------------------------
(* Nothing accepted leaves the record.                                     *)

(* accept's swap keeps every delegate of current and history in one of     *)
(* them.                                                                   *)
LEMMA AcceptKeepsRecords ==
  ASSUME NEW entry \in Entry, WellFormed(entry.current)
  PROVE  StateDelegates(entry.current) \union Archived(entry)
           \subseteq StateDelegates(AcceptEntry(entry).current) \union Archived(AcceptEntry(entry))
<1> DEFINE retired == RetiredEntries(entry.current, entry.proposed)
<1>1. /\ AcceptEntry(entry).current = entry.proposed
      /\ AcceptEntry(entry).history = UpdateHistory(entry.history, retired)
  BY DEF AcceptEntry
<1>2. \A a \in Addresses : retired[a] # NoEntry => a \in Archived(AcceptEntry(entry))
  BY <1>1 DEF UpdateHistory, Archived
<1>3. ASSUME NEW a \in Archived(entry)
      PROVE  a \in Archived(AcceptEntry(entry))
  BY <1>1, <1>2 DEF UpdateHistory, Archived
<1>4. ASSUME NEW a \in StateDelegates(entry.current), a \notin StateDelegates(entry.proposed)
      PROVE  a \in Archived(AcceptEntry(entry))
  <2>1. a \in Addresses /\ a # ZERO_ADDRESS
    BY SizesAssumption DEF StateDelegates, Addresses, ZERO_ADDRESS
  <2>2. entry.current # NoState
    BY <2>1 DEF StateDelegates, NoState, NoRecord
  <2>3. entry.current.gitCommit # NoCommit
    BY <2>2, NamesAssumption DEF WellFormed
  <2>4. HistoryEntries(entry.current)[a].gitCommit = entry.current.gitCommit
    BY <2>1 DEF StateDelegates, HistoryEntries, ArchivedAs
  <2>5. HistoryEntries(entry.current)[a] # NoEntry
    BY <2>3, <2>4 DEF NoEntry, ArchivedAs
  <2>6. HistoryEntries(entry.proposed)[a] = NoEntry
    BY <1>4, <2>1 DEF StateDelegates, HistoryEntries
  <2>7. retired[a] = HistoryEntries(entry.current)[a]
    BY <2>1, <2>6 DEF RetiredEntries
  <2>8. QED
    BY <1>2, <2>1, <2>5, <2>7
<1>5. QED
  BY <1>1, <1>3, <1>4

(* A delegate accepted once stays recorded, as installed or as a former    *)
(* one, through every later deploy and accept, successful or not.          *)
THEOREM RetiredStay == Spec => RetiredStayRecorded
<1> DEFINE Kept == \A p \in Proxies :
             StateDelegates(ledger[p].current) \union Archived(ledger[p])
               \subseteq StateDelegates(ledger'[p].current) \union Archived(ledger'[p])
<1>1. IInv /\ [Next]_vars => [Kept]_ledger
  <2> SUFFICES ASSUME IInv, [Next]_vars, ledger' # ledger
               PROVE  Kept
    OBVIOUS
  <2>1. FinishDeploy \/ FinishAccept
    BY DEF vars, chain, Next, Tool, StartDeploy, PlanFacet, PlanSelectors, PlanMigration, RefuseMigration, Send, FailDeploy,
           StartAccept, CheckProxy, MoveHead, Crash, ForeignTransaction, Execute
  <2>2. CASE FinishDeploy
    <3>1. \A p \in Proxies : ledger'[p].current = ledger[p].current /\ ledger'[p].history = ledger[p].history
      BY <2>2, FinishDeployEffect
    <3>2. QED
      BY <3>1 DEF Archived
  <2>3. CASE FinishAccept
    <3> SUFFICES ASSUME NEW p \in Proxies
                 PROVE  StateDelegates(ledger[p].current) \union Archived(ledger[p])
                          \subseteq StateDelegates(ledger'[p].current) \union Archived(ledger'[p])
      OBVIOUS
    <3>1. ledger[p] \in Entry /\ WellFormed(ledger[p].current)
      BY DEF IInv, TypeOK, RecordsWellFormed
    <3>2. CASE ledger'[p] = ledger[p]
      BY <3>2
    <3>3. CASE ledger'[p] = AcceptEntry(ledger[p])
      BY <3>1, <3>3, AcceptKeepsRecords
    <3>4. QED
      BY <2>3, <3>2, <3>3, FinishAcceptEffect
  <2>4. QED
    BY <2>1, <2>2, <2>3
<1>2. QED
  BY <1>1, InvariantHolds, PTL DEF Spec, RetiredStayRecorded
=============================================================================
